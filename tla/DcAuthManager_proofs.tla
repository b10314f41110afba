------------------------ MODULE DcAuthManager_proofs ------------------------
(* Proofs about DcAuthManager, for any number of data centers, of keys     *)
(* lost and of queries that fail.                                          *)
EXTENDS DcAuthManager, SequenceTheorems, TLAPS

----------------------------------------------------------------------------
(* The inductive invariant.  Its parts take the data centers, the queries  *)
(* and the inbox as parameters, because RunLoop begins with those a        *)
(* handler has left.                                                       *)

KeyStates == {"Empty", "NoAuth", "OK"}
DcInfo ==
  [auth : KeyStates, state : {"Waiting", "Export", "Import", "BeforeOk", "Ok"},
   wait : Nat, exportId : Nat, sent : Nat]
QueryRecords ==
  [dc : Dcs, id : Nat, kind : {"export", "import"}, token : Nat,
   stage : {"sent", "written", "notified"}]
ResultRecords ==
  [type : {"result"}, dc : Dcs, id : Nat, kind : {"export", "import"}, ok : BOOLEAN]
InboxMessages == [type : {"update", "main"}, dc : Dcs] \cup ResultRecords

TypesOK(rs, qs, ib, ex) ==
  /\ rs \in [Dcs -> {Absent} \cup DcInfo]
  /\ qs \subseteq QueryRecords
  /\ ib \in Seq(InboxMessages)
  /\ ex \in [Dcs -> Nat]

KeysTypeOK ==
  /\ key \in [Dcs -> KeyStates]
  /\ causes \in [Dcs -> Nat]
  /\ adding # Nothing => adding \in Dcs \X KeyStates

ResultsAt(ib) == {i \in 1..Len(ib) : ib[i].type = "result"}
UpdatesAt(ib, d) == {i \in 1..Len(ib) : ib[i].type = "update" /\ ib[i].dc = d}

\* Those that were added are the ones that listen and hear of updates.
Known(rs, ib, ls) ==
  /\ ls = {d \in Dcs : rs[d] # Absent}
  /\ \A d \in Dcs : UpdatesAt(ib, d) # {} => rs[d] # Absent

AddingIsNew == adding # Nothing => ~Added(adding[1])

\* r waits for the query id, and for one of its kind.
Awaits(r, id, kind) ==
  /\ r # Absent /\ r.wait = id /\ id # 0
  /\ r.state = IF kind = "export" THEN "Import" ELSE "BeforeOk"

\* For each data center there is one query, or one answer, or neither.
Single(rs, qs, ib) ==
  /\ \A q \in qs : Awaits(rs[q.dc], q.id, q.kind)
  /\ \A i \in ResultsAt(ib) : Awaits(rs[ib[i].dc], ib[i].id, ib[i].kind)
  /\ \A q, p \in qs : q.dc = p.dc => q = p
  /\ \A i, j \in ResultsAt(ib) : ib[i].dc = ib[j].dc => i = j
  /\ \A q \in qs, i \in ResultsAt(ib) : q.dc # ib[i].dc
  /\ \A d \in Dcs : rs[d] # Absent /\ rs[d].wait # 0 =>
       (\E q \in qs : q.dc = d) \/ (\E i \in ResultsAt(ib) : ib[i].dc = d)
  /\ \A d \in Dcs : rs[d] # Absent /\ rs[d].state = "Import" /\ rs[d].exportId # 0 => rs[d].wait = 0

\* As many keys were lost and queries failed as there were exports: another one
\* has its cause.
Spent(ex, d) == ex[d] <= causes[d]

\* Where the next export may come from, it has its cause.
CausedStates(rs, ex) ==
  \A d \in Dcs :
    /\ ex[d] <= 1 + causes[d]
    /\ rs[d] = Absent => ex[d] = 0
    /\ rs[d] # Absent /\ rs[d].state \in {"Waiting", "Export"} => Spent(ex, d)
    /\ rs[d] # Absent /\ rs[d].state = "Ok" /\ (rs[d].auth # "OK" \/ key[d] # "OK") => Spent(ex, d)

\* The manager knows, or will know in time, that an import has authorized the key.
Told(rs, ib, d, n) == rs[d].auth = "OK" \/ \E i \in UpdatesAt(ib, d) : i < n

CausedQueries(rs, qs, ib, ex) ==
  \A q \in qs : q.stage # "sent" =>
    /\ q.kind = "import"
    /\ Spent(ex, q.dc) \/ key[q.dc] = "OK"
    /\ q.stage = "notified" => Spent(ex, q.dc) \/ Told(rs, ib, q.dc, Len(ib) + 1)

CausedResults(rs, ib, ex) ==
  \A i \in ResultsAt(ib) :
    \/ Spent(ex, ib[i].dc)
    \/ /\ ib[i].ok
       /\ ib[i].kind = "import" => key[ib[i].dc] = "OK" /\ Told(rs, ib, ib[i].dc, i)

Parts(rs, qs, ib, ex, ls) ==
  /\ TypesOK(rs, qs, ib, ex) /\ Known(rs, ib, ls) /\ Single(rs, qs, ib)
  /\ CausedStates(rs, ex) /\ CausedQueries(rs, qs, ib, ex) /\ CausedResults(rs, ib, ex)

IInv == Parts(dcs, queries, inbox, exports, listening) /\ KeysTypeOK /\ AddingIsNew

----------------------------------------------------------------------------
(* loop(). *)

\* A record of a data center that was added is a DcInfo.
LEMMA InfoOfAdded ==
  ASSUME NEW rs \in [Dcs -> {Absent} \cup DcInfo], NEW d \in Dcs
  PROVE  /\ rs[d] # Absent => rs[d] \in DcInfo
         /\ rs[d] \in DcInfo => rs[d] # Absent
BY SMTT(60) DEF Absent, DcInfo

\* What sending a query makes of a DcInfo.
LEMMA SentInfo ==
  ASSUME NEW r \in DcInfo
  PROVE  /\ Exporting(r) \in DcInfo /\ Exporting(r).state = "Import" /\ Exporting(r).exportId = 0
         /\ Exporting(r).wait = r.sent + 1 /\ Exporting(r).auth = r.auth
         /\ Importing(r) \in DcInfo /\ Importing(r).state = "BeforeOk"
         /\ Importing(r).wait = r.sent + 1 /\ Importing(r).auth = r.auth
         /\ r.sent + 1 # 0
<1> DEFINE n == r.sent + 1
           a == [r EXCEPT !.state = "Import"]
           b == [a EXCEPT !.wait = n]
           c == [b EXCEPT !.exportId = 0]
           e == [r EXCEPT !.state = "BeforeOk"]
           f == [e EXCEPT !.wait = n]
<1>1. n \in Nat /\ n # 0
  BY SMTT(60) DEF DcInfo
<1>2. a \in DcInfo /\ a.sent = r.sent /\ e \in DcInfo /\ e.sent = r.sent
  BY Zenon DEF DcInfo
<1> HIDE DEF n, a, e
<1>3. b \in DcInfo /\ b.sent = r.sent /\ f \in DcInfo /\ f.sent = r.sent
  BY <1>1, <1>2, Zenon DEF DcInfo
<1> HIDE DEF b, f
<1>4. c \in DcInfo /\ c.sent = r.sent
  BY <1>3, Zenon DEF DcInfo
<1> HIDE DEF c
<1>5. [c EXCEPT !.sent = n] \in DcInfo /\ [f EXCEPT !.sent = n] \in DcInfo
  BY <1>1, <1>3, <1>4, Zenon DEF DcInfo
<1>6. Exporting(r) = [c EXCEPT !.sent = n]
  BY <1>4, Zenon DEF Exporting, a, b, c, n
<1>7. Importing(r) = [f EXCEPT !.sent = n]
  BY <1>3, Zenon DEF Importing, e, f, n
<1>8. /\ Exporting(r).state = "Import" /\ Exporting(r).exportId = 0
      /\ Exporting(r).wait = r.sent + 1 /\ Exporting(r).auth = r.auth
  BY Zenon DEF DcInfo, Exporting
<1>9. /\ Importing(r).state = "BeforeOk"
      /\ Importing(r).wait = r.sent + 1 /\ Importing(r).auth = r.auth
  BY Zenon DEF DcInfo, Importing
<1> QED BY <1>1, <1>5, <1>6, <1>7, <1>8, <1>9, Zenon DEF n

\* Nothing is under way for a data center for which loop() sends a query.
LEMMA NothingUnderWay ==
  ASSUME NEW rs, NEW ib, NEW m, TypesOK(rs, queries, ib, exports), Single(rs, queries, ib),
         NEW d \in Loops(rs, m), SendsExport(rs[d]) \/ SendsImport(rs[d])
  PROVE  /\ d \in Dcs /\ rs[d] \in DcInfo /\ rs[d].wait = 0
         /\ \A q \in queries : q.dc # d
         /\ \A i \in ResultsAt(ib) : ib[i].dc # d
<1>1. d \in Dcs /\ rs[d] # Absent /\ rs[d] \in DcInfo
  BY InfoOfAdded, Zenon DEF Loops, TypesOK
<1>2. rs[d].wait = 0
  <2>1. CASE SendsImport(rs[d])
    BY <1>1, <2>1, Zenon DEF SendsImport, Single
  <2>2. CASE SendsExport(rs[d])
    <3>1. rs[d].state \notin {"Import", "BeforeOk"}
      BY <2>2, Zenon DEF SendsExport, Restarted
    <3>2. ASSUME NEW q \in queries, q.dc = d PROVE FALSE
      BY <3>1, <3>2, Zenon DEF Single, Awaits
    <3>3. ASSUME NEW i \in ResultsAt(ib), ib[i].dc = d PROVE FALSE
      BY <3>1, <3>3, Zenon DEF Single, Awaits
    <3> QED BY <1>1, <3>2, <3>3, Zenon DEF Single
  <2> QED BY <2>1, <2>2, Zenon
<1>3. ASSUME NEW q \in queries, q.dc = d PROVE FALSE
  BY <1>2, <1>3, Zenon DEF Single, Awaits
<1>4. ASSUME NEW i \in ResultsAt(ib), ib[i].dc = d PROVE FALSE
  BY <1>2, <1>4, Zenon DEF Single, Awaits
<1> QED BY <1>1, <1>2, <1>3, <1>4, Zenon

\* loop() leaves a state as the invariant wants it if it finds one.
LEMMA RunLoopKeeps ==
  ASSUME NEW rs, NEW ib, NEW ls, NEW m, KeysTypeOK,
         Parts(rs, queries, ib, exports, ls), RunLoop(rs, m)
  PROVE  Parts(dcs', queries', ib, exports', ls)
<1> DEFINE X == {d \in Loops(rs, m) : SendsExport(rs[d])}
           M == {d \in Loops(rs, m) : SendsImport(rs[d])}
<1>0. /\ TypesOK(rs, queries, ib, exports) /\ Known(rs, ib, ls) /\ Single(rs, queries, ib)
      /\ CausedStates(rs, exports) /\ CausedQueries(rs, queries, ib, exports)
      /\ CausedResults(rs, ib, exports)
  BY Zenon DEF Parts
<1>1. /\ dcs' = [d \in Dcs |-> IF d \in X THEN Exporting(rs[d])
                               ELSE IF d \in M THEN Importing(rs[d]) ELSE rs[d]]
      /\ queries' = queries \cup {Query(rs[d], d, "export", 0) : d \in X}
                            \cup {Query(rs[d], d, "import", rs[d].exportId) : d \in M}
      /\ exports' = [d \in Dcs |-> IF d \in X THEN exports[d] + 1 ELSE exports[d]]
  BY Zenon DEF RunLoop
<1>2. \A d \in X \cup M :
        /\ d \in Dcs /\ rs[d] \in DcInfo /\ rs[d].wait = 0
        /\ \A q \in queries : q.dc # d
        /\ \A i \in ResultsAt(ib) : ib[i].dc # d
  BY <1>0, NothingUnderWay, SMTT(60)
<1>3. \A d \in X : rs[d].state \in {"Waiting", "Export", "Ok"} /\ Spent(exports, d)
  <2> SUFFICES ASSUME NEW d \in X
               PROVE  rs[d].state \in {"Waiting", "Export", "Ok"} /\ Spent(exports, d)
    BY Zenon
  <2>1. SendsExport(rs[d]) /\ d \in Dcs /\ rs[d] # Absent
    BY Zenon DEF Loops
  <2>2. rs[d].auth # "OK" /\ rs[d].state \in {"Waiting", "Export", "Ok"}
    BY <2>1, Zenon DEF SendsExport, Restarted
  <2> QED BY <1>0, <2>1, <2>2, Zenon DEF CausedStates
<1>4. \A d \in M : rs[d].state = "Import" /\ d \notin X
  BY <1>3, Zenon DEF SendsImport
<1> HIDE DEF X, M
<1>5. ASSUME NEW d \in X
      PROVE  /\ dcs'[d] \in DcInfo /\ dcs'[d].state = "Import" /\ dcs'[d].exportId = 0
             /\ dcs'[d].wait = rs[d].sent + 1 /\ dcs'[d].wait # 0 /\ dcs'[d].auth = rs[d].auth
  <2>1. dcs'[d] = Exporting(rs[d]) /\ rs[d] \in DcInfo
    BY <1>1, <1>2, Zenon
  <2> DEFINE r == rs[d]
  <2>2. r \in DcInfo /\ dcs'[d] = Exporting(r)
    BY <2>1, Zenon
  <2> HIDE DEF r
  <2>3. /\ dcs'[d] \in DcInfo /\ dcs'[d].state = "Import" /\ dcs'[d].exportId = 0
        /\ dcs'[d].wait = r.sent + 1 /\ dcs'[d].wait # 0 /\ dcs'[d].auth = r.auth
    <3>1. /\ Exporting(r) \in DcInfo /\ Exporting(r).state = "Import" /\ Exporting(r).exportId = 0
          /\ Exporting(r).wait = r.sent + 1 /\ Exporting(r).auth = r.auth
      BY <2>2, SentInfo, Zenon
    <3>2. r.sent + 1 # 0
      BY <2>2, SentInfo, Zenon
    <3> QED BY <2>2, <3>1, <3>2, Zenon
  <2> QED BY <2>3, Zenon DEF r
<1>6. ASSUME NEW d \in M
      PROVE  /\ dcs'[d] \in DcInfo /\ dcs'[d].state = "BeforeOk"
             /\ dcs'[d].wait = rs[d].sent + 1 /\ dcs'[d].wait # 0 /\ dcs'[d].auth = rs[d].auth
  <2>1. dcs'[d] = Importing(rs[d]) /\ rs[d] \in DcInfo
    BY <1>1, <1>2, <1>4, Zenon
  <2> DEFINE r == rs[d]
  <2>2. r \in DcInfo /\ dcs'[d] = Importing(r)
    BY <2>1, Zenon
  <2> HIDE DEF r
  <2>3. /\ dcs'[d] \in DcInfo /\ dcs'[d].state = "BeforeOk"
        /\ dcs'[d].wait = r.sent + 1 /\ dcs'[d].wait # 0 /\ dcs'[d].auth = r.auth
    <3>1. /\ Importing(r) \in DcInfo /\ Importing(r).state = "BeforeOk"
          /\ Importing(r).wait = r.sent + 1 /\ Importing(r).auth = r.auth
      BY <2>2, SentInfo, Zenon
    <3>2. r.sent + 1 # 0
      BY <2>2, SentInfo, Zenon
    <3> QED BY <2>2, <3>1, <3>2, Zenon
  <2> QED BY <2>3, Zenon DEF r
<1>7. \A d \in Dcs : d \notin X \cup M => dcs'[d] = rs[d]
  BY <1>1, Zenon
<1>8. \A q \in queries' :
        \/ q \in queries /\ q.dc \notin X \cup M
        \/ q.dc \in X /\ q = Query(rs[q.dc], q.dc, "export", 0)
        \/ q.dc \in M /\ q = Query(rs[q.dc], q.dc, "import", rs[q.dc].exportId)
  BY <1>1, <1>2, SMTT(60) DEF Query
<1>9. /\ queries \subseteq queries'
      /\ \A d \in X \cup M : \E q \in queries' : q.dc = d
  <2>1. ASSUME NEW d \in X PROVE \E q \in queries' : q.dc = d
    <3>1. Query(rs[d], d, "export", 0) \in queries'
      BY <1>1, Zenon
    <3> QED BY <3>1, Zenon DEF Query
  <2>2. ASSUME NEW d \in M PROVE \E q \in queries' : q.dc = d
    <3>1. Query(rs[d], d, "import", rs[d].exportId) \in queries'
      BY <1>1, Zenon
    <3> QED BY <3>1, Zenon DEF Query
  <2> QED BY <1>1, <2>1, <2>2, Zenon
<1>10. \A d \in Dcs : exports'[d] = IF d \in X THEN exports[d] + 1 ELSE exports[d]
  BY <1>1, Zenon
<1>11. TypesOK(dcs', queries', ib, exports')
  <2>1. dcs' \in [Dcs -> {Absent} \cup DcInfo]
    BY <1>0, <1>1, <1>5, <1>6, <1>7, Zenon DEF TypesOK
  <2>2. queries' \subseteq QueryRecords
    <3>1. \A d \in X \cup M : rs[d].sent \in Nat /\ rs[d].exportId \in Nat /\ d \in Dcs
      BY <1>2, Zenon DEF DcInfo
    <3> QED BY <1>0, <1>1, <3>1, SMTT(60) DEF TypesOK, QueryRecords, Query
  <2>3. exports' \in [Dcs -> Nat]
    BY <1>0, <1>1, SMTT(60) DEF TypesOK
  <2> QED BY <1>0, <2>1, <2>2, <2>3, Zenon DEF TypesOK
<1>12. \A d \in Dcs : dcs'[d] = Absent <=> rs[d] = Absent
  BY <1>0, <1>2, <1>5, <1>6, <1>7, <1>11, InfoOfAdded, ZenonT(60) DEF TypesOK
<1>13. Known(dcs', ib, ls)
  BY <1>0, <1>12, Zenon DEF Known
<1>14. /\ \A q \in queries : q.dc \in Dcs
       /\ \A i \in ResultsAt(ib) : ib[i].dc \in Dcs /\ ib[i].dc \notin X \cup M
  <2>1. \A i \in 1..Len(ib) : ib[i] \in InboxMessages
    BY <1>0, SMTT(60) DEF TypesOK
  <2> QED BY <1>0, <1>2, <2>1, Zenon DEF TypesOK, QueryRecords, InboxMessages, ResultRecords, ResultsAt
<1>15. Single(dcs', queries', ib)
  <2>1. \A q \in queries' : Awaits(dcs'[q.dc], q.id, q.kind)
    <3> SUFFICES ASSUME NEW q \in queries' PROVE Awaits(dcs'[q.dc], q.id, q.kind)
      BY Zenon
    <3>1. CASE q \in queries /\ q.dc \notin X \cup M
      BY <1>0, <1>7, <1>14, <3>1, Zenon DEF Single
    <3>2. CASE q.dc \in X /\ q = Query(rs[q.dc], q.dc, "export", 0)
      <4>1. q.id = rs[q.dc].sent + 1 /\ q.kind = "export"
        BY <3>2, SMTT(60) DEF Query
      <4>2. dcs'[q.dc] # Absent
        BY <1>2, <1>5, <1>11, <3>2, InfoOfAdded, Zenon DEF TypesOK
      <4> QED BY <1>5, <3>2, <4>1, <4>2, Zenon DEF Awaits
    <3>3. CASE q.dc \in M /\ q = Query(rs[q.dc], q.dc, "import", rs[q.dc].exportId)
      <4>1. q.id = rs[q.dc].sent + 1 /\ q.kind = "import"
        BY <3>3, SMTT(60) DEF Query
      <4>2. dcs'[q.dc] # Absent
        BY <1>2, <1>6, <1>11, <3>3, InfoOfAdded, Zenon DEF TypesOK
      <4> QED BY <1>6, <3>3, <4>1, <4>2, Zenon DEF Awaits
    <3> QED BY <1>8, <3>1, <3>2, <3>3, Zenon
  <2>2. \A i \in ResultsAt(ib) : Awaits(dcs'[ib[i].dc], ib[i].id, ib[i].kind)
    BY <1>0, <1>7, <1>14, Zenon DEF Single
  <2>3. \A q, p \in queries' : q.dc = p.dc => q = p
    BY <1>0, <1>4, <1>8, SMTT(60) DEF Single
  <2>4. \A q \in queries', i \in ResultsAt(ib) : q.dc # ib[i].dc
    BY <1>0, <1>8, <1>14, Zenon DEF Single
  <2>5. \A d \in Dcs : dcs'[d] # Absent /\ dcs'[d].wait # 0 =>
          (\E q \in queries' : q.dc = d) \/ (\E i \in ResultsAt(ib) : ib[i].dc = d)
    BY <1>0, <1>7, <1>9, Zenon DEF Single
  <2>6. \A d \in Dcs :
          dcs'[d] # Absent /\ dcs'[d].state = "Import" /\ dcs'[d].exportId # 0 => dcs'[d].wait = 0
    BY <1>0, <1>5, <1>6, <1>7, ZenonT(60) DEF Single
  <2>7. \A i, j \in ResultsAt(ib) : ib[i].dc = ib[j].dc => i = j
    BY <1>0, Zenon DEF Single
  <2> QED BY <2>1, <2>2, <2>3, <2>4, <2>5, <2>6, <2>7, Zenon DEF Single
<1>16. CausedStates(dcs', exports')
  <2> SUFFICES ASSUME NEW d \in Dcs
               PROVE  /\ exports'[d] <= 1 + causes[d]
                      /\ dcs'[d] = Absent => exports'[d] = 0
                      /\ dcs'[d] # Absent /\ dcs'[d].state \in {"Waiting", "Export"} =>
                           Spent(exports', d)
                      /\ dcs'[d] # Absent /\ dcs'[d].state = "Ok"
                           /\ (dcs'[d].auth # "OK" \/ key[d] # "OK") => Spent(exports', d)
    BY Zenon DEF CausedStates
  <2>1. CASE d \in X
    <3>1. exports[d] \in Nat /\ causes[d] \in Nat /\ exports[d] <= causes[d]
      BY <1>0, <1>3, <2>1, Zenon DEF TypesOK, KeysTypeOK, Spent
    <3>2. dcs'[d] # Absent /\ dcs'[d].state = "Import"
      BY <1>5, <1>11, <2>1, InfoOfAdded, Zenon DEF TypesOK
    <3> QED BY <1>10, <2>1, <3>1, <3>2, SMTT(60)
  <2>2. CASE d \in M
    <3>1. dcs'[d] # Absent /\ dcs'[d].state = "BeforeOk"
      BY <1>6, <1>11, <2>2, InfoOfAdded, Zenon DEF TypesOK
    <3>2. exports'[d] = exports[d]
      BY <1>4, <1>10, <2>2, Zenon
    <3> QED BY <1>0, <3>1, <3>2, Zenon DEF CausedStates
  <2>3. CASE d \notin X \cup M
    BY <1>0, <1>7, <1>10, <2>3, Zenon DEF CausedStates, Spent
  <2> QED BY <2>1, <2>2, <2>3, Zenon
<1>17. CausedQueries(dcs', queries', ib, exports')
  <2> SUFFICES ASSUME NEW q \in queries', q.stage # "sent"
               PROVE  /\ q.kind = "import"
                      /\ Spent(exports', q.dc) \/ key[q.dc] = "OK"
                      /\ q.stage = "notified" =>
                           Spent(exports', q.dc) \/ Told(dcs', ib, q.dc, Len(ib) + 1)
    BY Zenon DEF CausedQueries
  <2>1. q \in queries /\ q.dc \notin X \cup M
    BY <1>8, SMTT(60) DEF Query
  <2>2. dcs'[q.dc] = rs[q.dc] /\ exports'[q.dc] = exports[q.dc]
    BY <1>7, <1>10, <1>14, <2>1, Zenon
  <2> QED BY <1>0, <2>1, <2>2, Zenon DEF CausedQueries, Spent, Told
<1>18. CausedResults(dcs', ib, exports')
  <2> SUFFICES ASSUME NEW i \in ResultsAt(ib)
               PROVE  \/ Spent(exports', ib[i].dc)
                      \/ /\ ib[i].ok
                         /\ ib[i].kind = "import" => key[ib[i].dc] = "OK" /\ Told(dcs', ib, ib[i].dc, i)
    BY Zenon DEF CausedResults
  <2>1. dcs'[ib[i].dc] = rs[ib[i].dc] /\ exports'[ib[i].dc] = exports[ib[i].dc]
    BY <1>7, <1>10, <1>14, Zenon
  <2> QED BY <1>0, <2>1, Zenon DEF CausedResults, Spent, Told
<1> QED BY <1>11, <1>13, <1>15, <1>16, <1>17, <1>18, Zenon DEF Parts

----------------------------------------------------------------------------
(* The inbox. *)

\* What is left of the inbox without its first message.
LEMMA TailAt ==
  ASSUME NEW ib \in Seq(InboxMessages), ib # <<>>
  PROVE  /\ Tail(ib) \in Seq(InboxMessages) /\ Len(Tail(ib)) \in Nat
         /\ Len(ib) = Len(Tail(ib)) + 1
         /\ Head(ib) = ib[1] /\ Head(ib) \in InboxMessages /\ 1 \in 1..Len(ib)
         /\ \A i \in 1..Len(Tail(ib)) : i + 1 \in 1..Len(ib) /\ Tail(ib)[i] = ib[i + 1]
         /\ \A i \in ResultsAt(Tail(ib)) : i + 1 \in ResultsAt(ib) /\ Tail(ib)[i] = ib[i + 1]
         /\ \A i \in ResultsAt(ib) : i # 1 => i - 1 \in ResultsAt(Tail(ib)) /\ Tail(ib)[i - 1] = ib[i]
         /\ \A d \in Dcs : \A i \in UpdatesAt(Tail(ib), d) : i + 1 \in UpdatesAt(ib, d)
         /\ \A d \in Dcs : \A i \in UpdatesAt(ib, d) : i # 1 => i - 1 \in UpdatesAt(Tail(ib), d)
<1>1. /\ Tail(ib) \in Seq(InboxMessages) /\ Len(ib) \in Nat /\ Len(ib) > 0
      /\ Len(Tail(ib)) = Len(ib) - 1
      /\ \A i \in 1..Len(ib) : ib[i] \in InboxMessages
      /\ Head(ib) = ib[1]
  BY SMTT(60)
<1>2. \A i \in 1..Len(Tail(ib)) : i + 1 \in 1..Len(ib) /\ Tail(ib)[i] = ib[i + 1]
  BY SMTT(60)
<1>3. \A i \in 1..Len(ib) : i # 1 => i - 1 \in 1..Len(Tail(ib)) /\ Tail(ib)[i - 1] = ib[i]
  BY <1>1, <1>2, SMTT(60)
<1>4. \A i \in ResultsAt(Tail(ib)) : i + 1 \in ResultsAt(ib) /\ Tail(ib)[i] = ib[i + 1]
  BY <1>2, Zenon DEF ResultsAt
<1>5. \A i \in ResultsAt(ib) : i # 1 => i - 1 \in ResultsAt(Tail(ib)) /\ Tail(ib)[i - 1] = ib[i]
  BY <1>3, Zenon DEF ResultsAt
<1>6. \A d \in Dcs : \A i \in UpdatesAt(Tail(ib), d) : i + 1 \in UpdatesAt(ib, d)
  BY <1>2, Zenon DEF UpdatesAt
<1>7. \A d \in Dcs : \A i \in UpdatesAt(ib, d) : i # 1 => i - 1 \in UpdatesAt(Tail(ib), d)
  BY <1>3, Zenon DEF UpdatesAt
<1>8. 1 \in 1..Len(ib) /\ ib[1] \in InboxMessages
  BY <1>1, SMTT(60)
<1>9. Len(Tail(ib)) \in Nat /\ Len(ib) = Len(Tail(ib)) + 1
  BY <1>1, SMTT(60)
<1> QED BY <1>1, <1>2, <1>4, <1>5, <1>6, <1>7, <1>8, <1>9, Zenon

\* The inbox after a message has come.
LEMMA AppendAt ==
  ASSUME NEW ib \in Seq(InboxMessages), NEW m \in InboxMessages
  PROVE  /\ Append(ib, m) \in Seq(InboxMessages) /\ Len(ib) \in Nat
         /\ Len(Append(ib, m)) = Len(ib) + 1
         /\ Append(ib, m)[Len(ib) + 1] = m
         /\ \A i \in 1..Len(ib) : Append(ib, m)[i] = ib[i]
         /\ \A i \in ResultsAt(ib) : i \in 1..Len(ib) /\ Append(ib, m)[i] = ib[i]
         /\ ResultsAt(Append(ib, m)) =
              ResultsAt(ib) \cup {i \in {Len(ib) + 1} : m.type = "result"}
         /\ \A d \in Dcs : UpdatesAt(Append(ib, m), d) =
              UpdatesAt(ib, d) \cup {i \in {Len(ib) + 1} : m.type = "update" /\ m.dc = d}
         /\ \A d \in Dcs : UpdatesAt(ib, d) \subseteq 1..Len(ib)
<1>1. /\ Append(ib, m) \in Seq(InboxMessages) /\ Len(ib) \in Nat
      /\ Len(Append(ib, m)) = Len(ib) + 1
      /\ Append(ib, m)[Len(ib) + 1] = m
      /\ \A i \in 1..Len(ib) : Append(ib, m)[i] = ib[i]
  BY SMTT(60)
<1>2. 1..(Len(ib) + 1) = 1..Len(ib) \cup {Len(ib) + 1}
  BY <1>1, SMTT(60)
<1>3. ResultsAt(Append(ib, m)) = ResultsAt(ib) \cup {i \in {Len(ib) + 1} : m.type = "result"}
  BY <1>1, <1>2, Zenon DEF ResultsAt
<1>4. \A d \in Dcs : UpdatesAt(Append(ib, m), d) =
        UpdatesAt(ib, d) \cup {i \in {Len(ib) + 1} : m.type = "update" /\ m.dc = d}
  BY <1>1, <1>2, Zenon DEF UpdatesAt
<1>5. /\ \A i \in ResultsAt(ib) : i \in 1..Len(ib)
      /\ \A d \in Dcs : UpdatesAt(ib, d) \subseteq 1..Len(ib)
  BY Zenon DEF ResultsAt, UpdatesAt
<1> QED BY <1>1, <1>3, <1>4, <1>5, Zenon

\* A message that is not an answer leaves the invariant, if an update is about a
\* data center that was added.
LEMMA NewsArrive ==
  ASSUME NEW rs, NEW qs, NEW ib, NEW ex, NEW ls, Parts(rs, qs, ib, ex, ls),
         NEW m \in [type : {"update", "main"}, dc : Dcs],
         m.type = "update" => rs[m.dc] # Absent
  PROVE  Parts(rs, qs, Append(ib, m), ex, ls)
<1> DEFINE jb == Append(ib, m)
<1>0. /\ TypesOK(rs, qs, ib, ex) /\ Known(rs, ib, ls) /\ Single(rs, qs, ib)
      /\ CausedStates(rs, ex) /\ CausedQueries(rs, qs, ib, ex) /\ CausedResults(rs, ib, ex)
  BY Zenon DEF Parts
<1>1. m \in InboxMessages /\ m.type # "result" /\ ib \in Seq(InboxMessages)
  BY <1>0, Zenon DEF InboxMessages, TypesOK
<1>2. /\ jb \in Seq(InboxMessages) /\ Len(ib) \in Nat /\ Len(jb) = Len(ib) + 1
      /\ ResultsAt(jb) = ResultsAt(ib)
      /\ \A i \in ResultsAt(ib) : i \in 1..Len(ib) /\ jb[i] = ib[i]
      /\ \A d \in Dcs : UpdatesAt(ib, d) \subseteq UpdatesAt(jb, d)
      /\ \A d \in Dcs :
           UpdatesAt(jb, d) # {} => UpdatesAt(ib, d) # {} \/ (m.type = "update" /\ m.dc = d)
      /\ \A d \in Dcs : UpdatesAt(ib, d) \subseteq 1..Len(ib)
  <2>1. /\ jb \in Seq(InboxMessages) /\ Len(ib) \in Nat /\ Len(jb) = Len(ib) + 1
        /\ \A i \in ResultsAt(ib) : i \in 1..Len(ib) /\ jb[i] = ib[i]
        /\ \A d \in Dcs : UpdatesAt(ib, d) \subseteq 1..Len(ib)
    BY <1>1, AppendAt, ZenonT(60)
  <2>2. ResultsAt(jb) = ResultsAt(ib) \cup {i \in {Len(ib) + 1} : m.type = "result"}
    BY <1>1, AppendAt, SMTT(60)
  <2>3. \A d \in Dcs : UpdatesAt(jb, d) =
          UpdatesAt(ib, d) \cup {i \in {Len(ib) + 1} : m.type = "update" /\ m.dc = d}
    BY <1>1, AppendAt, ZenonT(60)
  <2> HIDE DEF jb
  <2>4. ResultsAt(jb) = ResultsAt(ib)
    BY <1>1, <2>2, Zenon
  <2>5. \A d \in Dcs : UpdatesAt(ib, d) \subseteq UpdatesAt(jb, d)
    BY <2>3, Zenon
  <2>6. \A d \in Dcs :
          UpdatesAt(jb, d) # {} => UpdatesAt(ib, d) # {} \/ (m.type = "update" /\ m.dc = d)
    BY <2>3, Zenon
  <2> QED BY <2>1, <2>4, <2>5, <2>6, Zenon
<1> HIDE DEF jb
<1>3. TypesOK(rs, qs, jb, ex) /\ Known(rs, jb, ls)
  BY <1>0, <1>2, Zenon DEF TypesOK, Known
<1>4. Single(rs, qs, jb)
  BY <1>0, <1>2, SMTT(60) DEF Single
<1>5. \A d \in Dcs : \A n : Told(rs, ib, d, n) => Told(rs, jb, d, n)
  BY <1>2, Zenon DEF Told
<1>6. \A d \in Dcs : Told(rs, ib, d, Len(ib) + 1) => Told(rs, jb, d, Len(jb) + 1)
  BY <1>2, SMTT(60) DEF Told
<1>7. /\ \A q \in qs : q.dc \in Dcs
      /\ \A i \in ResultsAt(ib) : ib[i].dc \in Dcs
  BY <1>0, SMTT(60) DEF TypesOK, QueryRecords, InboxMessages, ResultRecords, ResultsAt
<1>8. CausedQueries(rs, qs, jb, ex)
  BY <1>0, <1>6, <1>7, Zenon DEF CausedQueries
<1>9. CausedResults(rs, jb, ex)
  BY <1>0, <1>2, <1>5, <1>7, Zenon DEF CausedResults
<1> QED BY <1>0, <1>3, <1>4, <1>8, <1>9, Zenon DEF Parts, jb

\* update_main_dc leaves the invariant when its message is gone.
LEMMA MainHandled ==
  ASSUME NEW rs, NEW qs, NEW ib, NEW ex, NEW ls, Parts(rs, qs, ib, ex, ls),
         ib # <<>>, Head(ib).type = "main"
  PROVE  Parts(rs, qs, Tail(ib), ex, ls) /\ Head(ib).dc \in Dcs
<1> DEFINE jb == Tail(ib)
<1>0. /\ TypesOK(rs, qs, ib, ex) /\ Known(rs, ib, ls) /\ Single(rs, qs, ib)
      /\ CausedStates(rs, ex) /\ CausedQueries(rs, qs, ib, ex) /\ CausedResults(rs, ib, ex)
      /\ ib \in Seq(InboxMessages)
  BY Zenon DEF Parts, TypesOK
<1>1. /\ jb \in Seq(InboxMessages) /\ Head(ib) = ib[1] /\ Head(ib) \in InboxMessages
      /\ Len(jb) \in Nat /\ Len(ib) = Len(jb) + 1
      /\ \A i \in ResultsAt(jb) : i + 1 \in ResultsAt(ib) /\ jb[i] = ib[i + 1]
      /\ \A d \in Dcs : \A i \in UpdatesAt(jb, d) : i + 1 \in UpdatesAt(ib, d)
  BY <1>0, TailAt, Zenon
<1>2. \A i \in ResultsAt(ib) : i # 1 /\ i - 1 \in ResultsAt(jb) /\ jb[i - 1] = ib[i]
  <2>1. 1 \notin ResultsAt(ib)
    BY <1>1, Zenon DEF ResultsAt
  <2> QED BY <1>0, <2>1, TailAt, Zenon
<1>3. \A d \in Dcs : \A i \in UpdatesAt(ib, d) : i # 1 /\ i - 1 \in UpdatesAt(jb, d)
  <2>1. \A d \in Dcs : 1 \notin UpdatesAt(ib, d)
    BY <1>1, Zenon DEF UpdatesAt
  <2> QED BY <1>0, <2>1, TailAt, Zenon
<1> HIDE DEF jb
<1>4. /\ \A i \in ResultsAt(ib) : i \in Nat
      /\ \A i \in ResultsAt(jb) : i \in Nat
      /\ \A d \in Dcs : \A i \in UpdatesAt(ib, d) : i \in Nat
  BY SMTT(60) DEF ResultsAt, UpdatesAt
<1>5. TypesOK(rs, qs, jb, ex) /\ Known(rs, jb, ls)
  BY <1>0, <1>1, Zenon DEF TypesOK, Known
<1>6. Single(rs, qs, jb)
  <2>1. \A i \in ResultsAt(jb) : Awaits(rs[jb[i].dc], jb[i].id, jb[i].kind)
    BY <1>0, <1>1, <1>4, ZenonT(60) DEF Single
  <2>2. ASSUME NEW i \in ResultsAt(jb), NEW j \in ResultsAt(jb), jb[i].dc = jb[j].dc
        PROVE  i = j
    <3>1. i + 1 = j + 1
      BY <1>0, <1>1, <2>2, SMTT(60) DEF Single
    <3> QED BY <1>4, <3>1, SMTT(60)
  <2>3. \A q \in qs, i \in ResultsAt(jb) : q.dc # jb[i].dc
    BY <1>0, <1>1, <1>4, SMTT(60) DEF Single
  <2>4. \A d \in Dcs : rs[d] # Absent /\ rs[d].wait # 0 =>
          (\E q \in qs : q.dc = d) \/ (\E i \in ResultsAt(jb) : jb[i].dc = d)
    BY <1>0, <1>2, SMTT(60) DEF Single
  <2> QED BY <1>0, <2>1, <2>2, <2>3, <2>4, Zenon DEF Single
<1>7. \A d \in Dcs : \A n \in Nat : Told(rs, ib, d, n + 1) => Told(rs, jb, d, n)
  BY <1>3, <1>4, SMTT(60) DEF Told
<1>8. /\ \A q \in qs : q.dc \in Dcs
      /\ \A i \in ResultsAt(ib) : ib[i].dc \in Dcs
  BY <1>0, SMTT(60) DEF TypesOK, QueryRecords, InboxMessages, ResultRecords, ResultsAt
<1>9. CausedQueries(rs, qs, jb, ex)
  <2>1. Len(jb) + 1 \in Nat /\ Len(ib) + 1 = (Len(jb) + 1) + 1
    BY <1>1, SMTT(60)
  <2> QED BY <1>0, <1>7, <1>8, <2>1, Zenon DEF CausedQueries
<1>10. CausedResults(rs, jb, ex)
  BY <1>0, <1>1, <1>4, <1>7, <1>8, ZenonT(60) DEF CausedResults
<1>11. Head(ib).dc \in Dcs
  BY <1>1, Zenon DEF InboxMessages, ResultRecords
<1> QED BY <1>0, <1>5, <1>6, <1>9, <1>10, <1>11, Zenon DEF Parts, jb

\* update_auth_key_state reads the key and leaves the invariant.
LEMMA UpdateHandled ==
  ASSUME NEW rs, NEW qs, NEW ib, NEW ex, NEW ls, Parts(rs, qs, ib, ex, ls), KeysTypeOK,
         ib # <<>>, Head(ib).type = "update"
  PROVE  Parts([rs EXCEPT ![Head(ib).dc].auth = key[Head(ib).dc]], qs, Tail(ib), ex, ls)
<1> DEFINE jb == Tail(ib)
           c == Head(ib).dc
           ss == [rs EXCEPT ![c].auth = key[c]]
<1>0. /\ TypesOK(rs, qs, ib, ex) /\ Known(rs, ib, ls) /\ Single(rs, qs, ib)
      /\ CausedStates(rs, ex) /\ CausedQueries(rs, qs, ib, ex) /\ CausedResults(rs, ib, ex)
      /\ ib \in Seq(InboxMessages)
  BY Zenon DEF Parts, TypesOK
<1>1. /\ jb \in Seq(InboxMessages) /\ Head(ib) = ib[1] /\ Head(ib) \in InboxMessages
      /\ Len(jb) \in Nat /\ Len(ib) = Len(jb) + 1 /\ 1 \in 1..Len(ib)
      /\ \A i \in ResultsAt(jb) : i + 1 \in ResultsAt(ib) /\ jb[i] = ib[i + 1]
      /\ \A d \in Dcs : \A i \in UpdatesAt(jb, d) : i + 1 \in UpdatesAt(ib, d)
  BY <1>0, TailAt, Zenon
<1>2. \A i \in ResultsAt(ib) : i # 1 /\ i - 1 \in ResultsAt(jb) /\ jb[i - 1] = ib[i]
  <2>1. 1 \notin ResultsAt(ib)
    BY <1>1, Zenon DEF ResultsAt
  <2> QED BY <1>0, <2>1, TailAt, Zenon
<1>3. c \in Dcs /\ 1 \in UpdatesAt(ib, c)
  BY <1>1, Zenon DEF InboxMessages, ResultRecords, UpdatesAt
<1>4. \A d \in Dcs : d # c => \A i \in UpdatesAt(ib, d) : i # 1 /\ i - 1 \in UpdatesAt(jb, d)
  <2>1. \A d \in Dcs : d # c => 1 \notin UpdatesAt(ib, d)
    BY <1>1, Zenon DEF UpdatesAt
  <2> QED BY <1>0, <2>1, TailAt, ZenonT(60)
<1> HIDE DEF jb, c
<1>5. rs[c] # Absent /\ rs[c] \in DcInfo
  BY <1>0, <1>3, InfoOfAdded, Zenon DEF Known, TypesOK
<1>6. /\ ss \in [Dcs -> {Absent} \cup DcInfo]
      /\ \A d \in Dcs : d # c => ss[d] = rs[d]
      /\ ss[c] = [rs[c] EXCEPT !.auth = key[c]]
  BY <1>0, <1>3, <1>5, Zenon DEF TypesOK, KeysTypeOK, DcInfo
<1> HIDE DEF ss
<1>7. /\ ss[c] \in DcInfo /\ ss[c].auth = key[c] /\ ss[c].state = rs[c].state
      /\ ss[c].wait = rs[c].wait /\ ss[c].exportId = rs[c].exportId
  BY <1>3, <1>5, <1>6, ZenonT(60) DEF KeysTypeOK, DcInfo
<1>8. \A d \in Dcs : ss[d] = Absent <=> rs[d] = Absent
  BY <1>3, <1>5, <1>6, <1>7, InfoOfAdded, Zenon
<1>9. /\ \A i \in ResultsAt(ib) : i \in Nat
      /\ \A i \in ResultsAt(jb) : i \in Nat
      /\ \A d \in Dcs : \A i \in UpdatesAt(ib, d) : i \in Nat
  BY SMTT(60) DEF ResultsAt, UpdatesAt
<1>10. TypesOK(ss, qs, jb, ex) /\ Known(ss, jb, ls)
  BY <1>0, <1>1, <1>6, <1>8, Zenon DEF TypesOK, Known
<1>11. /\ \A q \in qs : q.dc \in Dcs
       /\ \A i \in ResultsAt(ib) : ib[i].dc \in Dcs
  BY <1>0, SMTT(60) DEF TypesOK, QueryRecords, InboxMessages, ResultRecords, ResultsAt
<1>12. \A d \in Dcs : /\ ss[d].wait = rs[d].wait /\ ss[d].state = rs[d].state
                      /\ ss[d].exportId = rs[d].exportId
  BY <1>6, <1>7, Zenon
<1>13. \A d \in Dcs : \A n, k : Awaits(rs[d], n, k) => Awaits(ss[d], n, k)
  BY <1>8, <1>12, Zenon DEF Awaits
<1>14. Single(ss, qs, jb)
  <2>1. /\ \A q \in qs : Awaits(ss[q.dc], q.id, q.kind)
        /\ \A i \in ResultsAt(jb) : Awaits(ss[jb[i].dc], jb[i].id, jb[i].kind)
    BY <1>0, <1>1, <1>9, <1>11, <1>13, ZenonT(60) DEF Single
  <2>2. /\ \A i, j \in ResultsAt(jb) : jb[i].dc = jb[j].dc => i = j
        /\ \A q \in qs, i \in ResultsAt(jb) : q.dc # jb[i].dc
    BY <1>0, <1>1, <1>9, SMTT(60) DEF Single
  <2>3. \A d \in Dcs : ss[d] # Absent /\ ss[d].wait # 0 =>
          (\E q \in qs : q.dc = d) \/ (\E i \in ResultsAt(jb) : jb[i].dc = d)
    BY <1>0, <1>2, <1>8, <1>12, SMTT(60) DEF Single
  <2> QED BY <1>0, <1>8, <1>12, <2>1, <2>2, <2>3, ZenonT(60) DEF Single
<1>15. CausedStates(ss, ex)
  <2> SUFFICES ASSUME NEW d \in Dcs
               PROVE  /\ ex[d] <= 1 + causes[d]
                      /\ ss[d] = Absent => ex[d] = 0
                      /\ ss[d] # Absent /\ ss[d].state \in {"Waiting", "Export"} => Spent(ex, d)
                      /\ ss[d] # Absent /\ ss[d].state = "Ok"
                           /\ (ss[d].auth # "OK" \/ key[d] # "OK") => Spent(ex, d)
    BY Zenon DEF CausedStates
  <2>1. CASE d = c
    BY <1>0, <1>7, <1>8, <2>1, Zenon DEF CausedStates
  <2>2. CASE d # c
    BY <1>0, <1>6, <2>2, Zenon DEF CausedStates
  <2> QED BY <2>1, <2>2, Zenon
<1>16. \A d \in Dcs : d # c => \A n \in Nat : Told(rs, ib, d, n + 1) => Told(ss, jb, d, n)
  BY <1>4, <1>6, <1>9, SMTT(60) DEF Told
<1>17. key[c] = "OK" => \A n : Told(ss, jb, c, n)
  BY <1>7, Zenon DEF Told
<1>18. CausedQueries(ss, qs, jb, ex)
  <2>1. Len(jb) + 1 \in Nat /\ Len(ib) + 1 = (Len(jb) + 1) + 1
    BY <1>1, SMTT(60)
  <2> QED BY <1>0, <1>11, <1>16, <1>17, <2>1, Zenon DEF CausedQueries
<1>19. CausedResults(ss, jb, ex)
  BY <1>0, <1>1, <1>9, <1>11, <1>16, <1>17, ZenonT(60) DEF CausedResults
<1> QED BY <1>10, <1>14, <1>15, <1>18, <1>19, Zenon DEF Parts, jb, ss, c

\* What on_result makes of a DcInfo that waits for an answer.
LEMMA AnsweredInfo ==
  ASSUME NEW r \in DcInfo, r.state \in {"Import", "BeforeOk"}, NEW m, m.ok \in BOOLEAN, m.id \in Nat
  PROVE  /\ Answered(r, m) \in DcInfo /\ Answered(r, m).wait = 0 /\ Answered(r, m).auth = r.auth
         /\ ~m.ok => Answered(r, m).state = "Export"
         /\ m.ok => Answered(r, m).state = IF r.state = "Import" THEN "Import" ELSE "Ok"
<1> DEFINE a == [r EXCEPT !.wait = 0]
<1>0. a \in DcInfo /\ a.wait = 0 /\ a.auth = r.auth /\ a.state = r.state
  BY Zenon DEF DcInfo
<1>1. CASE r.state = "Import" /\ m.ok
  <2>1. Answered(r, m) = [a EXCEPT !.exportId = m.id]
    BY <1>1, Zenon DEF Answered
  <2> HIDE DEF a
  <2>2. [a EXCEPT !.exportId = m.id] \in DcInfo
    BY <1>0, Zenon DEF DcInfo
  <2>3. [a EXCEPT !.exportId = m.id].wait = 0 /\ [a EXCEPT !.exportId = m.id].auth = r.auth
    BY <1>0, Zenon DEF DcInfo
  <2>4. [a EXCEPT !.exportId = m.id].state = "Import"
    BY <1>0, <1>1, Zenon DEF DcInfo
  <2> QED BY <1>1, <2>1, <2>2, <2>3, <2>4, Zenon
<1>2. CASE ~m.ok
  <2>1. Answered(r, m) = [a EXCEPT !.state = "Export"]
    <3>1. CASE r.state = "Import"
      BY <1>2, <3>1, Zenon DEF Answered
    <3>2. CASE r.state = "BeforeOk"
      <4>1. Answered(r, m) = [[r EXCEPT !.state = "Export"] EXCEPT !.wait = 0]
        BY <1>2, <3>2, Zenon DEF Answered, AfterImportError
      <4> QED BY <4>1, ZenonT(60) DEF DcInfo
    <3> QED BY <3>1, <3>2, Zenon
  <2> HIDE DEF a
  <2>2. [a EXCEPT !.state = "Export"] \in DcInfo
    BY <1>0, Zenon DEF DcInfo
  <2>3. [a EXCEPT !.state = "Export"].wait = 0 /\ [a EXCEPT !.state = "Export"].auth = r.auth
    BY <1>0, Zenon DEF DcInfo
  <2>4. [a EXCEPT !.state = "Export"].state = "Export"
    BY <1>0, Zenon DEF DcInfo
  <2> QED BY <1>2, <2>1, <2>2, <2>3, <2>4, Zenon
<1>3. CASE r.state = "BeforeOk" /\ m.ok
  <2>1. Answered(r, m) = [a EXCEPT !.state = "Ok"]
    BY <1>3, Zenon DEF Answered
  <2> HIDE DEF a
  <2>2. [a EXCEPT !.state = "Ok"] \in DcInfo
    BY <1>0, Zenon DEF DcInfo
  <2>3. [a EXCEPT !.state = "Ok"].wait = 0 /\ [a EXCEPT !.state = "Ok"].auth = r.auth
    BY <1>0, Zenon DEF DcInfo
  <2>4. [a EXCEPT !.state = "Ok"].state = "Ok"
    BY <1>0, Zenon DEF DcInfo
  <2> QED BY <1>3, <2>1, <2>2, <2>3, <2>4, Zenon
<1> QED BY <1>1, <1>2, <1>3, Zenon

\* on_result finds the query it waits for, and leaves the invariant.
LEMMA ResultHandled ==
  ASSUME NEW rs, NEW qs, NEW ib, NEW ex, NEW ls, Parts(rs, qs, ib, ex, ls),
         ib # <<>>, Head(ib).type = "result"
  PROVE  Parts([rs EXCEPT ![Head(ib).dc] = Answered(@, Head(ib))], qs, Tail(ib), ex, ls)
<1> DEFINE jb == Tail(ib)
           m == Head(ib)
           c == m.dc
           ss == [rs EXCEPT ![c] = Answered(@, m)]
<1>0. /\ TypesOK(rs, qs, ib, ex) /\ Known(rs, ib, ls) /\ Single(rs, qs, ib)
      /\ CausedStates(rs, ex) /\ CausedQueries(rs, qs, ib, ex) /\ CausedResults(rs, ib, ex)
      /\ ib \in Seq(InboxMessages)
  BY Zenon DEF Parts, TypesOK
<1>1. /\ jb \in Seq(InboxMessages) /\ m = ib[1] /\ m \in InboxMessages
      /\ Len(jb) \in Nat /\ Len(ib) = Len(jb) + 1 /\ 1 \in 1..Len(ib)
      /\ \A i \in ResultsAt(jb) : i + 1 \in ResultsAt(ib) /\ jb[i] = ib[i + 1]
      /\ \A d \in Dcs : \A i \in UpdatesAt(jb, d) : i + 1 \in UpdatesAt(ib, d)
  BY <1>0, TailAt, Zenon
<1>2. \A i \in ResultsAt(ib) : i # 1 => i - 1 \in ResultsAt(jb) /\ jb[i - 1] = ib[i]
  BY <1>0, TailAt, ZenonT(60)
<1>3. \A d \in Dcs : \A i \in UpdatesAt(ib, d) : i # 1 /\ i - 1 \in UpdatesAt(jb, d)
  <2>1. \A d \in Dcs : 1 \notin UpdatesAt(ib, d)
    BY <1>1, Zenon DEF UpdatesAt
  <2> QED BY <1>0, <2>1, TailAt, Zenon
<1>4. m.type = "result" /\ 1 \in ResultsAt(ib) /\ c = m.dc
  BY <1>1, Zenon DEF ResultsAt
<1> HIDE DEF jb, m, c
<1>5. c \in Dcs /\ m.ok \in BOOLEAN /\ m.id \in Nat /\ m.kind \in {"export", "import"}
  BY <1>1, <1>4, Zenon DEF InboxMessages, ResultRecords
<1>6. /\ \A i \in ResultsAt(ib) : i \in Nat /\ i >= 1
      /\ \A i \in ResultsAt(jb) : i \in Nat /\ i >= 1
      /\ \A d \in Dcs : \A i \in UpdatesAt(ib, d) : i \in Nat /\ i >= 1
  BY SMTT(60) DEF ResultsAt, UpdatesAt
<1>7. /\ \A q \in qs : q.dc \in Dcs /\ q.dc # c
      /\ \A i \in ResultsAt(ib) : ib[i].dc \in Dcs
      /\ \A i \in ResultsAt(ib) : i # 1 => ib[i].dc # c
  <2>1. /\ \A q \in qs : q.dc \in Dcs
        /\ \A i \in ResultsAt(ib) : ib[i].dc \in Dcs
    BY <1>0, SMTT(60) DEF TypesOK, QueryRecords, InboxMessages, ResultRecords, ResultsAt
  <2> QED BY <1>0, <1>1, <1>4, <2>1, SMTT(60) DEF Single
<1>8. /\ rs[c] # Absent /\ rs[c] \in DcInfo
      /\ rs[c].state = IF m.kind = "export" THEN "Import" ELSE "BeforeOk"
  <2>1. Awaits(rs[c], m.id, m.kind)
    BY <1>0, <1>1, <1>4, Zenon DEF Single
  <2> QED BY <1>0, <1>5, <2>1, InfoOfAdded, Zenon DEF Awaits, TypesOK
<1>9. ss[c] = Answered(rs[c], m) /\ \A d \in Dcs : d # c => ss[d] = rs[d]
  BY <1>0, <1>5, Zenon DEF TypesOK
<1>10. /\ ss[c] \in DcInfo /\ ss[c].wait = 0 /\ ss[c].auth = rs[c].auth
       /\ ~m.ok => ss[c].state = "Export"
       /\ m.ok => ss[c].state = IF m.kind = "export" THEN "Import" ELSE "Ok"
  <2> DEFINE r == rs[c]
  <2>1. r \in DcInfo /\ r.state = IF m.kind = "export" THEN "Import" ELSE "BeforeOk"
    BY <1>8, Zenon
  <2> HIDE DEF r
  <2>2. /\ Answered(r, m) \in DcInfo /\ Answered(r, m).wait = 0 /\ Answered(r, m).auth = r.auth
        /\ ~m.ok => Answered(r, m).state = "Export"
        /\ m.ok => Answered(r, m).state = IF r.state = "Import" THEN "Import" ELSE "Ok"
    BY <1>5, <2>1, AnsweredInfo, SMTT(60)
  <2>3. r.state = "Import" <=> m.kind = "export"
    BY <2>1, Zenon
  <2> QED BY <1>9, <2>2, <2>3, Zenon DEF r
<1>11. ss \in [Dcs -> {Absent} \cup DcInfo]
  BY <1>0, <1>9, <1>10, ZenonT(60) DEF TypesOK
<1> HIDE DEF ss
<1>12. \A d \in Dcs : ss[d] = Absent <=> rs[d] = Absent
  BY <1>5, <1>8, <1>9, <1>10, <1>11, InfoOfAdded, Zenon
<1>13. TypesOK(ss, qs, jb, ex) /\ Known(ss, jb, ls)
  BY <1>0, <1>1, <1>11, <1>12, Zenon DEF TypesOK, Known
<1>14. \A i \in ResultsAt(jb) :
         i + 1 \in ResultsAt(ib) /\ i + 1 # 1 /\ jb[i] = ib[i + 1] /\ jb[i].dc \in Dcs /\ jb[i].dc # c
  BY <1>1, <1>6, <1>7, SMTT(60)
<1>15. Single(ss, qs, jb)
  <2>1. /\ \A q \in qs : Awaits(ss[q.dc], q.id, q.kind)
        /\ \A i \in ResultsAt(jb) : Awaits(ss[jb[i].dc], jb[i].id, jb[i].kind)
    BY <1>0, <1>7, <1>9, <1>14, SMTT(60) DEF Single
  <2>2. ASSUME NEW i \in ResultsAt(jb), NEW j \in ResultsAt(jb), jb[i].dc = jb[j].dc
        PROVE  i = j
    <3>1. i + 1 = j + 1
      BY <1>0, <1>14, <2>2, SMTT(60) DEF Single
    <3> QED BY <1>6, <3>1, SMTT(60)
  <2>3. \A q \in qs, i \in ResultsAt(jb) : q.dc # jb[i].dc
    BY <1>0, <1>14, SMTT(60) DEF Single
  <2>4. \A d \in Dcs : ss[d] # Absent /\ ss[d].wait # 0 =>
          (\E q \in qs : q.dc = d) \/ (\E i \in ResultsAt(jb) : jb[i].dc = d)
    <3> SUFFICES ASSUME NEW d \in Dcs, ss[d] # Absent, ss[d].wait # 0
                 PROVE  (\E q \in qs : q.dc = d) \/ (\E i \in ResultsAt(jb) : jb[i].dc = d)
      BY Zenon
    <3>1. d # c /\ rs[d] # Absent /\ rs[d].wait # 0
      BY <1>9, <1>10, <1>12, Zenon
    <3>2. CASE \E q \in qs : q.dc = d
      BY <3>2, Zenon
    <3>3. CASE \E i \in ResultsAt(ib) : ib[i].dc = d
      BY <1>1, <1>2, <1>4, <3>1, <3>3, ZenonT(60)
    <3> QED BY <1>0, <3>1, <3>2, <3>3, Zenon DEF Single
  <2>5. \A d \in Dcs : ss[d] # Absent /\ ss[d].state = "Import" /\ ss[d].exportId # 0 => ss[d].wait = 0
    BY <1>0, <1>9, <1>10, <1>12, ZenonT(60) DEF Single
  <2> QED BY <1>0, <2>1, <2>2, <2>3, <2>4, <2>5, ZenonT(60) DEF Single
<1>16. CausedStates(ss, ex)
  <2> SUFFICES ASSUME NEW d \in Dcs
               PROVE  /\ ex[d] <= 1 + causes[d]
                      /\ ss[d] = Absent => ex[d] = 0
                      /\ ss[d] # Absent /\ ss[d].state \in {"Waiting", "Export"} => Spent(ex, d)
                      /\ ss[d] # Absent /\ ss[d].state = "Ok"
                           /\ (ss[d].auth # "OK" \/ key[d] # "OK") => Spent(ex, d)
    BY Zenon DEF CausedStates
  <2>1. CASE d = c
    <3>1. Spent(ex, c) \/ (m.ok /\ (m.kind = "import" => key[c] = "OK" /\ Told(rs, ib, c, 1)))
      BY <1>0, <1>1, <1>4, Zenon DEF CausedResults
    <3>2. Told(rs, ib, c, 1) => rs[c].auth = "OK"
      BY <1>5, <1>6, SMTT(60) DEF Told
    <3> QED BY <1>0, <1>5, <1>8, <1>10, <1>12, <2>1, <3>1, <3>2, Zenon DEF CausedStates
  <2>2. CASE d # c
    BY <1>0, <1>9, <2>2, Zenon DEF CausedStates
  <2> QED BY <2>1, <2>2, Zenon
<1>17. \A d \in Dcs : d # c => \A n \in Nat : Told(rs, ib, d, n + 1) => Told(ss, jb, d, n)
  BY <1>3, <1>6, <1>9, SMTT(60) DEF Told
<1>18. CausedQueries(ss, qs, jb, ex)
  <2>1. Len(jb) + 1 \in Nat /\ Len(ib) + 1 = (Len(jb) + 1) + 1
    BY <1>1, SMTT(60)
  <2> QED BY <1>0, <1>7, <1>17, <2>1, Zenon DEF CausedQueries
<1>19. CausedResults(ss, jb, ex)
  BY <1>0, <1>6, <1>14, <1>17, Zenon DEF CausedResults
<1> QED BY <1>13, <1>15, <1>16, <1>18, <1>19, Zenon DEF Parts, jb, ss, c, m

\* Queries and answers are about known data centers.
LEMMA DcsOfMessages ==
  ASSUME NEW rs, NEW qs, NEW ib, NEW ex, TypesOK(rs, qs, ib, ex)
  PROVE  /\ \A q \in qs : q.dc \in Dcs
         /\ \A i \in ResultsAt(ib) : ib[i].dc \in Dcs
BY SMTT(60) DEF TypesOK, QueryRecords, InboxMessages, ResultRecords, ResultsAt

\* No data center hears of an update by an answer.
LEMMA AnswerIsNoUpdate ==
  ASSUME NEW ib \in Seq(InboxMessages), NEW m \in InboxMessages, m.type = "result",
         NEW jb, jb = Append(ib, m)
  PROVE  \A d \in Dcs : UpdatesAt(jb, d) = UpdatesAt(ib, d)
<1>1. /\ Len(ib) \in Nat /\ Len(jb) = Len(ib) + 1 /\ jb[Len(ib) + 1] = m
      /\ \A i \in 1..Len(ib) : jb[i] = ib[i]
  BY AppendAt, ZenonT(60)
<1>2. /\ 1..Len(jb) = (1..Len(ib)) \cup {Len(ib) + 1}
      /\ jb[Len(ib) + 1].type # "update"
  BY <1>1, SMTT(60)
<1> QED BY <1>1, <1>2, ZenonT(60) DEF UpdatesAt

\* A bound by a count holds when the count has grown.
LEMMA BoundGrows ==
  ASSUME NEW e \in Nat, NEW a \in Nat, NEW b \in Nat, a <= b
  PROVE  (e <= a => e <= b) /\ (e <= 1 + a => e <= 1 + b)
BY SMTT(60)

\* The result at i is the one that came to the inbox ib, or had its cause before.
Arrived(rs, ib, jb, q, ok, ex, i) ==
  \/ /\ i = Len(ib) + 1 /\ jb[i] = Result(q, ok)
     /\ Told(rs, ib, q.dc, Len(ib) + 1) => Told(rs, jb, q.dc, i)
  \/ Spent(ex, jb[i].dc)
  \/ /\ jb[i].ok
     /\ jb[i].kind = "import" => key[jb[i].dc] = "OK" /\ Told(rs, jb, jb[i].dc, i)

\* An answer to a query takes the place of the query.
LEMMA ResultArrives ==
  ASSUME NEW rs, NEW qs, NEW ib, NEW ex, NEW ls, Parts(rs, qs, ib, ex, ls),
         NEW q \in qs, NEW ok \in BOOLEAN, NEW jb, jb = Append(ib, Result(q, ok))
  PROVE  /\ TypesOK(rs, qs \ {q}, jb, ex) /\ Known(rs, jb, ls) /\ Single(rs, qs \ {q}, jb)
         /\ CausedQueries(rs, qs \ {q}, jb, ex)
         /\ \A i \in ResultsAt(jb) : Arrived(rs, ib, jb, q, ok, ex, i)
<1> DEFINE m == Result(q, ok)
           n == Len(ib) + 1
<1>0. /\ TypesOK(rs, qs, ib, ex) /\ Known(rs, ib, ls) /\ Single(rs, qs, ib)
      /\ CausedStates(rs, ex) /\ CausedQueries(rs, qs, ib, ex) /\ CausedResults(rs, ib, ex)
      /\ ib \in Seq(InboxMessages)
  BY Zenon DEF Parts, TypesOK
<1>1. /\ m.type = "result" /\ m.dc = q.dc /\ m.id = q.id /\ m.kind = q.kind /\ m.ok = ok
      /\ m \in InboxMessages
  BY <1>0, Zenon DEF Result, TypesOK, QueryRecords, InboxMessages, ResultRecords
<1> HIDE DEF m
<1>2. /\ jb \in Seq(InboxMessages) /\ Len(ib) \in Nat /\ Len(jb) = n /\ jb[n] = m
      /\ \A i \in ResultsAt(ib) : i \in 1..Len(ib) /\ jb[i] = ib[i]
      /\ \A d \in Dcs : UpdatesAt(ib, d) \subseteq 1..Len(ib)
  BY <1>0, <1>1, AppendAt, ZenonT(60) DEF m
<1>3. ResultsAt(jb) = ResultsAt(ib) \cup {n}
  <2>1. ResultsAt(jb) = ResultsAt(ib) \cup {i \in {n} : m.type = "result"}
    BY <1>0, <1>1, AppendAt, ZenonT(60) DEF m
  <2> QED BY <1>1, <2>1, Zenon
<1>4. \A d \in Dcs : UpdatesAt(jb, d) = UpdatesAt(ib, d)
  BY <1>0, <1>1, AnswerIsNoUpdate, ZenonT(60) DEF m
<1>5. /\ \A p \in qs : p.dc \in Dcs
      /\ \A i \in ResultsAt(ib) : ib[i].dc \in Dcs
  BY <1>0, DcsOfMessages, ZenonT(60)
<1>6. n \in Nat /\ n \notin 1..Len(ib) /\ n + 1 \in Nat
  BY <1>2, SMTT(60)
<1>7. TypesOK(rs, qs \ {q}, jb, ex) /\ Known(rs, jb, ls)
  BY <1>0, <1>2, <1>4, Zenon DEF TypesOK, Known
<1>8. Single(rs, qs \ {q}, jb)
  <2>0. /\ \A i \in ResultsAt(jb) : i = n \/ (i \in ResultsAt(ib) /\ jb[i] = ib[i])
        /\ jb[n].dc = q.dc /\ jb[n].id = q.id /\ jb[n].kind = q.kind
    BY <1>1, <1>2, <1>3, ZenonT(60)
  <2>1. \A i \in ResultsAt(jb) : Awaits(rs[jb[i].dc], jb[i].id, jb[i].kind)
    <3>1. /\ Awaits(rs[q.dc], q.id, q.kind)
          /\ \A i \in ResultsAt(ib) : Awaits(rs[ib[i].dc], ib[i].id, ib[i].kind)
      BY <1>0, Zenon DEF Single
    <3> QED BY <2>0, <3>1, ZenonT(60)
  <2>2. \A i, j \in ResultsAt(jb) : jb[i].dc = jb[j].dc => i = j
    <3> SUFFICES ASSUME NEW i \in ResultsAt(jb), NEW j \in ResultsAt(jb), jb[i].dc = jb[j].dc
                 PROVE  i = j
      BY ZenonT(60)
    <3>1. \A k, l \in ResultsAt(ib) : ib[k].dc = ib[l].dc => k = l
      BY <1>0, ZenonT(60) DEF Single
    <3>2. \A k \in ResultsAt(ib) : q.dc # ib[k].dc
      BY <1>0, ZenonT(60) DEF Single
    <3>3. CASE i = n
      BY <2>0, <3>2, <3>3, ZenonT(60)
    <3>4. CASE j = n
      BY <2>0, <3>2, <3>4, ZenonT(60)
    <3>5. CASE i # n /\ j # n
      BY <2>0, <3>1, <3>5, ZenonT(60)
    <3> QED BY <3>3, <3>4, <3>5, Zenon
  <2>3. \A p \in qs \ {q}, i \in ResultsAt(jb) : p.dc # jb[i].dc
    <3>1. \A p \in qs, i \in ResultsAt(ib) : p.dc # ib[i].dc
      BY <1>0, ZenonT(60) DEF Single
    <3>2. \A p \in qs \ {q} : p \in qs /\ p.dc # q.dc
      BY <1>0, ZenonT(60) DEF Single
    <3> QED BY <2>0, <3>1, <3>2, ZenonT(60)
  <2>4. \A d \in Dcs : rs[d] # Absent /\ rs[d].wait # 0 =>
          (\E p \in qs \ {q} : p.dc = d) \/ (\E i \in ResultsAt(jb) : jb[i].dc = d)
    <3> SUFFICES ASSUME NEW d \in Dcs, rs[d] # Absent, rs[d].wait # 0
                 PROVE  (\E p \in qs \ {q} : p.dc = d) \/ (\E i \in ResultsAt(jb) : jb[i].dc = d)
      BY ZenonT(60)
    <3>1. CASE \E p \in qs : p.dc = d
      BY <1>1, <1>2, <1>3, <3>1, ZenonT(60)
    <3>2. CASE \E i \in ResultsAt(ib) : ib[i].dc = d
      BY <1>2, <1>3, <3>2, Zenon
    <3> QED BY <1>0, <3>1, <3>2, Zenon DEF Single
  <2>5. /\ \A p \in qs \ {q} : Awaits(rs[p.dc], p.id, p.kind)
        /\ \A p, o \in qs \ {q} : p.dc = o.dc => p = o
    BY <1>0, ZenonT(60) DEF Single
  <2>6. \A d \in Dcs : rs[d] # Absent /\ rs[d].state = "Import" /\ rs[d].exportId # 0 => rs[d].wait = 0
    BY <1>0, ZenonT(60) DEF Single
  <2> QED BY <2>1, <2>2, <2>3, <2>4, <2>5, <2>6, Zenon DEF Single
<1>9. \A d \in Dcs : \A k : Told(rs, ib, d, k) => Told(rs, jb, d, k)
  BY <1>4, Zenon DEF Told
<1>10. \A d \in Dcs : Told(rs, ib, d, n) => Told(rs, jb, d, Len(jb) + 1)
  BY <1>2, <1>4, SMTT(60) DEF Told
<1>11. CausedQueries(rs, qs \ {q}, jb, ex)
  BY <1>0, <1>5, <1>10, Zenon DEF CausedQueries
<1>12. \A i \in ResultsAt(jb) : Arrived(rs, ib, jb, q, ok, ex, i)
  <2> SUFFICES ASSUME NEW i \in ResultsAt(jb) PROVE Arrived(rs, ib, jb, q, ok, ex, i)
    BY Zenon
  <2>1. CASE i = n
    <3>1. q.dc \in Dcs
      BY <1>5, Zenon
    <3> QED BY <1>2, <1>9, <2>1, <3>1, Zenon DEF Arrived, m
  <2>2. CASE i \in ResultsAt(ib)
    <3>1. jb[i] = ib[i] /\ ib[i].dc \in Dcs
      BY <1>2, <1>5, <2>2, Zenon
    <3>2. \/ Spent(ex, jb[i].dc)
          \/ /\ jb[i].ok
             /\ jb[i].kind = "import" => key[jb[i].dc] = "OK" /\ Told(rs, jb, jb[i].dc, i)
      BY <1>0, <1>9, <2>2, <3>1, Zenon DEF CausedResults
    <3> QED BY <3>2, ZenonT(60) DEF Arrived
  <2> QED BY <1>3, <2>1, <2>2, Zenon
<1> QED BY <1>7, <1>8, <1>11, <1>12, Zenon

----------------------------------------------------------------------------
(* Steps. *)

\* The invariant after a step that may change keys and count causes.
LEMMA PartsPrime ==
  ASSUME TypesOK(dcs', queries', inbox', exports'), Known(dcs', inbox', listening'),
         Single(dcs', queries', inbox'), CausedStates(dcs', exports'), KeysTypeOK,
         causes' \in [Dcs -> Nat], \A d \in Dcs : causes[d] <= causes'[d],
         \A d \in Dcs : key[d] = "OK" => key'[d] = "OK" \/ exports'[d] <= causes'[d],
         \A q \in queries' : q.stage # "sent" =>
           /\ q.kind = "import"
           /\ key[q.dc] = "OK" \/ key'[q.dc] = "OK" \/ exports'[q.dc] <= causes'[q.dc]
           /\ q.stage = "notified" =>
                exports'[q.dc] <= causes'[q.dc] \/ Told(dcs', inbox', q.dc, Len(inbox') + 1),
         \A i \in ResultsAt(inbox') :
           \/ exports'[inbox'[i].dc] <= causes'[inbox'[i].dc]
           \/ /\ inbox'[i].ok
              /\ inbox'[i].kind = "import" =>
                   key[inbox'[i].dc] = "OK" /\ Told(dcs', inbox', inbox'[i].dc, i)
  PROVE  Parts(dcs, queries, inbox, exports, listening)'
<1>1. /\ TypesOK(dcs, queries, inbox, exports)' /\ Known(dcs, inbox, listening)'
      /\ Single(dcs, queries, inbox)'
  BY ZenonT(60) DEF TypesOK, Known, Single, InboxMessages, ResultRecords, QueryRecords, DcInfo, ResultsAt,
         UpdatesAt, Awaits, Absent, KeyStates
<1>2. /\ \A q \in queries' : q.dc \in Dcs
      /\ \A i \in ResultsAt(inbox') : inbox'[i].dc \in Dcs
  BY DcsOfMessages, ZenonT(60)
<1>3. \A d \in Dcs : /\ exports'[d] <= causes[d] => exports'[d] <= causes'[d]
                     /\ exports'[d] <= 1 + causes[d] => exports'[d] <= 1 + causes'[d]
  <2>1. \A d \in Dcs : exports'[d] \in Nat /\ causes[d] \in Nat /\ causes'[d] \in Nat
    BY ZenonT(60) DEF TypesOK, KeysTypeOK
  <2> QED BY <2>1, BoundGrows, ZenonT(60)
<1>4. CausedStates(dcs, exports)'
  <2> SUFFICES ASSUME NEW d \in Dcs
               PROVE  /\ exports'[d] <= 1 + causes'[d]
                      /\ dcs'[d] = Absent => exports'[d] = 0
                      /\ dcs'[d] # Absent /\ dcs'[d].state \in {"Waiting", "Export"} =>
                           exports'[d] <= causes'[d]
                      /\ dcs'[d] # Absent /\ dcs'[d].state = "Ok"
                           /\ (dcs'[d].auth # "OK" \/ key'[d] # "OK") => exports'[d] <= causes'[d]
    BY Zenon DEF CausedStates, Spent, Absent
  <2>1. /\ exports'[d] <= 1 + causes[d]
        /\ dcs'[d] = Absent => exports'[d] = 0
        /\ dcs'[d] # Absent /\ dcs'[d].state \in {"Waiting", "Export"} => exports'[d] <= causes[d]
        /\ dcs'[d] # Absent /\ dcs'[d].state = "Ok" /\ (dcs'[d].auth # "OK" \/ key[d] # "OK") =>
             exports'[d] <= causes[d]
    BY ZenonT(60) DEF CausedStates, Spent
  <2> QED BY <1>3, <2>1, ZenonT(60)
<1>5. CausedQueries(dcs, queries, inbox, exports)'
  BY <1>2, ZenonT(60) DEF CausedQueries, Spent, Told, UpdatesAt
<1>6. CausedResults(dcs, inbox, exports)'
  BY <1>2, ZenonT(60) DEF CausedResults, Spent, Told, UpdatesAt, ResultsAt
<1> QED BY <1>1, <1>4, <1>5, <1>6, ZenonT(60) DEF Parts

\* The invariant after a step that only does more for it.
LEMMA PartsStill ==
  ASSUME Parts(dcs', queries', inbox', exports', listening'), KeysTypeOK,
         causes' \in [Dcs -> Nat], \A d \in Dcs : causes[d] <= causes'[d],
         \A d \in Dcs : key[d] = "OK" => key'[d] = "OK" \/ exports'[d] <= causes'[d]
  PROVE  Parts(dcs, queries, inbox, exports, listening)'
<1>0. /\ TypesOK(dcs', queries', inbox', exports') /\ Known(dcs', inbox', listening')
      /\ Single(dcs', queries', inbox') /\ CausedStates(dcs', exports')
      /\ CausedQueries(dcs', queries', inbox', exports')
      /\ CausedResults(dcs', inbox', exports')
  BY ZenonT(60) DEF Parts
<1>1. /\ \A q \in queries' : q.dc \in Dcs
      /\ \A i \in ResultsAt(inbox') : inbox'[i].dc \in Dcs
  BY <1>0, SMTT(60) DEF TypesOK, QueryRecords, InboxMessages, ResultRecords, ResultsAt
<1>2. \A d \in Dcs : Spent(exports', d) => exports'[d] <= causes'[d]
  BY <1>0, SMTT(60) DEF TypesOK, KeysTypeOK, Spent
<1>3. \A q \in queries' : q.stage # "sent" =>
        /\ q.kind = "import"
        /\ key[q.dc] = "OK" \/ key'[q.dc] = "OK" \/ exports'[q.dc] <= causes'[q.dc]
        /\ q.stage = "notified" =>
             exports'[q.dc] <= causes'[q.dc] \/ Told(dcs', inbox', q.dc, Len(inbox') + 1)
  BY <1>0, <1>1, <1>2, ZenonT(60) DEF CausedQueries
<1>4. \A i \in ResultsAt(inbox') :
        \/ exports'[inbox'[i].dc] <= causes'[inbox'[i].dc]
        \/ /\ inbox'[i].ok
           /\ inbox'[i].kind = "import" =>
                key[inbox'[i].dc] = "OK" /\ Told(dcs', inbox', inbox'[i].dc, i)
  BY <1>0, <1>1, <1>2, Zenon DEF CausedResults
<1> QED BY <1>0, <1>3, <1>4, PartsPrime, ZenonT(60)

\* The initial state.
LEMMA InitIInv == DcAuthInit => IInv
<1> SUFFICES ASSUME DcAuthInit PROVE IInv
  BY Zenon
<1>1. /\ dcs = [d \in Dcs |-> Absent] /\ inbox = <<>> /\ queries = {} /\ listening = {}
      /\ exports = [d \in Dcs |-> 0] /\ causes = [d \in Dcs |-> 0] /\ adding = Nothing
      /\ key \in [Dcs -> {"Empty", "OK"}]
  BY Zenon DEF DcAuthInit
<1>2. KeysTypeOK /\ AddingIsNew
  BY <1>1, Zenon DEF KeysTypeOK, AddingIsNew, KeyStates
<1>3. Len(inbox) = 0 /\ inbox \in Seq(InboxMessages)
  BY <1>1, SMTT(60)
<1>4. ResultsAt(inbox) = {} /\ \A d \in Dcs : UpdatesAt(inbox, d) = {}
  BY <1>3, SMTT(60) DEF ResultsAt, UpdatesAt
<1>5. TypesOK(dcs, queries, inbox, exports) /\ Known(dcs, inbox, listening)
  BY <1>1, <1>3, <1>4, Zenon DEF TypesOK, Known
<1>6. Single(dcs, queries, inbox)
  BY <1>1, <1>4, Zenon DEF Single
<1>7. CausedStates(dcs, exports)
  BY <1>1, SMTT(60) DEF CausedStates
<1>8. CausedQueries(dcs, queries, inbox, exports) /\ CausedResults(dcs, inbox, exports)
  BY <1>1, <1>4, Zenon DEF CausedQueries, CausedResults
<1> QED BY <1>2, <1>5, <1>6, <1>7, <1>8, Zenon DEF IInv, Parts

\* A handler of the manager that ends with loop(), from data centers rs and an
\* inbox that are as the invariant wants them.
LEMMA LoopStep ==
  ASSUME KeysTypeOK, NEW rs, NEW m,
         Parts(rs, queries, inbox', exports, listening'), RunLoop(rs, m),
         key' = key, causes' = causes, adding' = Nothing
  PROVE  IInv'
<1>1. Parts(dcs', queries', inbox', exports', listening')
  BY RunLoopKeeps, Zenon
<1>2. causes' \in [Dcs -> Nat] /\ \A d \in Dcs : causes[d] <= causes'[d]
  BY SMTT(60) DEF KeysTypeOK
<1>3. \A d \in Dcs : key[d] = "OK" => key'[d] = "OK" \/ exports'[d] <= causes'[d]
  BY Zenon
<1>4. Parts(dcs, queries, inbox, exports, listening)'
  BY <1>1, <1>2, <1>3, PartsStill, Zenon
<1>5. KeysTypeOK' /\ AddingIsNew'
  BY Zenon DEF KeysTypeOK, AddingIsNew
<1> QED BY <1>4, <1>5, Zenon DEF IInv

\* add_dc adds a DcInfo and leaves the invariant.
LEMMA DcAdded ==
  ASSUME NEW rs, NEW qs, NEW ib, NEW ex, NEW ls, Parts(rs, qs, ib, ex, ls), KeysTypeOK,
         NEW c \in Dcs, rs[c] = Absent, NEW a \in KeyStates
  PROVE  /\ Parts([rs EXCEPT ![c] = NewDc(a)], qs, ib, ex, ls \cup {c})
         /\ [rs EXCEPT ![c] = NewDc(a)][c] # Absent
<1> DEFINE ss == [rs EXCEPT ![c] = NewDc(a)]
<1>0. /\ TypesOK(rs, qs, ib, ex) /\ Known(rs, ib, ls) /\ Single(rs, qs, ib)
      /\ CausedStates(rs, ex) /\ CausedQueries(rs, qs, ib, ex) /\ CausedResults(rs, ib, ex)
  BY Zenon DEF Parts
<1>1. NewDc(a) \in DcInfo /\ NewDc(a).wait = 0 /\ NewDc(a).state = "Waiting"
  BY Zenon DEF NewDc, DcInfo
<1>2. ss[c] = NewDc(a) /\ \A d \in Dcs : d # c => ss[d] = rs[d]
  BY <1>0, Zenon DEF TypesOK
<1>3. ss \in [Dcs -> {Absent} \cup DcInfo]
  BY <1>0, <1>1, Zenon DEF TypesOK
<1> HIDE DEF ss
<1>4. ss[c] \in DcInfo /\ ss[c] # Absent /\ ss[c].wait = 0 /\ ss[c].state = "Waiting"
  BY <1>1, <1>2, <1>3, InfoOfAdded, Zenon
<1>5. /\ \A q \in qs : q.dc \in Dcs /\ q.dc # c
      /\ \A i \in ResultsAt(ib) : ib[i].dc \in Dcs /\ ib[i].dc # c
  <2>1. /\ \A q \in qs : q.dc \in Dcs
        /\ \A i \in ResultsAt(ib) : ib[i].dc \in Dcs
    BY <1>0, SMTT(60) DEF TypesOK, QueryRecords, InboxMessages, ResultRecords, ResultsAt
  <2> QED BY <1>0, <2>1, ZenonT(60) DEF Single, Awaits
<1>6. TypesOK(ss, qs, ib, ex)
  BY <1>0, <1>3, Zenon DEF TypesOK
<1>7. Known(ss, ib, ls \cup {c})
  BY <1>0, <1>2, <1>4, Zenon DEF Known
<1>8. Single(ss, qs, ib)
  <2>1. /\ \A q \in qs : Awaits(ss[q.dc], q.id, q.kind)
        /\ \A i \in ResultsAt(ib) : Awaits(ss[ib[i].dc], ib[i].id, ib[i].kind)
    BY <1>0, <1>2, <1>5, ZenonT(60) DEF Single
  <2>2. \A d \in Dcs : ss[d] # Absent /\ ss[d].wait # 0 =>
          (\E q \in qs : q.dc = d) \/ (\E i \in ResultsAt(ib) : ib[i].dc = d)
    BY <1>0, <1>2, <1>4, ZenonT(60) DEF Single
  <2>3. \A d \in Dcs : ss[d] # Absent /\ ss[d].state = "Import" /\ ss[d].exportId # 0 => ss[d].wait = 0
    BY <1>0, <1>2, <1>4, SMTT(60) DEF Single
  <2> QED BY <1>0, <2>1, <2>2, <2>3, ZenonT(60) DEF Single
<1>9. CausedStates(ss, ex)
  <2> SUFFICES ASSUME NEW d \in Dcs
               PROVE  /\ ex[d] <= 1 + causes[d]
                      /\ ss[d] = Absent => ex[d] = 0
                      /\ ss[d] # Absent /\ ss[d].state \in {"Waiting", "Export"} => Spent(ex, d)
                      /\ ss[d] # Absent /\ ss[d].state = "Ok"
                           /\ (ss[d].auth # "OK" \/ key[d] # "OK") => Spent(ex, d)
    BY Zenon DEF CausedStates
  <2>1. CASE d = c
    <3>1. ex[c] = 0 /\ causes[c] \in Nat
      BY <1>0, ZenonT(60) DEF CausedStates, KeysTypeOK
    <3>2. Spent(ex, c)
      BY <3>1, SMTT(60) DEF Spent
    <3> QED BY <1>0, <1>4, <2>1, <3>2, ZenonT(60) DEF CausedStates
  <2>2. CASE d # c
    BY <1>0, <1>2, <2>2, ZenonT(60) DEF CausedStates
  <2> QED BY <2>1, <2>2, Zenon
<1>10. \A d \in Dcs : d # c => \A n : Told(rs, ib, d, n) => Told(ss, ib, d, n)
  BY <1>2, Zenon DEF Told
<1>11. CausedQueries(ss, qs, ib, ex) /\ CausedResults(ss, ib, ex)
  BY <1>0, <1>5, <1>10, Zenon DEF CausedQueries, CausedResults
<1> QED BY <1>4, <1>6, <1>7, <1>8, <1>9, <1>11, Zenon DEF Parts, ss

\* The handlers of the manager.
LEMMA HandlersKeep ==
  ASSUME IInv, AddDcListener \/ UpdateMainDc \/ UpdateAuthKeyState \/ OnResult
  PROVE  IInv'
<1>0. Parts(dcs, queries, inbox, exports, listening) /\ KeysTypeOK /\ AddingIsNew
  BY Zenon DEF IInv
<1>1. CASE UpdateMainDc
  <2>1. /\ RunLoop(dcs, Head(inbox).dc) /\ inbox' = Tail(inbox) /\ inbox # <<>>
        /\ Head(inbox).type = "main"
        /\ key' = key /\ causes' = causes /\ adding' = Nothing /\ listening' = listening
    BY <1>1, Zenon DEF UpdateMainDc, IsNext, sessionVars, bounds
  <2>2. Parts(dcs, queries, inbox', exports, listening')
    BY <1>0, <2>1, MainHandled, Zenon
  <2> QED BY <1>0, <2>1, <2>2, LoopStep, Zenon
<1>2. CASE UpdateAuthKeyState
  <2> DEFINE rs == [dcs EXCEPT ![Head(inbox).dc].auth = key[Head(inbox).dc]]
  <2>1. /\ RunLoop(rs, main) /\ inbox' = Tail(inbox) /\ inbox # <<>>
        /\ Head(inbox).type = "update"
        /\ key' = key /\ causes' = causes /\ adding' = Nothing /\ listening' = listening
    BY <1>2, Zenon DEF UpdateAuthKeyState, IsNext, sessionVars, bounds
  <2>2. Parts(rs, queries, Tail(inbox), exports, listening)
    BY <1>0, <2>1, UpdateHandled, Zenon
  <2> HIDE DEF rs
  <2>3. Parts(rs, queries, inbox', exports, listening')
    BY <2>1, <2>2, Zenon
  <2> QED BY <1>0, <2>1, <2>3, LoopStep, Zenon
<1>3. CASE OnResult
  <2> DEFINE rs == [dcs EXCEPT ![Head(inbox).dc] = Answered(@, Head(inbox))]
  <2>1. /\ RunLoop(rs, main) /\ inbox' = Tail(inbox) /\ inbox # <<>>
        /\ Head(inbox).type = "result"
        /\ key' = key /\ causes' = causes /\ adding' = Nothing /\ listening' = listening
    BY <1>3, Zenon DEF OnResult, IsNext, sessionVars, bounds
  <2>2. Parts(rs, queries, Tail(inbox), exports, listening)
    BY <1>0, <2>1, ResultHandled, Zenon
  <2> HIDE DEF rs
  <2>3. Parts(rs, queries, inbox', exports, listening')
    BY <2>1, <2>2, Zenon
  <2> QED BY <1>0, <2>1, <2>3, LoopStep, Zenon
<1>4. CASE AddDcListener
  <2> DEFINE c == adding[1]
             a == adding[2]
             rs == [dcs EXCEPT ![c] = NewDc(a)]
             m == IF main = NoDc THEN c ELSE main
  <2>1. /\ RunLoop(rs, m) /\ inbox' = Append(inbox, Update(c)) /\ adding # Nothing
        /\ key' = key /\ causes' = causes /\ adding' = Nothing /\ listening' = listening \cup {c}
    BY <1>4, Zenon DEF AddDcListener, StoreListener, bounds
  <2>2. c \in Dcs /\ a \in KeyStates /\ dcs[c] = Absent
    BY <1>0, <2>1, Zenon DEF KeysTypeOK, AddingIsNew, Added
  <2> HIDE DEF c, a, m
  <2>3. Parts(rs, queries, inbox, exports, listening \cup {c}) /\ rs[c] # Absent
    BY <1>0, <2>2, DcAdded, Zenon
  <2> HIDE DEF rs
  <2>4. Update(c) \in [type : {"update", "main"}, dc : Dcs] /\ Update(c).dc = c
    BY <2>2, Zenon DEF Update
  <2>5. Parts(rs, queries, Append(inbox, Update(c)), exports, listening \cup {c})
    BY <2>3, <2>4, NewsArrive, Zenon
  <2>6. Parts(rs, queries, inbox', exports, listening')
    BY <2>1, <2>5, Zenon
  <2> QED BY <1>0, <2>1, <2>6, LoopStep, ZenonT(60)
<1> QED BY <1>1, <1>2, <1>3, <1>4, Zenon

\* add_dc reading a key, set_auth_key in the sessions, and set_main_dc_id.
LEMMA SessionsKeep ==
  ASSUME IInv, NEW d \in Dcs,
         AddDc(d) \/ Handshake(d) \/ Login(d) \/ LoseKey(d) \/ Notify(d) \/ SetMainDcId(d)
  PROVE  IInv'
<1>0. Parts(dcs, queries, inbox, exports, listening) /\ KeysTypeOK /\ AddingIsNew
  BY Zenon DEF IInv
<1>1. CASE AddDc(d)
  <2>1. /\ dcs' = dcs /\ queries' = queries /\ inbox' = inbox /\ exports' = exports
        /\ listening' = listening /\ key' = key /\ causes' = causes
        /\ adding' = <<d, key[d]>> /\ ~Added(d)
    BY <1>1, Zenon DEF AddDc, sessionVars, bounds
  <2>2. Parts(dcs', queries', inbox', exports', listening')
    BY <1>0, <2>1, Zenon
  <2>3. causes' \in [Dcs -> Nat] /\ \A c \in Dcs : causes[c] <= causes'[c]
    BY <1>0, <2>1, SMTT(60) DEF KeysTypeOK
  <2>4. Parts(dcs, queries, inbox, exports, listening)'
    BY <1>0, <2>1, <2>2, <2>3, PartsStill, Zenon
  <2>5. KeysTypeOK' /\ AddingIsNew'
    BY <1>0, <2>1, ZenonT(60) DEF KeysTypeOK, AddingIsNew, Added, Absent
  <2> QED BY <2>4, <2>5, Zenon DEF IInv
<1>2. CASE Handshake(d) \/ Login(d)
  <2>1. /\ dcs' = dcs /\ queries' = queries /\ inbox' = inbox /\ exports' = exports
        /\ listening' = listening /\ causes' = causes /\ adding' = adding
    BY <1>2, Zenon DEF Handshake, Login, managerVars, bounds
  <2>2. \E k \in KeyStates : key' = [key EXCEPT ![d] = k] /\ (key[d] = "OK" => k = "OK")
    BY <1>2, Zenon DEF Handshake, Login, SetKey, KeyStates
  <2>3. key' \in [Dcs -> KeyStates] /\ \A c \in Dcs : key[c] = "OK" => key'[c] = "OK"
    BY <1>0, <2>2, Zenon DEF KeysTypeOK
  <2>4. Parts(dcs', queries', inbox', exports', listening')
    BY <1>0, <2>1, Zenon
  <2>5. causes' \in [Dcs -> Nat] /\ \A c \in Dcs : causes[c] <= causes'[c]
    BY <1>0, <2>1, SMTT(60) DEF KeysTypeOK
  <2>6. Parts(dcs, queries, inbox, exports, listening)'
    BY <1>0, <2>3, <2>4, <2>5, PartsStill, ZenonT(60)
  <2>7. KeysTypeOK' /\ AddingIsNew'
    BY <1>0, <2>1, <2>3, Zenon DEF KeysTypeOK, AddingIsNew, Added, Absent
  <2> QED BY <2>6, <2>7, Zenon DEF IInv
<1>3. CASE LoseKey(d)
  <2>1. /\ dcs' = dcs /\ queries' = queries /\ inbox' = inbox /\ exports' = exports
        /\ listening' = listening /\ adding' = adding
        /\ causes' = [causes EXCEPT ![d] = @ + 1] /\ key' = [key EXCEPT ![d] = "Empty"]
    BY <1>3, Zenon DEF LoseKey, SetKey, managerVars
  <2>2. key' \in [Dcs -> KeyStates] /\ \A c \in Dcs : c # d => key'[c] = key[c]
    BY <1>0, <2>1, Zenon DEF KeysTypeOK, KeyStates
  <2>3. /\ causes' \in [Dcs -> Nat] /\ \A c \in Dcs : causes[c] <= causes'[c]
        /\ causes'[d] = causes[d] + 1
    BY <1>0, <2>1, SMTT(60) DEF KeysTypeOK
  <2>4. exports'[d] <= causes'[d]
    BY <1>0, <2>1, <2>3, SMTT(60) DEF KeysTypeOK, Parts, TypesOK, CausedStates
  <2>5. Parts(dcs', queries', inbox', exports', listening')
    BY <1>0, <2>1, Zenon
  <2>6. Parts(dcs, queries, inbox, exports, listening)'
    BY <1>0, <2>2, <2>3, <2>4, <2>5, PartsStill, ZenonT(60)
  <2>7. KeysTypeOK' /\ AddingIsNew'
    BY <1>0, <2>1, <2>2, <2>3, ZenonT(60) DEF KeysTypeOK, AddingIsNew, Added, Absent
  <2> QED BY <2>6, <2>7, Zenon DEF IInv
<1>4. CASE Notify(d) \/ SetMainDcId(d)
  <2>1. /\ dcs' = dcs /\ queries' = queries /\ exports' = exports
        /\ listening' = listening /\ adding' = adding /\ causes' = causes /\ key' = key
    BY <1>4, Zenon DEF Notify, SetMainDcId, managerVars, bounds
  <2>2. Parts(dcs, queries, inbox', exports, listening)
    <3>1. CASE Notify(d) /\ d \notin listening
      BY <1>0, <3>1, Zenon DEF Notify, CallListeners
    <3>2. CASE Notify(d) /\ d \in listening
      <4>1. inbox' = Append(inbox, Update(d)) /\ dcs[d] # Absent
        BY <1>0, <3>2, Zenon DEF Notify, CallListeners, Parts, Known
      <4>2. Update(d) \in [type : {"update", "main"}, dc : Dcs] /\ Update(d).dc = d
        BY Zenon DEF Update
      <4> QED BY <1>0, <4>1, <4>2, NewsArrive, Zenon
    <3>3. CASE SetMainDcId(d)
      <4> DEFINE m == [type |-> "main", dc |-> d]
      <4>1. inbox' = Append(inbox, m)
        BY <3>3, Zenon DEF SetMainDcId
      <4>2. m \in [type : {"update", "main"}, dc : Dcs] /\ m.type # "update"
        BY Zenon
      <4> HIDE DEF m
      <4> QED BY <1>0, <4>1, <4>2, NewsArrive, Zenon
    <3> QED BY <1>4, <3>1, <3>2, <3>3, Zenon
  <2>3. Parts(dcs', queries', inbox', exports', listening')
    BY <2>1, <2>2, Zenon
  <2>4. causes' \in [Dcs -> Nat] /\ \A c \in Dcs : causes[c] <= causes'[c]
    BY <1>0, <2>1, SMTT(60) DEF KeysTypeOK
  <2>5. Parts(dcs, queries, inbox, exports, listening)'
    BY <1>0, <2>1, <2>3, <2>4, PartsStill, Zenon
  <2>6. KeysTypeOK' /\ AddingIsNew'
    BY <1>0, <2>1, Zenon DEF KeysTypeOK, AddingIsNew, Added, Absent
  <2> QED BY <2>5, <2>6, Zenon DEF IInv
<1> QED BY <1>1, <1>2, <1>3, <1>4, Zenon

\* A query goes to its next stage.
LEMMA StagedKeeps ==
  ASSUME NEW rs, NEW qs, NEW ib, NEW ex, NEW ls, Parts(rs, qs, ib, ex, ls),
         NEW q \in qs, NEW stage \in {"written", "notified"}, NEW p, p = [q EXCEPT !.stage = stage],
         NEW ps, ps = (qs \ {q}) \cup {p}
  PROVE  /\ p.dc = q.dc /\ p.kind = q.kind /\ p.stage = stage /\ q.dc \in Dcs
         /\ TypesOK(rs, ps, ib, ex) /\ Single(rs, ps, ib)
         /\ q.dc \in ls /\ rs[q.dc] # Absent
<1>0. TypesOK(rs, qs, ib, ex) /\ Known(rs, ib, ls) /\ Single(rs, qs, ib)
  BY Zenon DEF Parts
<1>1. q \in QueryRecords /\ \A o \in qs : o.dc \in Dcs
  BY <1>0, Zenon DEF TypesOK, QueryRecords
<1>2. p \in QueryRecords /\ p.dc = q.dc /\ p.kind = q.kind /\ p.stage = stage /\ p.id = q.id
  BY <1>1, Zenon DEF QueryRecords
<1>3. q.dc \in Dcs /\ rs[q.dc] # Absent
  BY <1>0, <1>1, Zenon DEF Single, Awaits
<1>4. q.dc \in ls
  BY <1>0, <1>3, Zenon DEF Known
<1>5. TypesOK(rs, ps, ib, ex)
  BY <1>0, <1>2, Zenon DEF TypesOK
<1>6. Single(rs, ps, ib)
  <2>0. /\ \A o \in ps : o = p \/ (o \in qs /\ o # q)
        /\ \A o \in qs : o # q => o.dc # p.dc
    BY <1>0, <1>2, SMTT(60) DEF Single
  <2>1. \A o \in ps : Awaits(rs[o.dc], o.id, o.kind)
    BY <1>0, <1>2, ZenonT(60) DEF Single
  <2>2. \A o, n \in ps : o.dc = n.dc => o = n
    BY <1>0, <2>0, ZenonT(60) DEF Single
  <2>3. ASSUME NEW o \in ps, NEW i \in ResultsAt(ib) PROVE o.dc # ib[i].dc
    <3>1. \E n \in qs : n.dc = o.dc
      BY <1>2, <2>0, Zenon
    <3> QED BY <1>0, <3>1, SMTT(60) DEF Single
  <2>4. \A d \in Dcs : rs[d] # Absent /\ rs[d].wait # 0 =>
          (\E o \in ps : o.dc = d) \/ (\E i \in ResultsAt(ib) : ib[i].dc = d)
    <3> SUFFICES ASSUME NEW d \in Dcs, \E o \in qs : o.dc = d
                 PROVE  \E o \in ps : o.dc = d
      BY <1>0, Zenon DEF Single
    <3> QED BY <1>2, ZenonT(60)
  <2>5. /\ \A i \in ResultsAt(ib) : Awaits(rs[ib[i].dc], ib[i].id, ib[i].kind)
        /\ \A i, j \in ResultsAt(ib) : ib[i].dc = ib[j].dc => i = j
        /\ \A d \in Dcs :
             rs[d] # Absent /\ rs[d].state = "Import" /\ rs[d].exportId # 0 => rs[d].wait = 0
    BY <1>0, Zenon DEF Single
  <2> QED BY <2>1, <2>2, <2>3, <2>4, <2>5, Zenon DEF Single
<1> QED BY <1>2, <1>3, <1>4, <1>5, <1>6, Zenon

\* An answer that keeps its promise, or has its cause counted.
LEMMA FinishStep ==
  ASSUME IInv, NEW q \in queries, NEW ok \in BOOLEAN, Finish(q, ok),
         dcs' = dcs, exports' = exports, listening' = listening, adding' = adding, key' = key,
         causes' \in [Dcs -> Nat], \A d \in Dcs : causes[d] <= causes'[d],
         \/ exports[q.dc] <= causes'[q.dc]
         \/ /\ ok
            /\ q.kind = "import" => key[q.dc] = "OK" /\ Told(dcs, inbox, q.dc, Len(inbox) + 1)
  PROVE  IInv'
<1>0. Parts(dcs, queries, inbox, exports, listening) /\ KeysTypeOK /\ AddingIsNew
  BY ZenonT(60) DEF IInv
<1>1. queries' = queries \ {q} /\ inbox' = Append(inbox, Result(q, ok))
  BY Zenon DEF Finish
<1>2. /\ TypesOK(dcs, queries', inbox', exports) /\ Known(dcs, inbox', listening)
      /\ Single(dcs, queries', inbox') /\ CausedQueries(dcs, queries', inbox', exports)
  BY <1>0, <1>1, ResultArrives, ZenonT(60)
<1>3. \A i \in ResultsAt(inbox') : Arrived(dcs, inbox, inbox', q, ok, exports, i)
  BY <1>0, <1>1, ResultArrives, ZenonT(60)
<1>4. /\ \A p \in queries' : p.dc \in Dcs
      /\ \A i \in ResultsAt(inbox') : inbox'[i].dc \in Dcs
  BY <1>2, DcsOfMessages, ZenonT(60)
<1>5. \A d \in Dcs : Spent(exports, d) => exports'[d] <= causes'[d]
  BY <1>0, <1>2, SMTT(60) DEF TypesOK, KeysTypeOK, Spent
<1>6. \A p \in queries' : p.stage # "sent" =>
        /\ p.kind = "import"
        /\ key[p.dc] = "OK" \/ key'[p.dc] = "OK" \/ exports'[p.dc] <= causes'[p.dc]
        /\ p.stage = "notified" =>
             exports'[p.dc] <= causes'[p.dc] \/ Told(dcs', inbox', p.dc, Len(inbox') + 1)
  BY <1>2, <1>4, <1>5, Zenon DEF CausedQueries
<1>7. Result(q, ok).dc = q.dc /\ Result(q, ok).kind = q.kind /\ Result(q, ok).ok = ok
  BY ZenonT(60) DEF Result
<1>8. \A i \in ResultsAt(inbox') :
        \/ exports'[inbox'[i].dc] <= causes'[inbox'[i].dc]
        \/ /\ inbox'[i].ok
           /\ inbox'[i].kind = "import" =>
                key[inbox'[i].dc] = "OK" /\ Told(dcs', inbox', inbox'[i].dc, i)
  BY <1>3, <1>4, <1>5, <1>7, ZenonT(60) DEF Arrived
<1>9. CausedStates(dcs', exports')
  BY <1>0, ZenonT(60) DEF Parts
<1>10. \A d \in Dcs : key[d] = "OK" => key'[d] = "OK" \/ exports'[d] <= causes'[d]
  BY Zenon
<1>11. /\ TypesOK(dcs', queries', inbox', exports') /\ Known(dcs', inbox', listening')
       /\ Single(dcs', queries', inbox')
  BY <1>2, ZenonT(60)
<1>12. Parts(dcs, queries, inbox, exports, listening)'
  BY <1>0, <1>6, <1>8, <1>9, <1>10, <1>11, PartsPrime, ZenonT(60)
<1>13. KeysTypeOK' /\ AddingIsNew'
  BY <1>0, Zenon DEF KeysTypeOK, AddingIsNew, Added, Absent
<1> QED BY <1>12, <1>13, Zenon DEF IInv

\* The servers and the threads that return their answers.
LEMMA QueriesKeep ==
  ASSUME IInv, NEW q \in queries,
         ExportAnswered(q) \/ ImportAnswered(q) \/ ImportFinishes(q) \/ QueryFails(q)
  PROVE  IInv'
<1>0. Parts(dcs, queries, inbox, exports, listening) /\ KeysTypeOK /\ AddingIsNew
  BY Zenon DEF IInv
<1>1. /\ q.dc \in Dcs /\ exports[q.dc] \in Nat /\ causes[q.dc] \in Nat
      /\ exports[q.dc] <= 1 + causes[q.dc]
  BY <1>0, Zenon DEF Parts, TypesOK, QueryRecords, KeysTypeOK, CausedStates
<1>2. /\ CausedQueries(dcs, queries, inbox, exports) /\ CausedResults(dcs, inbox, exports)
      /\ CausedStates(dcs, exports) /\ Known(dcs, inbox, listening)
      /\ TypesOK(dcs, queries, inbox, exports)
  BY <1>0, Zenon DEF Parts
<1>3. CASE ExportAnswered(q)
  <2>1. /\ Finish(q, TRUE) /\ q.kind = "export" /\ dcs' = dcs /\ exports' = exports
        /\ listening' = listening /\ adding' = adding /\ key' = key /\ causes' = causes
    BY <1>3, Zenon DEF ExportAnswered, managerVars, sessionVars, bounds
  <2>2. causes' \in [Dcs -> Nat] /\ \A d \in Dcs : causes[d] <= causes'[d]
    BY <1>0, <2>1, SMTT(60) DEF KeysTypeOK
  <2> QED BY <2>1, <2>2, FinishStep, ZenonT(60)
<1>4. CASE QueryFails(q)
  <2>1. /\ Finish(q, FALSE) /\ dcs' = dcs /\ exports' = exports
        /\ listening' = listening /\ adding' = adding /\ key' = key
        /\ causes' = [causes EXCEPT ![q.dc] = @ + 1]
    BY <1>4, ZenonT(60) DEF QueryFails, managerVars, sessionVars
  <2>2. /\ causes' \in [Dcs -> Nat] /\ \A d \in Dcs : causes[d] <= causes'[d]
        /\ causes'[q.dc] = causes[q.dc] + 1
    BY <1>0, <1>1, <2>1, SMTT(60) DEF KeysTypeOK
  <2>3. exports[q.dc] <= causes'[q.dc]
    BY <1>1, <2>2, SMTT(60)
  <2> QED BY <2>1, <2>2, <2>3, FinishStep, Zenon
<1>5. CASE ImportFinishes(q) /\ q.stage = "notified"
  <2>1. /\ Finish(q, TRUE) /\ dcs' = dcs /\ exports' = exports
        /\ listening' = listening /\ adding' = adding /\ key' = key /\ causes' = causes
    BY <1>5, ZenonT(60) DEF ImportFinishes, ImportReturned, managerVars, bounds
  <2>2. causes' \in [Dcs -> Nat] /\ \A d \in Dcs : causes[d] <= causes'[d]
    BY <1>0, <2>1, SMTT(60) DEF KeysTypeOK
  <2>3. \/ exports[q.dc] <= causes'[q.dc]
        \/ key[q.dc] = "OK" /\ Told(dcs, inbox, q.dc, Len(inbox) + 1)
    BY <1>2, <1>5, <2>1, Zenon DEF CausedQueries, Spent
  <2> QED BY <2>1, <2>2, <2>3, FinishStep, Zenon
<1>6. CASE ImportFinishes(q) /\ q.stage = "written"
  <2> DEFINE p == [q EXCEPT !.stage = "notified"]
             m == Update(q.dc)
  <2>1. /\ queries' = (queries \ {q}) \cup {p} /\ inbox' = CallListeners(q.dc)
        /\ dcs' = dcs /\ exports' = exports
        /\ listening' = listening /\ adding' = adding /\ key' = key /\ causes' = causes
    BY <1>6, Zenon DEF ImportFinishes, ImportReturned, Staged, managerVars, bounds
  <2>0. p = [q EXCEPT !.stage = "notified"] /\ "notified" \in {"written", "notified"}
    BY Zenon
  <2> HIDE DEF p
  <2>2. /\ p.dc = q.dc /\ p.kind = q.kind /\ p.stage = "notified"
        /\ TypesOK(dcs, queries', inbox, exports) /\ Single(dcs, queries', inbox)
        /\ q.dc \in listening /\ dcs[q.dc] # Absent
    BY <1>0, <2>0, <2>1, StagedKeeps, SMTT(60)
  <2>3. inbox' = Append(inbox, m)
    BY <2>1, <2>2, Zenon DEF CallListeners
  <2>4. m \in [type : {"update", "main"}, dc : Dcs] /\ m.dc = q.dc /\ m.type = "update"
    BY <1>1, Zenon DEF Update
  <2> HIDE DEF m
  <2>5. \A o \in queries' : o = p \/ o \in queries
    BY <2>1, Zenon
  <2>6. q.kind = "import" /\ (Spent(exports, q.dc) \/ key[q.dc] = "OK")
    BY <1>2, <1>6, ZenonT(60) DEF CausedQueries
  <2>7. Parts(dcs, queries, inbox', exports, listening)
    BY <1>0, <2>2, <2>3, <2>4, NewsArrive, Zenon
  <2>8. Told(dcs, inbox', q.dc, Len(inbox') + 1)
    <3>1. m \in InboxMessages /\ inbox \in Seq(InboxMessages)
      BY <1>2, <2>4, Zenon DEF TypesOK, InboxMessages
    <3>2. Len(inbox') = Len(inbox) + 1 /\ Len(inbox) \in Nat /\ inbox'[Len(inbox) + 1] = m
      BY <2>3, <3>1, AppendAt, ZenonT(60)
    <3>3. Len(inbox) + 1 \in UpdatesAt(inbox', q.dc)
      BY <2>4, <3>2, SMTT(60) DEF UpdatesAt
    <3> QED BY <3>2, <3>3, SMTT(60) DEF Told
  <2>9. /\ TypesOK(dcs, queries', inbox', exports) /\ Single(dcs, queries', inbox')
        /\ Known(dcs, inbox', listening) /\ CausedResults(dcs, inbox', exports)
    <3>1. /\ TypesOK(dcs, queries', inbox', exports) /\ Known(dcs, inbox', listening)
          /\ CausedResults(dcs, inbox', exports)
      BY <2>2, <2>7, ZenonT(60) DEF Parts, TypesOK
    <3>2. Single(dcs, queries', inbox')
      BY <2>0, <2>1, <2>7, StagedKeeps, SMTT(60)
    <3> QED BY <3>1, <3>2, Zenon
  <2>10. CausedQueries(dcs, queries', inbox', exports)
    <3>1. CausedQueries(dcs, queries, inbox', exports)
      BY <2>7, Zenon DEF Parts
    <3> QED BY <2>2, <2>5, <2>6, <2>8, <3>1, ZenonT(60) DEF CausedQueries
  <2>11. Parts(dcs', queries', inbox', exports', listening')
    BY <1>2, <2>1, <2>9, <2>10, Zenon DEF Parts
  <2>12. causes' \in [Dcs -> Nat] /\ \A d \in Dcs : causes[d] <= causes'[d]
    BY <1>0, <2>1, SMTT(60) DEF KeysTypeOK
  <2>13. Parts(dcs, queries, inbox, exports, listening)'
    BY <1>0, <2>1, <2>11, <2>12, PartsStill, ZenonT(60)
  <2>14. KeysTypeOK' /\ AddingIsNew'
    BY <1>0, <2>1, ZenonT(60) DEF KeysTypeOK, AddingIsNew, Added, Absent
  <2> QED BY <2>13, <2>14, Zenon DEF IInv
<1>7. CASE ImportAnswered(q)
  <2> DEFINE p == [q EXCEPT !.stage = "written"]
  <2>1. /\ queries' = (queries \ {q}) \cup {p} /\ q.kind = "import"
        /\ key' = [key EXCEPT ![q.dc] = "OK"]
        /\ dcs' = dcs /\ inbox' = inbox /\ exports' = exports
        /\ listening' = listening /\ adding' = adding /\ causes' = causes
    BY <1>7, Zenon DEF ImportAnswered, Staged, managerVars, bounds
  <2>0. p = [q EXCEPT !.stage = "written"] /\ "written" \in {"written", "notified"}
    BY Zenon
  <2> HIDE DEF p
  <2>2. /\ p.dc = q.dc /\ p.kind = q.kind /\ p.stage = "written"
        /\ TypesOK(dcs, queries', inbox, exports) /\ Single(dcs, queries', inbox)
    BY <1>0, <2>0, <2>1, StagedKeeps, SMTT(60)
  <2>3. \A o \in queries' : o = p \/ o \in queries
    BY <2>1, Zenon
  <2>4. /\ key' \in [Dcs -> KeyStates] /\ key'[q.dc] = "OK"
        /\ \A d \in Dcs : key[d] = "OK" => key'[d] = "OK"
    BY <1>0, <1>1, <2>1, Zenon DEF KeysTypeOK, KeyStates
  <2>5. causes' \in [Dcs -> Nat] /\ \A d \in Dcs : causes[d] <= causes'[d]
    BY <1>0, <2>1, SMTT(60) DEF KeysTypeOK
  <2>6. \A o \in queries' : o.stage # "sent" =>
          /\ o.kind = "import"
          /\ key[o.dc] = "OK" \/ key'[o.dc] = "OK" \/ exports'[o.dc] <= causes'[o.dc]
          /\ o.stage = "notified" =>
               exports'[o.dc] <= causes'[o.dc] \/ Told(dcs', inbox', o.dc, Len(inbox') + 1)
    <3>1. \A o \in queries : o.stage # "sent" =>
            /\ o.kind = "import"
            /\ key[o.dc] = "OK" \/ exports'[o.dc] <= causes'[o.dc]
            /\ o.stage = "notified" =>
                 exports'[o.dc] <= causes'[o.dc] \/ Told(dcs', inbox', o.dc, Len(inbox') + 1)
      BY <1>2, <2>1, ZenonT(60) DEF CausedQueries, Spent
    <3> QED BY <2>1, <2>2, <2>3, <2>4, <3>1, ZenonT(60)
  <2>7. \A i \in ResultsAt(inbox') :
          \/ exports'[inbox'[i].dc] <= causes'[inbox'[i].dc]
          \/ /\ inbox'[i].ok
             /\ inbox'[i].kind = "import" =>
                  key[inbox'[i].dc] = "OK" /\ Told(dcs', inbox', inbox'[i].dc, i)
    BY <1>2, <2>1, ZenonT(60) DEF CausedResults, Spent
  <2>8. /\ TypesOK(dcs', queries', inbox', exports') /\ Known(dcs', inbox', listening')
        /\ Single(dcs', queries', inbox') /\ CausedStates(dcs', exports')
    BY <1>2, <2>1, <2>2, Zenon
  <2>9. Parts(dcs, queries, inbox, exports, listening)'
    BY <1>0, <2>4, <2>5, <2>6, <2>7, <2>8, PartsPrime, ZenonT(60)
  <2>10. KeysTypeOK' /\ AddingIsNew'
    BY <1>0, <2>1, <2>4, ZenonT(60) DEF KeysTypeOK, AddingIsNew, Added, Absent
  <2> QED BY <2>9, <2>10, Zenon DEF IInv
<1>8. ImportFinishes(q) => q.stage \in {"written", "notified"}
  BY ZenonT(60) DEF ImportFinishes, ImportReturned
<1> QED BY <1>3, <1>4, <1>5, <1>6, <1>7, <1>8, Zenon

\* A step that changes nothing.
LEMMA StutterKeeps ==
  ASSUME IInv, UNCHANGED dcAuthVars
  PROVE  IInv'
<1>0. Parts(dcs, queries, inbox, exports, listening) /\ KeysTypeOK /\ AddingIsNew
  BY Zenon DEF IInv
<1>1. /\ dcs' = dcs /\ queries' = queries /\ inbox' = inbox /\ exports' = exports
      /\ listening' = listening /\ adding' = adding /\ key' = key /\ causes' = causes
  BY Zenon DEF dcAuthVars, managerVars, sessionVars, bounds
<1>2. Parts(dcs', queries', inbox', exports', listening')
  BY <1>0, <1>1, Zenon
<1>3. causes' \in [Dcs -> Nat] /\ \A d \in Dcs : causes[d] <= causes'[d]
  BY <1>0, <1>1, SMTT(60) DEF KeysTypeOK
<1>4. Parts(dcs, queries, inbox, exports, listening)'
  BY <1>0, <1>1, <1>2, <1>3, PartsStill, Zenon
<1>5. KeysTypeOK' /\ AddingIsNew'
  BY <1>0, <1>1, Zenon DEF KeysTypeOK, AddingIsNew, Added, Absent
<1> QED BY <1>4, <1>5, Zenon DEF IInv

\* Every step keeps the invariant.
LEMMA NextIInv == IInv /\ [DcAuthNext]_dcAuthVars => IInv'
<1> SUFFICES ASSUME IInv, [DcAuthNext]_dcAuthVars PROVE IInv'
  BY Zenon
<1> QED BY HandlersKeep, SessionsKeep, QueriesKeep, StutterKeeps, Zenon DEF DcAuthNext

----------------------------------------------------------------------------
(* Theorems. *)

\* on_result always finds the query it waits for.
LEMMA IInvAwaited == IInv => OneQueryAwaited
<1> SUFFICES ASSUME IInv, NEW d \in Dcs
             PROVE  {<<q.id, q.kind>> : q \in {q \in queries : q.dc = d}}
                      \cup {<<m.id, m.kind>> : m \in {m \in Results : m.dc = d}}
                    = (IF ~Added(d) \/ dcs[d].wait = 0 THEN {}
                       ELSE {<<dcs[d].wait, IF dcs[d].state = "Import" THEN "export" ELSE "import">>})
  BY Zenon DEF OneQueryAwaited
<1> DEFINE r == dcs[d]
           kind == IF r.state = "Import" THEN "export" ELSE "import"
           Q == {q \in queries : q.dc = d}
           R == {m \in Results : m.dc = d}
<1>0. TypesOK(dcs, queries, inbox, exports) /\ Single(dcs, queries, inbox)
  BY Zenon DEF IInv, Parts
<1>1. \A m \in R : \E i \in ResultsAt(inbox) : m = inbox[i] /\ inbox[i].dc = d
  BY <1>0, SMTT(60) DEF Results, ResultsAt, TypesOK
<1>2. \A i \in ResultsAt(inbox) : inbox[i].dc = d => inbox[i] \in R
  BY <1>0, SMTT(60) DEF Results, ResultsAt, TypesOK
<1>3. \A x \in Q \cup R :
        x.id = r.wait /\ x.kind = kind /\ Added(d) /\ r.wait # 0
  <2>1. \A x \in Q \cup R : Awaits(r, x.id, x.kind) /\ x.kind \in {"export", "import"}
    <3>1. \A q \in Q : Awaits(r, q.id, q.kind) /\ q.kind \in {"export", "import"}
      BY <1>0, Zenon DEF Single, TypesOK, QueryRecords
    <3>2. \A i \in ResultsAt(inbox) : inbox[i].kind \in {"export", "import"}
      BY <1>0, SMTT(60) DEF ResultsAt, TypesOK, InboxMessages, ResultRecords
    <3>3. \A m \in R : Awaits(r, m.id, m.kind) /\ m.kind \in {"export", "import"}
      BY <1>0, <1>1, <3>2, SMTT(60) DEF Single
    <3> QED BY <3>1, <3>3, Zenon
  <2> QED BY <2>1, Zenon DEF Awaits, Added
<1>4. Added(d) /\ r.wait # 0 => \E x \in Q \cup R : TRUE
  BY <1>0, <1>2, Zenon DEF Single, Added
<1> HIDE DEF r, kind, Q, R
<1>5. {<<q.id, q.kind>> : q \in Q} \cup {<<m.id, m.kind>> : m \in R}
        = (IF ~Added(d) \/ r.wait = 0 THEN {} ELSE {<<r.wait, kind>>})
  <2>1. CASE ~Added(d) \/ r.wait = 0
    <3>1. Q = {} /\ R = {}
      BY <1>3, <2>1, Zenon
    <3> QED BY <2>1, <3>1, Zenon
  <2>2. CASE Added(d) /\ r.wait # 0
    <3>1. \A x \in Q \cup R : <<x.id, x.kind>> = <<r.wait, kind>>
      BY <1>3, Zenon
    <3> QED BY <1>4, <2>2, <3>1, Zenon
  <2> QED BY <2>1, <2>2, Zenon
<1> QED BY <1>5, Zenon DEF r, kind, Q, R

\* Every export has its cause.
LEMMA IInvCaused == IInv => ExportsForCause
BY Zenon DEF IInv, Parts, CausedStates, ExportsForCause

\* At most one query or answer is under way for a data center, and it is the one
\* its wait_id and state name, so neither the CHECK nor the UNREACHABLE of
\* on_result is met: for any data centers, lost keys, failures and moves.
THEOREM OneQueryAwaitedAlways == DcAuthSpec => []OneQueryAwaited
BY InitIInv, NextIInv, IInvAwaited, PTL DEF DcAuthSpec

\* dc_loop exports an authorization once, and again only for a lost key or a
\* failed query.
THEOREM ExportsForCauseAlways == DcAuthSpec => []ExportsForCause
BY InitIInv, NextIInv, IInvCaused, PTL DEF DcAuthSpec
============================================================================
