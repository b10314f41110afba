--------------------------- MODULE DcAuthManager ---------------------------
(***************************************************************************)
(* DcAuthManager (td/telegram/net/DcAuthManager.cpp) brings the            *)
(* authorization of the main data center to the others: it exports it      *)
(* there and imports it here, once per lost key.  Sessions change the keys *)
(* in their own threads and the manager learns of it through listeners.    *)
(*                                                                         *)
(* The inbox of the manager is a sequence in the order of arrival.         *)
(* destroy and check_authorization_is_ok have no caller and are left out.  *)
(***************************************************************************)
EXTENDS Integers, Sequences, FiniteSets

CONSTANTS
  Dcs,          \* data centers
  NoDc,         \* main_dc_id_ when it is not exact
  FirstMain,    \* the main data center when the program starts
  DcConditions  \* sets of [losses, errors, moves], see dcCond

ASSUME DcAssumption ==
  /\ IsFiniteSet(Dcs) /\ NoDc \notin Dcs /\ FirstMain \in Dcs
  /\ DcConditions \subseteq [losses : Nat, errors : Nat, moves : Nat]

VARIABLES
  main,         \* main_dc_id_
  adding,       \* the data center add_dc is at work on and the key state it has read
  dispatcher,   \* main_dc_id_ of NetQueryDispatcher
  dcs,          \* dcs_, Absent for a data center that was not added
  inbox,        \* messages to the manager
  key,          \* the state of each shared key
  notifying,    \* notifying[d]: calls of set_auth_key that have not called listeners yet
  listening,    \* data centers whose listener is stored
  queries,      \* the query under way for a data center
  exports,      \* history: exports sent per data center
  causes,       \* history: keys lost and queries failed per data center
  dcCond        \* keys that may still be lost, queries that may still fail and changes of
                \* the main data center that may still come

managerVars == <<main, adding, dcs, exports>>
sessionVars == <<dispatcher, key, notifying, listening>>
bounds == <<causes, dcCond>>
dcAuthVars == <<managerVars, inbox, sessionVars, queries, bounds>>

\* A DcInfo; sent counts the queries sent for the data center, each of which is
\* known by its number.  exportId is the number of the query that exported the
\* authorization, 0 for -1.
Absent == [state |-> "Absent"]
NewDc(auth) == [auth |-> auth, state |-> "Waiting", wait |-> 0, exportId |-> 0, sent |-> 0]
Added(d) == dcs[d] # Absent

Update(d) == [type |-> "update", dc |-> d]
Result(q, ok) == [type |-> "result", dc |-> q.dc, id |-> q.id, kind |-> q.kind, ok |-> ok]

----------------------------------------------------------------------------
(* The manager.  RunLoop(rs, m) takes the data centers and the main one as *)
(* a handler has left them, and sends what loop() sends.                   *)

\* mutant: a data center that was authorized once is left alone
NeverRestarted(r) == r

\* dc_loop, the restart after a lost key.
Restarted(r) == IF r.state = "Ok" THEN [r EXCEPT !.state = "Waiting"] ELSE r

SendsExport(r) == r.auth # "OK" /\ Restarted(r).state \in {"Waiting", "Export"}
SendsImport(r) == r.auth # "OK" /\ r.state = "Import" /\ r.exportId # 0

\* The data centers for which loop() calls dc_loop.
Loops(rs, m) ==
  {d \in Dcs : rs[d] # Absent /\ m # NoDc /\ rs[m] # Absent /\ rs[m].auth = "OK"}

Query(r, d, kind, token) ==
  [dc |-> d, id |-> r.sent + 1, kind |-> kind, token |-> token, stage |-> "sent"]

\* mutant: the authorization exported before is kept when another is asked for
ExportingKeeps(r) == [r EXCEPT !.state = "Import", !.wait = r.sent + 1, !.sent = @ + 1]

Exporting(r) == [r EXCEPT !.state = "Import", !.wait = r.sent + 1, !.exportId = 0, !.sent = @ + 1]

Importing(r) == [r EXCEPT !.state = "BeforeOk", !.wait = r.sent + 1, !.sent = @ + 1]

RunLoop(rs, m) ==
  LET exporting == {d \in Loops(rs, m) : SendsExport(rs[d])}
      importing == {d \in Loops(rs, m) : SendsImport(rs[d])}
  IN  /\ main' = m
      /\ dcs' = [d \in Dcs |-> IF d \in exporting THEN Exporting(rs[d])
                               ELSE IF d \in importing THEN Importing(rs[d]) ELSE rs[d]]
      /\ queries' = queries \cup {Query(rs[d], d, "export", 0) : d \in exporting}
                            \cup {Query(rs[d], d, "import", rs[d].exportId) : d \in importing}
      /\ exports' = [d \in Dcs |-> IF d \in exporting THEN exports[d] + 1 ELSE exports[d]]

Nothing == <<>>

\* add_dc reads the key ...
AddDc(d) ==
  /\ adding = Nothing /\ ~Added(d)
  /\ main = NoDc => d = dispatcher      \* the main data center is used first
  /\ adding' = <<d, key[d]>>
  /\ UNCHANGED <<main, dcs, exports, inbox, sessionVars, queries, bounds>>

StoreListener(d) == inbox' = Append(inbox, Update(d))

\* ... and stores the listener, which is called at once.
AddDcListener ==
  /\ adding # Nothing
  /\ LET d == adding[1]
     IN  /\ RunLoop([dcs EXCEPT ![d] = NewDc(adding[2])], IF main = NoDc THEN d ELSE main)
         /\ StoreListener(d)
         /\ listening' = listening \cup {d}
  /\ adding' = Nothing
  /\ UNCHANGED <<dispatcher, key, notifying, bounds>>

IsNext(type) == adding = Nothing /\ inbox # <<>> /\ Head(inbox).type = type

UpdateMainDc ==
  /\ IsNext("main")
  /\ RunLoop(dcs, Head(inbox).dc)
  /\ inbox' = Tail(inbox)
  /\ UNCHANGED <<adding, sessionVars, bounds>>

UpdateAuthKeyState ==
  /\ IsNext("update")
  /\ LET d == Head(inbox).dc
     IN  RunLoop([dcs EXCEPT ![d].auth = key[d]], main)
  /\ inbox' = Tail(inbox)
  /\ UNCHANGED <<adding, sessionVars, bounds>>

AfterImportError(r) == [r EXCEPT !.state = "Export"]

\* What on_result makes of the data center m is about.
Answered(r, m) ==
  CASE r.state = "Import" /\ m.ok -> [r EXCEPT !.wait = 0, !.exportId = m.id]
    [] r.state = "Import" /\ ~m.ok -> [r EXCEPT !.wait = 0, !.state = "Export"]
    [] r.state = "BeforeOk" /\ m.ok -> [r EXCEPT !.wait = 0, !.state = "Ok"]
    [] r.state = "BeforeOk" /\ ~m.ok -> [AfterImportError(r) EXCEPT !.wait = 0]

OnResult ==
  /\ IsNext("result")
  /\ LET m == Head(inbox)
     IN  RunLoop([dcs EXCEPT ![m.dc] = Answered(@, m)], main)
  /\ inbox' = Tail(inbox)
  /\ UNCHANGED <<adding, sessionVars, bounds>>

----------------------------------------------------------------------------
(* Sessions and servers.  A thread that sets a key writes it, calls the    *)
(* listeners, and only then returns the query whose answer it was.         *)

Staged(q, stage) == queries' = (queries \ {q}) \cup {[q EXCEPT !.stage = stage]}
Finish(q, ok) == queries' = queries \ {q} /\ inbox' = Append(inbox, Result(q, ok))

\* set_auth_key without an answer to return: a handshake, a login in the main
\* data center, a key that is lost.
SetKey(d, k) ==
  /\ key' = [key EXCEPT ![d] = k]
  /\ notifying' = [notifying EXCEPT ![d] = @ + 1]

Handshake(d) ==
  /\ key[d] = "Empty"
  /\ SetKey(d, "NoAuth")
  /\ UNCHANGED <<managerVars, dispatcher, inbox, listening, queries, bounds>>

Login(d) ==
  /\ key[d] = "NoAuth" /\ d = dispatcher
  /\ SetKey(d, "OK")
  /\ UNCHANGED <<managerVars, dispatcher, inbox, listening, queries, bounds>>

LoseKey(d) ==
  /\ dcCond.losses > 0 /\ key[d] # "Empty"
  /\ dcCond' = [dcCond EXCEPT !.losses = @ - 1]
  /\ causes' = [causes EXCEPT ![d] = @ + 1]
  /\ SetKey(d, "Empty")
  /\ UNCHANGED <<managerVars, dispatcher, inbox, listening, queries>>

CallListeners(d) == IF d \in listening THEN Append(inbox, Update(d)) ELSE inbox

Notify(d) ==
  /\ notifying[d] > 0
  /\ notifying' = [notifying EXCEPT ![d] = @ - 1]
  /\ inbox' = CallListeners(d)
  /\ UNCHANGED <<managerVars, dispatcher, key, listening, queries, bounds>>

\* set_main_dc_id: a migration error, or a login elsewhere.
SetMainDcId(d) ==
  /\ dcCond.moves > 0 /\ d # dispatcher
  /\ dcCond' = [dcCond EXCEPT !.moves = @ - 1]
  /\ dispatcher' = d
  /\ inbox' = Append(inbox, [type |-> "main", dc |-> d])
  /\ UNCHANGED <<managerVars, key, notifying, listening, queries, causes>>

\* auth.exportAuthorization waits for an authorized key of the main data center.
ExportAnswered(q) ==
  /\ q \in queries /\ q.kind = "export" /\ key[dispatcher] = "OK"
  /\ Finish(q, TRUE)
  /\ UNCHANGED <<managerVars, sessionVars, bounds>>

\* The answer to auth.importAuthorization authorizes the key ...
ImportAnswered(q) ==
  /\ q \in queries /\ q.kind = "import" /\ q.stage = "sent" /\ key[q.dc] # "Empty"
  /\ key' = [key EXCEPT ![q.dc] = "OK"]
  /\ Staged(q, "written")
  /\ UNCHANGED <<managerVars, dispatcher, inbox, notifying, listening, bounds>>

\* mutant: the query is returned before the listeners are called
ImportReturnedFirst(q) ==
  \/ /\ q.stage = "written"
     /\ Finish(q, TRUE)
     /\ notifying' = [notifying EXCEPT ![q.dc] = @ + 1]

\* ... then its listeners are called, and then the query is returned.
ImportReturned(q) ==
  \/ /\ q.stage = "written"
     /\ Staged(q, "notified")
     /\ inbox' = CallListeners(q.dc)
     /\ UNCHANGED notifying
  \/ /\ q.stage = "notified"
     /\ Finish(q, TRUE)
     /\ UNCHANGED notifying

ImportFinishes(q) ==
  /\ q \in queries
  /\ ImportReturned(q)
  /\ UNCHANGED <<managerVars, dispatcher, key, listening, bounds>>

QueryFails(q) ==
  /\ dcCond.errors > 0 /\ q \in queries /\ q.stage = "sent"
  /\ dcCond' = [dcCond EXCEPT !.errors = @ - 1]
  /\ causes' = [causes EXCEPT ![q.dc] = @ + 1]
  /\ Finish(q, FALSE)
  /\ UNCHANGED <<managerVars, sessionVars>>

----------------------------------------------------------------------------
DcAuthInit ==
  /\ dispatcher = FirstMain /\ main \in {dispatcher, NoDc} /\ adding = Nothing
  /\ dcs = [d \in Dcs |-> Absent] /\ inbox = <<>>
  /\ key \in [Dcs -> {"Empty", "OK"}] /\ notifying = [d \in Dcs |-> 0] /\ listening = {}
  /\ queries = {} /\ exports = [d \in Dcs |-> 0] /\ causes = [d \in Dcs |-> 0]
  /\ dcCond \in DcConditions

DcAuthNext ==
  \/ AddDcListener \/ UpdateMainDc \/ UpdateAuthKeyState \/ OnResult
  \/ \E d \in Dcs : \/ AddDc(d) \/ Handshake(d) \/ Login(d) \/ LoseKey(d)
                    \/ Notify(d) \/ SetMainDcId(d)
  \/ \E q \in queries : \/ ExportAnswered(q) \/ ImportAnswered(q) \/ ImportFinishes(q)
                        \/ QueryFails(q)

DcAuthSpec == DcAuthInit /\ [][DcAuthNext]_dcAuthVars

\* The manager handles its messages, threads end what they do, sessions make
\* keys, and servers answer.
DcAuthFair ==
  /\ WF_dcAuthVars(AddDcListener \/ UpdateMainDc \/ UpdateAuthKeyState \/ OnResult)
  /\ WF_dcAuthVars(\E d \in Dcs : Notify(d) \/ Handshake(d) \/ AddDc(d))
  /\ WF_dcAuthVars(\E q \in queries : ExportAnswered(q) \/ ImportAnswered(q) \/ ImportFinishes(q))

DcAuthFairSpec == DcAuthSpec /\ DcAuthFair

----------------------------------------------------------------------------
(* Properties.                                                             *)

Results == {inbox[i] : i \in {j \in DOMAIN inbox : inbox[j].type = "result"}}

\* At most one query or answer is under way for a data center, the one its
\* wait_id names, and its state says which: hence neither the CHECK nor the
\* UNREACHABLE of on_result is ever met.
OneQueryAwaited ==
  \A d \in Dcs :
    LET open == {<<q.id, q.kind>> : q \in {q \in queries : q.dc = d}}
                  \cup {<<m.id, m.kind>> : m \in {m \in Results : m.dc = d}}
    IN  open = (IF ~Added(d) \/ dcs[d].wait = 0 THEN {}
                ELSE {<<dcs[d].wait, IF dcs[d].state = "Import" THEN "export" ELSE "import">>})

\* The authorization is exported once, and again only after a key was lost or a
\* query failed: the answer to an import never overtakes the news that the key
\* is authorized, which would make dc_loop take the key for lost.
ExportsForCause == \A d \in Dcs : exports[d] <= 1 + causes[d]

\* While the main data center stays authorized, the others become and stay so.
AllAuthorized ==
  (\E d \in Dcs : <>[](dispatcher = d /\ key[d] = "OK")) => <>[](\A d \in Dcs : key[d] = "OK")
============================================================================
