---------------------------- MODULE DcOptionsSet ----------------------------
(***************************************************************************)
(* The addresses of a data center and how ConnectionCreator chooses among  *)
(* them (td/telegram/net/DcOptionsSet.{h,cpp}, with StatsCallback of       *)
(* ConnectionCreator.cpp and the places that report to it: Ping.cpp,       *)
(* RawConnection.cpp, SessionConnection.cpp).  One session needs a         *)
(* connection; some addresses work and some do not, and this may change.   *)
(*                                                                         *)
(* Of the three times of a Stat only their order matters: latest is the    *)
(* set of the kinds of event at the latest of them, errorRank orders the   *)
(* addresses by error_at.  Two events may have the same Time::now_cached.  *)
(***************************************************************************)
EXTENDS Integers, Sequences, FiniteSets, FiniteSetsExt, Functions

CONSTANTS
  Addresses,     \* IP addresses
  DefaultLists,  \* the orders get_default_dc_options may give its addresses
  OptionLists,   \* the sequences of addresses a configuration may give
  MaxChecks,     \* how many connections are checked at once
  MaxReloads,    \* bound on configurations received
  MaxOutages     \* bound on the times the working addresses change

VARIABLES
  dcOptions,     \* the default addresses and the ones of the configuration
  latest,        \* for each Stat, the kinds of its latest event
  justNow,       \* the Stats whose latest event is at the current time
  errorRank,     \* the addresses ordered by error_at
  errorNow,      \* the Stats whose error_at is the current time
  underTest,     \* how many connections to each address are in a ping
  surplus,       \* how many ready connections to each address nobody has taken
  inUse,         \* the addresses of the session's connection, at most one
  working,       \* the addresses that work
  reloads, outages

statVars == <<latest, justNow, errorRank, errorNow>>
optionVars == <<dcOptions, statVars, underTest, surplus, inUse, working, reloads, outages>>

\* Stat::state.
StatState(o) ==
  CASE latest[o] = {"ok"} -> "Ok"
    [] latest[o] = {"check"} -> "Checking"
    [] OTHER -> "Error"
StatePreference == [Ok |-> 0, Error |-> 1, Checking |-> 2]

\* on_ok, on_error and on_check for the address o.
Report(o, kind) ==
  LET others == {errorRank[p] : p \in Addresses \ {o}}
      Rank(n) == Cardinality({m \in others : m < n})
      newest == IF errorNow \ {o} # {} THEN Cardinality(others) - 1 ELSE Cardinality(others)
  IN  /\ latest' = [latest EXCEPT ![o] = IF o \in justNow THEN @ \cup {kind} ELSE {kind}]
      /\ justNow' = justNow \cup {o}
      /\ IF kind = "error"
           THEN /\ errorRank' = [p \in Addresses |-> IF p = o THEN newest ELSE Rank(errorRank[p])]
                /\ errorNow' = errorNow \cup {o}
           ELSE UNCHANGED <<errorRank, errorNow>>

\* options_, in the order of registration, and ordered_options_: add_dc_options is
\* called for the defaults, then for the addresses of the configuration, which it
\* puts first.
Registered == dcOptions.defaults \o dcOptions.given
Ordered == dcOptions.given \o dcOptions.defaults

\* An address may be both a default and one of the configuration.
Place(o, list) == Min({i \in DOMAIN list : list[i] = o})

\* Mutant of Preferred: of the addresses in error, the one that failed last.
PreferredNewestError(o, p) ==
  LET so == StatePreference[StatState(o)]
      sp == StatePreference[StatState(p)]
  IN  IF so # sp THEN so < sp
      ELSE IF StatState(o) # "Error" THEN Place(o, Ordered) < Place(p, Ordered)
      ELSE IF errorRank[o] # errorRank[p] THEN errorRank[o] > errorRank[p]
      ELSE Place(o, Registered) < Place(p, Registered)

\* The order of find_connection: by state; the good ones and the ones being
\* checked by their place in the list, the ones in error by the time of it, and
\* of two errors at the same time min_element keeps the one registered first.
Preferred(o, p) ==
  LET so == StatePreference[StatState(o)]
      sp == StatePreference[StatState(p)]
  IN  IF so # sp THEN so < sp
      ELSE IF StatState(o) # "Error" THEN Place(o, Ordered) < Place(p, Ordered)
      ELSE IF errorRank[o] # errorRank[p] THEN errorRank[o] < errorRank[p]
      ELSE Place(o, Registered) < Place(p, Registered)

BestOption ==
  CHOOSE o \in Range(Registered) : \A p \in Range(Registered) \ {o} : Preferred(o, p)

Tests == SumFunction(underTest)

\* should_check, which find_connection adds to check_mode: an address that is not
\* Ok is always checked.  Whether the last error of any address is recent, which
\* asks for a check as well, is left open.
MayGoUnchecked(o) == StatState(o) = "Ok"

\* A round of client_loop for the session that waits: find_connection, and a
\* socket that fails at once, that is checked, or that the session gets as it
\* is, unless others are being checked.
FindConnection ==
  /\ inUse = {} /\ SumFunction(surplus) = 0 /\ Tests < MaxChecks
  /\ LET o == BestOption
     IN  \/ /\ o \notin working
            /\ Report(o, "error")
            /\ UNCHANGED <<underTest, inUse>>
         \/ /\ Report(o, "check")
            /\ underTest' = [underTest EXCEPT ![o] = @ + 1]
            /\ UNCHANGED inUse
         \/ /\ Tests = 0 /\ MayGoUnchecked(o)
            /\ inUse' = {o}
            /\ UNCHANGED <<statVars, underTest>>
  /\ UNCHANGED <<dcOptions, surplus, working, reloads, outages>>

\* PingActor::finish: on_pong, and the connection is ready, or on_error.
TestEnds(o) ==
  /\ underTest[o] > 0
  /\ underTest' = [underTest EXCEPT ![o] = @ - 1]
  /\ IF o \in working
       THEN /\ Report(o, "ok")
            /\ IF inUse = {} THEN inUse' = {o} /\ UNCHANGED surplus
                             ELSE surplus' = [surplus EXCEPT ![o] = @ + 1] /\ UNCHANGED inUse
       ELSE Report(o, "error") /\ UNCHANGED <<surplus, inUse>>
  /\ UNCHANGED <<dcOptions, working, reloads, outages>>

\* A ready connection goes to the session that waits again, or expires.
TakeSurplus(o) ==
  /\ surplus[o] > 0
  /\ surplus' = [surplus EXCEPT ![o] = @ - 1]
  /\ inUse' = IF inUse = {} THEN {o} ELSE inUse
  /\ UNCHANGED <<dcOptions, statVars, underTest, working, reloads, outages>>

\* A pong on the connection in use; or the end of it: an error of the socket, or
\* no pong or no packet in time.
UsePong ==
  /\ \E o \in inUse \cap working : "ok" \notin latest[o] /\ Report(o, "ok")
  /\ UNCHANGED <<dcOptions, underTest, surplus, inUse, working, reloads, outages>>

UseFails ==
  /\ \E o \in inUse \ working : Report(o, "error")
  /\ inUse' = {}
  /\ UNCHANGED <<dcOptions, underTest, surplus, working, reloads, outages>>

\* on_dc_options: reset and add_dc_options; the Stats are kept by address.
OnDcOptions ==
  /\ reloads < MaxReloads /\ reloads' = reloads + 1
  /\ dcOptions' \in [defaults : DefaultLists, given : OptionLists]
  /\ UNCHANGED <<statVars, underTest, surplus, inUse, working, outages>>

Outage ==
  /\ outages < MaxOutages /\ outages' = outages + 1
  /\ working' \in (SUBSET Addresses) \ {working}
  /\ UNCHANGED <<dcOptions, statVars, underTest, surplus, inUse, reloads>>

\* Time::now_cached moves on.
TimePasses ==
  /\ justNow # {} /\ justNow' = {} /\ errorNow' = {}
  /\ UNCHANGED <<dcOptions, latest, errorRank, underTest, surplus, inUse, working, reloads, outages>>

OptionInit ==
  /\ dcOptions \in [defaults : DefaultLists, given : OptionLists]
  /\ latest = [o \in Addresses |-> {"ok"}] /\ justNow = {}
  /\ errorRank = [o \in Addresses |-> 0] /\ errorNow = {}
  /\ underTest = [o \in Addresses |-> 0] /\ surplus = [o \in Addresses |-> 0]
  /\ inUse = {} /\ working \in SUBSET Addresses
  /\ reloads = 0 /\ outages = 0

OptionNext ==
  \/ FindConnection \/ UsePong \/ UseFails \/ OnDcOptions \/ Outage \/ TimePasses
  \/ \E o \in Addresses : TestEnds(o) \/ TakeSurplus(o)

OptionSpec == OptionInit /\ [][OptionNext]_optionVars

\* Pings end by their timeout, and so do connections that have stopped working;
\* a client that needs connections opens them when flood control lets it.
OptionFair ==
  /\ WF_optionVars(FindConnection) /\ WF_optionVars(UseFails) /\ WF_optionVars(TimePasses)
  /\ \A o \in Addresses : WF_optionVars(TestEnds(o))
  /\ WF_optionVars(\E o \in Addresses : TakeSurplus(o))
OptionFairSpec == OptionSpec /\ OptionFair

\* However the other addresses fail (at once, after a ping without answer, or in
\* the hands of a session), the session comes to use an address that works and
\* stays with it, if the configuration has one in the end.
WorkingAddressFound ==
  (<>[](working \cap Range(Registered) # {})) => <>[](inUse # {} /\ inUse \subseteq working)
=============================================================================
