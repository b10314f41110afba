----------------------------- MODULE MCNetwork -----------------------------
(***************************************************************************)
(* Parts of the network code that share no state, each checked for itself. *)
(*                                                                         *)
(* "filter": the check for duplicate messages, with two slots kept and     *)
(* four in the array, for eight identifiers in every order of arrival; the *)
(* array is filled and compacted several times.                            *)
(*                                                                         *)
(* "wire": one connection, in six scenarios: a full packet with a query    *)
(* and a cancellation left over; a start without a salt; requests refused  *)
(* twice while the session switches between online and offline; messages   *)
(* to acknowledge; a server that falls silent between switches; a key to   *)
(* destroy.                                                                *)
(*                                                                         *)
(* "options": the choice among two addresses of which any may work, with a *)
(* new configuration and an outage.                                        *)
(*                                                                         *)
(* "config": the refresh of the configuration.                             *)
(*                                                                         *)
(* "flood": FloodControlStrict with the limits ConnectionCreator gives it  *)
(* for connections and for online connections.                             *)
(***************************************************************************)
EXTENDS
  SessionConnection, MessageIdDuplicateChecker, DcOptionsSet, ConfigManager,
  FloodControlStrict

CONSTANTS a1, a2

VARIABLE part

MCMessageIds == 1..8

Plan(on, saltKind, ids, q, c, n, f, w) ==
  [online |-> on, salt |-> saltKind, asked |-> ids, queries |-> q,
   cancels |-> c, news |-> n, failures |-> f, switches |-> w, salts |-> 0,
   destroy |-> FALSE, silence |-> FALSE, fatal |-> FALSE]
NoWork == Plan(FALSE, "none", {}, 0, 0, 0, 0, 0)
MCWirePlans == {
  NoWork,
  Plan(TRUE, "last", {}, 2, 1, 0, 0, 0),
  Plan(TRUE, "none", {"m1"}, 0, 0, 1, 1, 0),
  Plan(TRUE, "none", {}, 0, 2, 0, 0, 0),
  Plan(FALSE, "last", {"m1"}, 0, 0, 0, 2, 1),
  Plan(FALSE, "last", {}, 0, 0, 2, 0, 0),
  [Plan(FALSE, "more", {}, 0, 0, 0, 0, 3) EXCEPT !.silence = TRUE, !.salts = 1],
  [Plan(TRUE, "last", {}, 0, 0, 0, 1, 1) EXCEPT !.destroy = TRUE, !.fatal = TRUE]}

\* Nothing, another address, and the default one once more with another.
MCDefaultLists == {<<a1>>}
MCOptionLists == {<<>>, <<a2>>, <<a1, a2>>}

Limit(d, c) == [duration |-> d, count |-> c]
MCLimitLists == {<<Limit(1, 1), Limit(4, 2), Limit(8, 3)>>, <<Limit(1, 4), Limit(5, 5)>>}

----------------------------------------------------------------------------
\* Parts that owe no step: a closed connection, a session with an address that
\* works, a configuration that is not to be asked for, no events.
WireAtRest == NewConnection /\ plan = NoWork /\ wireAt = "closed"

OptionsAtRest ==
  /\ dcOptions = [defaults |-> <<a1>>, given |-> <<>>] /\ working = Addresses /\ inUse = {a1}
  /\ latest = [o \in Addresses |-> {"ok"}] /\ justNow = {}
  /\ errorRank = [o \in Addresses |-> 0] /\ errorNow = {}
  /\ underTest = [o \in Addresses |-> 0] /\ surplus = [o \in Addresses |-> 0]
  /\ reloads = 0 /\ outages = 0

ConfigAtRest ==
  /\ expireTime = "unset" /\ configTimer = FALSE
  /\ configSent = 0 /\ configAsked = 0 /\ lazyCalls = 0

FloodAtRest == FloodInit /\ floodLimits = <<Limit(1, 4), Limit(5, 5)>>

PartsInit ==
  /\ Init
  /\ part \in {"filter", "wire", "options", "config", "flood"}
  /\ IF part = "wire" THEN WireInit ELSE WireAtRest
  /\ IF part = "options" THEN OptionInit ELSE OptionsAtRest
  /\ IF part = "config" THEN ConfigInit ELSE ConfigAtRest
  /\ IF part = "flood" THEN FloodInit ELSE FloodAtRest

PartsNext ==
  /\ UNCHANGED part
  /\ \/ /\ part = "filter" /\ Next
        /\ UNCHANGED <<wireVars, optionVars, configVars, floodVars>>
     \/ /\ part = "wire" /\ WireNext
        /\ UNCHANGED <<vars, optionVars, configVars, floodVars>>
     \/ /\ part = "options" /\ OptionNext
        /\ UNCHANGED <<vars, wireVars, configVars, floodVars>>
     \/ /\ part = "config" /\ ConfigNext
        /\ UNCHANGED <<vars, wireVars, optionVars, floodVars>>
     \/ /\ part = "flood" /\ FloodNext
        /\ UNCHANGED <<vars, wireVars, optionVars, configVars>>

PartsSpec ==
  /\ PartsInit
  /\ [][PartsNext]_<<part, vars, wireVars, optionVars, configVars, floodVars>>
  /\ WireFair /\ OptionFair /\ ConfigFair

\* Where there is a configuration to refresh, it goes on being asked for, through
\* errors and answers of other data centers, and never twice at once
\* (ConfigManager::on_result, ConfigManager::loop).
ConfigRefreshed == part = "config" => RefreshGoesOn
============================================================================
