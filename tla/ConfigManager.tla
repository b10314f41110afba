--------------------------- MODULE ConfigManager ---------------------------
(***************************************************************************)
(* ConfigManager (td/telegram/ConfigManager.{h,cpp}): it asks for the      *)
(* configuration when the one it has expires, or when DcOptionsSet has no  *)
(* address to offer.  G()->close_flag() is set only when Global is         *)
(* destroyed, after every actor has stopped, and request_config is never   *)
(* called with reopen_sessions.                                            *)
(***************************************************************************)
EXTENDS Integers

CONSTANT MaxLazy  \* bound on calls of lazy_request_config under way

VARIABLES
  expireTime,   \* expire_time_: "unset", "later" or "past"
  configTimer,  \* the timeout of the actor, always set for expire_time_, is set
  configSent,   \* config_sent_cnt_
  configAsked,  \* help.getConfig queries in the hands of the dispatcher
  lazyCalls     \* calls of lazy_request_config under way

configVars == <<expireTime, configTimer, configSent, configAsked, lazyCalls>>

\* timeout_expired, that is, loop with request_config(false).
ConfigLoop ==
  /\ configTimer /\ expireTime = "past"
  /\ configTimer' = FALSE /\ expireTime' = "unset"
  /\ IF configSent = 0 THEN configSent' = 1 /\ configAsked' = configAsked + 1
                       ELSE UNCHANGED <<configSent, configAsked>>
  /\ UNCHANGED lazyCalls

\* Mutant of ConfigError: nothing is scheduled.
ConfigErrorForgotten ==
  /\ configAsked > 0
  /\ configAsked' = configAsked - 1 /\ configSent' = configSent - 1
  /\ UNCHANGED <<expireTime, configTimer, lazyCalls>>

\* on_result with an error: the next try in 60 seconds.
ConfigError ==
  /\ configAsked > 0
  /\ configAsked' = configAsked - 1 /\ configSent' = configSent - 1
  /\ expireTime' = "later" /\ configTimer' = TRUE
  /\ UNCHANGED lazyCalls

\* on_result with a configuration; one that is not from the main data center
\* expires at once.
ConfigResult ==
  /\ configAsked > 0
  /\ configAsked' = configAsked - 1 /\ configSent' = configSent - 1
  /\ expireTime' \in {"later", "past"} /\ configTimer' = TRUE
  /\ UNCHANGED lazyCalls

\* DcOptionsSet::find_connection calls lazy_request_config.
FindsNoAddress ==
  /\ lazyCalls < MaxLazy /\ lazyCalls' = lazyCalls + 1
  /\ UNCHANGED <<expireTime, configTimer, configSent, configAsked>>

\* It relaxes the time to the one that flood control gives, which is unset until 60
\* requests were made in 2 seconds (when that is, is left open), and sets the timer.
Relaxed(wakeup) ==
  IF wakeup = "past" \/ expireTime = "unset" THEN wakeup ELSE expireTime

LazyRequestConfig(wakeup) ==
  /\ lazyCalls > 0 /\ lazyCalls' = lazyCalls - 1
  /\ expireTime' = IF configSent = 0 THEN Relaxed(wakeup) ELSE expireTime
  /\ configTimer' = (configTimer \/ (configSent = 0 /\ expireTime' # "unset"))
  /\ UNCHANGED <<configSent, configAsked>>

ConfigExpires ==
  /\ expireTime = "later" /\ expireTime' = "past"
  /\ UNCHANGED <<configTimer, configSent, configAsked, lazyCalls>>

\* start_up: config_expire of the database, or now.
ConfigInit ==
  /\ expireTime \in {"later", "past"} /\ configTimer = TRUE
  /\ configSent = 0 /\ configAsked = 0 /\ lazyCalls = 0

ConfigAnswer == ConfigError \/ ConfigResult
ConfigNext ==
  \/ ConfigLoop \/ ConfigAnswer \/ FindsNoAddress \/ ConfigExpires
  \/ \E wakeup \in {"unset", "later", "past"} : LazyRequestConfig(wakeup)

\* Timers fire, and every query is answered (EveryQueryEnds of the dispatcher).
ConfigFair ==
  WF_configVars(ConfigLoop) /\ WF_configVars(ConfigAnswer) /\ WF_configVars(ConfigExpires)
ConfigSpec == ConfigInit /\ [][ConfigNext]_configVars /\ ConfigFair

\* The configuration goes on being refreshed, through errors and answers of other
\* data centers: there is always a query to come, and never two at once.
RefreshGoesOn == [](configAsked <= 1) /\ []<>(configAsked = 1)
=============================================================================
