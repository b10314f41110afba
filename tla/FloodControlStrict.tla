------------------------- MODULE FloodControlStrict -------------------------
(***************************************************************************)
(* FloodControlStrict (tdutils/td/utils/FloodControlStrict.h), which keeps *)
(* the events of client_loop and of ConfigManager within limits.  Times    *)
(* are kept relative to the present, so that a behaviour may have any      *)
(* number of events: an event is its age, at most MaxAge, and wakeupIn is  *)
(* how far wakeup_at_ lies ahead.                                          *)
(***************************************************************************)
EXTENDS Integers, Sequences, FiniteSets, FiniteSetsExt

CONSTANT LimitLists  \* what limits_ may be: sequences of records duration, count

ASSUME FloodAssumption ==
  \A list \in LimitLists : list # <<>> /\ \A i \in DOMAIN list :
    list[i] \in [duration : Nat \ {0}, count : Nat \ {0}]

VARIABLES
  floodLimits,    \* limits_ without pos_
  floodEvents,    \* events_, by age
  limitPos,       \* pos_ of each limit, counted from 0
  withoutUpdate,  \* without_update_
  wakeupIn,       \* wakeup_at_, 0 when it is not in the future
  allEvents       \* the ages of all the events since clear_events

floodVars == <<floodLimits, floodEvents, limitPos, withoutUpdate, wakeupIn, allEvents>>

LimitIds == DOMAIN floodLimits
MaxAge == 1 + Max({floodLimits[i].duration : i \in LimitIds})
MaxCount == Max({floodLimits[i].count : i \in LimitIds})
Never == MaxCount + 1  \* stands for the largest size_t
Larger(x, y) == IF x > y THEN x ELSE y

\* update: the position of the limit i after its events e that are too many or
\* too old are passed.
PassedTo(i, e) ==
  LET n == Len(e)
      from == Larger(limitPos[i], n - floodLimits[i].count)
  IN  Min({p \in from..n : p = n \/ e[p + 1] <= floodLimits[i].duration})

\* Mutant of Slack: one event more goes without an update.
SlackTooLong(i, p, n) == floodLimits[i].count + p - n

\* After how many more events the limit i needs an update.
Slack(i, p, n) == floodLimits[i].count + p - n - 1

Update(e) ==
  LET n == Len(e)
      pos == [i \in LimitIds |-> PassedTo(i, e)]
      full == {i \in LimitIds : floodLimits[i].count + pos[i] <= n}
      least == Min({pos[i] : i \in LimitIds} \cup {n})
      cut == IF least * 2 > n THEN least ELSE 0
  IN  /\ wakeupIn' = Max({wakeupIn} \cup {floodLimits[i].duration - e[pos[i] + 1] : i \in full})
      /\ withoutUpdate' = IF full # {} THEN 0 ELSE Min({Slack(i, pos[i], n) : i \in LimitIds} \cup {Never})
      /\ limitPos' = [i \in LimitIds |-> pos[i] - cut]
      /\ floodEvents' = SubSeq(e, cut + 1, n)

AddEvent ==
  /\ UNCHANGED floodLimits
  /\ LET e == Append(floodEvents, 0)
     IN  IF withoutUpdate > 0
           THEN /\ withoutUpdate' = withoutUpdate - 1
                /\ floodEvents' = e
                /\ UNCHANGED <<limitPos, wakeupIn>>
           ELSE Update(e)
  /\ allEvents' = LET h == Append(allEvents, 0)
                  IN  SubSeq(h, Larger(1, Len(h) - MaxCount), Len(h))

ClearEvents ==
  /\ allEvents # <<>>
  /\ floodEvents' = <<>> /\ limitPos' = [i \in LimitIds |-> 0]
  /\ withoutUpdate' = 0 /\ wakeupIn' = 0 /\ allEvents' = <<>>
  /\ UNCHANGED floodLimits

\* A unit of time passes.
FloodTime ==
  LET Older(s) == [i \in DOMAIN s |-> IF s[i] < MaxAge THEN s[i] + 1 ELSE MaxAge]
  IN  /\ allEvents # <<>>
      /\ floodEvents' = Older(floodEvents) /\ allEvents' = Older(allEvents)
      /\ wakeupIn' = Larger(wakeupIn - 1, 0)
      /\ UNCHANGED <<floodLimits, limitPos, withoutUpdate>>

FloodInit ==
  /\ floodLimits \in LimitLists
  /\ floodEvents = <<>> /\ limitPos = [i \in LimitIds |-> 0]
  /\ withoutUpdate = 0 /\ wakeupIn = 0 /\ allEvents = <<>>
FloodNext == AddEvent \/ ClearEvents \/ FloodTime
FloodSpec == FloodInit /\ [][FloodNext]_floodVars

\* "no more than count in each duration" (add_limit), and no stricter: whatever
\* events came and however many updates were skipped and events dropped, the
\* next event is held off exactly while it would exceed a limit, now and at any
\* later time.
FloodExact ==
  \A later \in 0..MaxAge :
    (wakeupIn > later) <=>
      \E i \in LimitIds :
        Cardinality({k \in DOMAIN allEvents : allEvents[k] + later < floodLimits[i].duration})
          >= floodLimits[i].count
=============================================================================
