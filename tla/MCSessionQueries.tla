-------------------------- MODULE MCSessionQueries --------------------------
EXTENDS SessionQueries, TLC

CONSTANTS q1, q2, b1, b2

Plain == [queries |-> {q1, q2}, binds |-> {}, inflight |-> 2, urgent |-> {},
          cancelable |-> {}, pongs |-> FALSE, faults |-> {"close"}, maxFaults |-> 2]

\* Connections are lost and packets refused.
Closes == [Plain EXCEPT !.faults = {"close", "refuse"}]
\* Queries are canceled at any time.
Cancels(q) == [Plain EXCEPT !.urgent = {q}, !.cancelable = {q1, q2}, !.maxFaults = 1]
\* Temporary keys are lost and bound again.
Binds(q) == [Plain EXCEPT !.queries = {q}, !.binds = {b1, b2}, !.inflight = 1,
                          !.faults = {"key", "close", "fail"}]
\* There is one query more than may be in flight, and pongs are late.
Limit == [Plain EXCEPT !.inflight = 1, !.pongs = TRUE, !.maxFaults = 1]
\* The server loses its session.
Resets == [Plain EXCEPT !.faults = {"reset", "close"}]
\* A query alone meets the loss of the server's session.
OneReset == [Plain EXCEPT !.queries = {q1}, !.faults = {"reset", "close"}]

SafetyScenarios ==
  {Closes, Limit, Resets} \union {Cancels(q) : q \in {q1, q2}} \union {Binds(q) : q \in {q1, q2}}

\* No scenario tells the queries apart once each is there with their names
\* exchanged, and message identifiers are numbers.
Symmetry == Permutations({q1, q2}) \union Permutations({b1, b2})

LiveScenarios == {OneReset}
============================================================================
