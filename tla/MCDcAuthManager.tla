-------------------------- MODULE MCDcAuthManager --------------------------
(* Model checking of DcAuthManager.                                        *)
EXTENDS DcAuthManager

\* A key is lost and a query fails; the main data center changes.
Losses == [losses |-> 1, errors |-> 1, moves |-> 0]
Moves == [losses |-> 0, errors |-> 0, moves |-> 1]

AllConditions == {Losses, Moves}
============================================================================
