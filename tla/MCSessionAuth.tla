--------------------------- MODULE MCSessionAuth ---------------------------
(* A session whose temporary key grows old; nothing else happens.          *)
EXTENDS SessionAuth

AgingOnly == {[pfs |-> TRUE, main |-> TRUE, faults |-> 0, ages |-> 1]}
============================================================================
