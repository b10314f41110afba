--------------------------- MODULE MCSessionPool ---------------------------
EXTENDS SessionPool

Plain == [counts |-> {1}, mains |-> {FALSE}, key |-> 0, recreate |-> 0, reopen |-> 0]

\* The key changes: for two proxies, and twice for one.
TwoProxies == [Plain EXCEPT !.counts = {2}, !.key = 1]
TwoChanges == [Plain EXCEPT !.key = 2]
\* Options change or stop() comes, and the key changes.
Recreation == [Plain EXCEPT !.key = 1, !.recreate = 1]
\* A session fails or is reopened, the main flag changes.
Reopening == [Plain EXCEPT !.mains = {FALSE, TRUE}, !.key = 1, !.reopen = 1]

AllConditions == {TwoProxies, TwoChanges, Recreation, Reopening}
============================================================================
