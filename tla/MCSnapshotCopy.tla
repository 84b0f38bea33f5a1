--------------------------- MODULE MCSnapshotCopy ---------------------------
EXTENDS SnapshotCopy, TLC

CONSTANTS d1, d2

\* the first transaction writes both pages, those after it the first page alone
MCWrites == [i \in 1..MaxCommits |-> IF i = 1 THEN {1, 2} ELSE {1}]
=============================================================================
