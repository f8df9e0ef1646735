---------------------------- MODULE MCOfflineRun ----------------------------
EXTENDS OfflineRun

CONSTANTS u, v, w, x, y, z, p, q, r

\* u reaches the end of the position table; v is shorter, the others are short
MCEncLen == [i \in Utts |-> IF i = u THEN 5 ELSE IF i = v THEN 2 ELSE 1]

\* honest durations; a list whose first row hides the longest one; unreadable,
\* already failed and unpromptable rows; a backlog; nothing at all
MCInputs == {<<u, v, w>>, <<w, x, u, z>>, <<x, y, w>>, <<u, v, w, p, q, r>>, <<>>}
=============================================================================
