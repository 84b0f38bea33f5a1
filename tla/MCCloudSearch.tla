---------------------------- MODULE MCCloudSearch ----------------------------
EXTENDS CloudSearch, TLC

CONSTANTS a, b, m1, m2, m3, x, d

\* chat a: m1, m2 and m3 with text, x without; chat b: d.  m2 and m3 are of one
\* instant, and the row of m1 is a little before the message.
MCChatOf == [m \in Msgs |-> IF m = d THEN b ELSE a]
MCDate == [m \in Msgs |-> CASE m = m1 -> 2 [] m \in {m2, m3} -> 4 [] m = x -> 3 [] OTHER -> 4]
MCSentAt == [m \in Msgs |-> IF m = m1 THEN 1 ELSE MCDate[m]]
=============================================================================
