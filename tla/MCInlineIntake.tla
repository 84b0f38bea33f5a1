--------------------------- MODULE MCInlineIntake ---------------------------
EXTENDS InlineIntake, TLC

CONSTANTS t1, t2, u1, u2, v1, x

\* two users ask the like questions u1, u2 and v1; x is a photo
MCUserOf == [u \in Updates |-> IF u = v1 THEN "v" ELSE "u"]
MCDistance ==
  [p \in Updates |-> [q \in Updates |-> IF p = q THEN 0 ELSE IF x \in {p, q} THEN 3 ELSE 1]]
MCExchanges == [ask : Updates, reply : Updates]
=============================================================================
