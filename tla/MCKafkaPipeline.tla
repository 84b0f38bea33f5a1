-------------------------- MODULE MCKafkaPipeline --------------------------
EXTENDS KafkaPipeline, TLC

CONSTANTS u1, u2, n, b, x

\* one user asks u1, the like question u2 and n, and sends b, blank, and x, a photo
MCUserOf == [u \in Updates |-> "u"]
MCDistance ==
  [p \in Updates |-> [q \in Updates |-> IF p = q THEN 0 ELSE IF n \in {p, q} THEN 3 ELSE 1]]
MCExchanges == [ask : Updates, reply : Updates]
MCSenders == {"reply"}
=============================================================================
