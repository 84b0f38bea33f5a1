----------------------------- MODULE MCIndexer -----------------------------
(* Instances of Indexer for TLC.  Chat a: m1 and m2 share a date that is kept  *)
(* as it is, the date of m3 and m4 is rounded up, x has no text.  Chat b: d is  *)
(* a message that message_count_for_chat does not count.                       *)
EXTENDS Indexer, TLC

CONSTANTS a, b, m1, m2, m3, m4, x, d, j1, j2, j3, k1

MCChatOf == [m \in Msgs |-> IF m \in {m1, m2, m3, m4, x} THEN a ELSE b]
MCDate   == [m \in Msgs |-> CASE m \in {m3, m4} -> 4 [] m = x -> 3 [] OTHER -> 2]
MCSentAt == [m \in Msgs |-> IF MCDate[m] = 4 THEN 5 ELSE MCDate[m]]
MCText   == Msgs \ {x}
MCReal == Msgs \ {d}
JobSymmetry == Permutations(Jobs)
=============================================================================
