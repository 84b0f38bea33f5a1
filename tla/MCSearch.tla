------------------------------ MODULE MCSearch ------------------------------
(* Two servers with a worker each; c sits in both chats. *)
EXTENDS Search, TLC

CONSTANTS a, b, c, c1, c2, s1, s2, w1, w2, k1

MCInChats == a :> {c1} @@ b :> {c1} @@ c :> {c1, c2}
MCDate == a :> 1 @@ b :> 2 @@ c :> 3
MCServerOf == w1 :> s1 @@ w2 :> s2
MCAt == k1 :> s1

Everything == [query |-> "x", chat |-> c2, since |-> 0, until |-> 9, fromOnly |-> FALSE]
OthersLately == [query |-> "x", chat |-> c1, since |-> 2, until |-> 9, fromOnly |-> TRUE]
AnyLike == [query |-> "y", chat |-> c1, since |-> 0, until |-> 9, fromOnly |-> FALSE]
MCQuestions == {Everything, OthersLately, AnyLike}

\* y is nearer to b than to a, but not by four digits; c is beyond min_score
MCDistance == "x" :> (a :> 1 @@ b :> 2 @@ c :> 3) @@ "y" :> (a :> 2 @@ b :> 1 @@ c :> 4)
MCScore == "x" :> (a :> 9 @@ b :> 8 @@ c :> 7) @@ "y" :> (a :> 8 @@ b :> 8 @@ c :> 6)
MCMine == {b}

Rowids == Permutations(RowIds)
=============================================================================
