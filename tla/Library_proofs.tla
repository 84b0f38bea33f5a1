--------------------------- MODULE Library_proofs ---------------------------
(* What the pure parts compute, for every question and data of any length:   *)
(* sorts and filters, the time conversions, ISO strings, the decoder, the    *)
(* listings of chats and names, the phone book, and the stream of a snapshot *)
(* with its batches, tapbacks and counts.                                    *)
EXTENDS Library, FiniteSetTheorems, SequenceTheorems, TLAPS

LEMMA QuestionsStay == LibrarySpec => [](question \in Questions)
<1>1. LibraryInit => question \in Questions
  BY DEF LibraryInit
<1>2. question \in Questions /\ [LibraryNext]_libraryVars => (question \in Questions)'
  BY DEF LibraryNext, ConvertTime, RankChats, ListAll, LookUp, FindContacts, Resolve, Stream,
         Count, ReadText, Answers, libraryVars
<1> QED BY <1>1, <1>2, PTL DEF LibrarySpec

-----------------------------------------------------------------------------
(* Ordering                                                                  *)

\* A strict total order of a set.
IsOrder(R, S) ==
  /\ \A x \in S : <<x, x>> \notin R
  /\ \A x, y \in S : x # y => <<x, y>> \in R \/ <<y, x>> \in R
  /\ \A x, y, z \in S : <<x, y>> \in R /\ <<y, z>> \in R => <<x, z>> \in R

Below(x, S, R) == {y \in S : <<y, x>> \in R}

LEMMA RankGrows ==
  ASSUME NEW S, IsFiniteSet(S), NEW R, IsOrder(R, S), NEW x \in S, NEW y \in S
  PROVE  /\ Cardinality(Below(x, S, R)) \in 0 .. Cardinality(S) - 1
         /\ <<x, y>> \in R <=> Cardinality(Below(x, S, R)) < Cardinality(Below(y, S, R))
<1>1. ASSUME NEW z \in S
      PROVE  /\ IsFiniteSet(Below(z, S, R)) /\ Cardinality(Below(z, S, R)) \in Nat
             /\ Cardinality(S) \in Nat /\ Cardinality(Below(z, S, R)) < Cardinality(S)
  <2>1. Below(z, S, R) \in SUBSET S /\ Below(z, S, R) # S
    BY DEF Below, IsOrder
  <2>2. /\ IsFiniteSet(Below(z, S, R)) /\ Cardinality(Below(z, S, R)) <= Cardinality(S)
        /\ Cardinality(Below(z, S, R)) # Cardinality(S)
    BY <2>1, FS_Subset
  <2> QED BY <2>2, FS_CardinalityType
<1>2. ASSUME NEW v \in S, NEW w \in S, <<v, w>> \in R
      PROVE  Cardinality(Below(v, S, R)) < Cardinality(Below(w, S, R))
  <2>1. Below(v, S, R) \in SUBSET Below(w, S, R) /\ v \in Below(w, S, R) \ Below(v, S, R)
    BY <1>2 DEF Below, IsOrder
  <2>2. /\ Cardinality(Below(v, S, R)) <= Cardinality(Below(w, S, R))
        /\ Cardinality(Below(v, S, R)) # Cardinality(Below(w, S, R))
    BY <1>1, <2>1, FS_Subset
  <2> QED BY <1>1, <2>2
<1>3. x = y \/ <<x, y>> \in R \/ <<y, x>> \in R
  BY DEF IsOrder
<1>4. /\ Cardinality(Below(x, S, R)) \in Nat /\ Cardinality(Below(y, S, R)) \in Nat
      /\ Cardinality(S) \in Nat /\ Cardinality(Below(x, S, R)) < Cardinality(S)
      /\ <<x, y>> \in R => Cardinality(Below(x, S, R)) < Cardinality(Below(y, S, R))
      /\ <<y, x>> \in R => Cardinality(Below(y, S, R)) < Cardinality(Below(x, S, R))
  BY <1>1, <1>2
<1>5. <<x, y>> \in R => <<y, x>> \notin R
  BY DEF IsOrder
<1> QED BY ONLY <1>3, <1>4, <1>5

\* What Arranged makes of a finite set: a sequence of all its elements, each once, in order.
LEMMA ArrangedIsSorted ==
  ASSUME NEW S, IsFiniteSet(S), NEW R, IsOrder(R, S)
  PROVE  LET s == Arranged(S, R)
         IN  /\ s \in Seq(S) /\ Len(s) = Cardinality(S) /\ Cardinality(S) \in Nat
             /\ DOMAIN s = 1 .. Cardinality(S)
             /\ \A x \in S : \E i \in DOMAIN s : s[i] = x
             /\ \A i, j \in DOMAIN s : i < j <=> <<s[i], s[j]>> \in R
             /\ \A i, j \in DOMAIN s : s[i] = s[j] => i = j
<1> DEFINE N == Cardinality(S)
           rank == [x \in S |-> Cardinality(Below(x, S, R)) + 1]
           s == Arranged(S, R)
<1>1. N \in Nat /\ IsFiniteSet(1 .. N) /\ Cardinality(1 .. N) = N
  BY FS_CardinalityType, FS_Interval
<1>2. rank \in [S -> 1 .. N] /\ \A x, y \in S : <<x, y>> \in R <=> rank[x] < rank[y]
  <2>1. ASSUME NEW x \in S, NEW y \in S
        PROVE  rank[x] \in 1 .. N /\ (<<x, y>> \in R <=> rank[x] < rank[y])
    <3>1. /\ Cardinality(Below(x, S, R)) \in 0 .. N - 1 /\ Cardinality(Below(y, S, R)) \in 0 .. N - 1
          /\ <<x, y>> \in R <=> Cardinality(Below(x, S, R)) < Cardinality(Below(y, S, R))
      BY RankGrows
    <3> QED BY <1>1, <3>1
  <2> QED BY <2>1
<1> HIDE DEF rank, N
<1>3. \A x, y \in S : rank[x] = rank[y] => x = y
  BY <1>1, <1>2 DEF IsOrder
<1>4. rank \in Injection(S, 1 .. N)
  BY <1>2, <1>3 DEF Injection, IsInjective
<1>5. rank \in Surjection(S, 1 .. N)
  BY <1>1, <1>4, FS_Injection DEF N
<1>6. \A n \in 1 .. N : \E x \in S : rank[x] = n
  BY <1>5 DEF Surjection
<1>7. ASSUME NEW n \in 1 .. N PROVE s[n] \in S /\ rank[s[n]] = n
  <2>1. s[n] = CHOOSE x \in S : Cardinality(Below(x, S, R)) = n - 1
    BY DEF Arranged, Below, N
  <2>2. \E x \in S : Cardinality(Below(x, S, R)) = n - 1
    <3>1. PICK x \in S : rank[x] = n
      BY <1>6
    <3>2. Cardinality(Below(x, S, R)) \in 0 .. N - 1
      BY RankGrows DEF N
    <3>3. rank[x] = Cardinality(Below(x, S, R)) + 1
      BY DEF rank
    <3> QED BY <1>1, <3>1, <3>2, <3>3
  <2>3. s[n] \in S /\ Cardinality(Below(s[n], S, R)) = n - 1
    BY <2>1, <2>2
  <2> QED BY <1>1, <2>3, RankGrows DEF rank
<1>8. DOMAIN s = 1 .. N /\ s \in [1 .. N -> S]
  <2>1. s = [n \in 1 .. N |-> CHOOSE x \in S : Cardinality(Below(x, S, R)) = n - 1]
    BY DEF Arranged, Below, N
  <2> HIDE DEF s
  <2> QED BY <1>7, <2>1
<1> HIDE DEF s
<1>9. s \in Seq(S) /\ Len(s) = N
  BY <1>1, <1>7, <1>8
<1>10. \A x \in S : \E i \in DOMAIN s : s[i] = x
  BY <1>2, <1>3, <1>7, <1>8
<1>11. \A i, j \in DOMAIN s : i < j <=> <<s[i], s[j]>> \in R
  BY <1>2, <1>7, <1>8
<1>12. \A i, j \in DOMAIN s : s[i] = s[j] => i = j
  BY <1>7, <1>8
<1> QED BY <1>1, <1>8, <1>9, <1>10, <1>11, <1>12 DEF s, N

\* There is no other arrangement.
LEMMA ArrangedIsUnique ==
  ASSUME NEW S, IsFiniteSet(S), NEW R, IsOrder(R, S),
         NEW n \in Nat, NEW s \in [1 .. n -> S], \A x \in S : \E i \in 1 .. n : s[i] = x,
         \A i, j \in 1 .. n : i < j => <<s[i], s[j]>> \in R
  PROVE  s = Arranged(S, R)
<1> DEFINE t == Arranged(S, R)
<1>1. /\ Cardinality(S) \in Nat /\ DOMAIN t = 1 .. Cardinality(S) /\ t \in Seq(S)
      /\ \A x \in S : \E i \in DOMAIN t : t[i] = x
      /\ \A i, j \in DOMAIN t : i < j <=> <<t[i], t[j]>> \in R
  BY ArrangedIsSorted
<1> DEFINE Rank(x) == Cardinality(Below(x, S, R))
<1>2. ASSUME NEW i \in 1 .. n PROVE Rank(s[i]) = i - 1
  <2> DEFINE f == [j \in 1 .. i - 1 |-> s[j]]
  <2>1. \A j \in 1 .. n : s[j] \in Below(s[i], S, R) <=> j < i
    <3>1. \A j \in 1 .. n : i < j => <<s[j], s[i]>> \notin R
      BY DEF IsOrder
    <3>2. <<s[i], s[i]>> \notin R
      BY DEF IsOrder
    <3> QED BY <3>1, <3>2 DEF Below
  <2>2. \A j, k \in 1 .. n : s[j] = s[k] => j = k
    <3>1. \A j, k \in 1 .. n : j < k => s[j] # s[k]
      BY DEF IsOrder
    <3> QED BY <3>1
  <2>3. f \in [1 .. i - 1 -> Below(s[i], S, R)]
    BY <2>1
  <2>4. \A j, k \in 1 .. i - 1 : f[j] = f[k] => j = k
    BY <2>2
  <2>5. \A x \in Below(s[i], S, R) : \E j \in 1 .. i - 1 : f[j] = x
    BY <2>1 DEF Below
  <2>6. f \in Bijection(1 .. i - 1, Below(s[i], S, R))
    BY <2>3, <2>4, <2>5 DEF Bijection, Injection, Surjection, IsInjective
  <2>7. i - 1 \in Nat
    OBVIOUS
  <2>8. ExistsBijection(1 .. i - 1, Below(s[i], S, R))
    BY <2>6 DEF ExistsBijection
  <2> QED BY <2>7, <2>8, FS_CountingElements
<1>3. n = Cardinality(S)
  <2>0. \A j, k \in 1 .. n : s[j] = s[k] => j = k
    <3>1. \A j, k \in 1 .. n : j < k => s[j] # s[k]
      BY DEF IsOrder
    <3> QED BY <3>1
  <2>1. s \in Bijection(1 .. n, S)
    BY <2>0 DEF Bijection, Injection, Surjection, IsInjective
  <2> QED BY <2>1, FS_CountingElements DEF ExistsBijection
<1>4. ASSUME NEW i \in 1 .. n PROVE t[i] = s[i]
  <2>1. t[i] = CHOOSE x \in S : Rank(x) = i - 1
    BY <1>3 DEF Arranged, Below
  <2>2. s[i] \in S /\ Rank(s[i]) = i - 1
    BY <1>2
  <2>3. t[i] \in S /\ Rank(t[i]) = i - 1
    BY <2>1, <2>2
  <2>4. Rank(t[i]) \in 0 .. n - 1 /\ Rank(s[i]) \in 0 .. n - 1 /\ (<<t[i], s[i]>> \in R <=> Rank(t[i]) < Rank(s[i]))
    BY <1>3, <2>2, <2>3, RankGrows
  <2>5. <<s[i], t[i]>> \in R <=> Rank(s[i]) < Rank(t[i])
    BY <2>2, <2>3, RankGrows
  <2>6. <<t[i], s[i]>> \notin R /\ <<s[i], t[i]>> \notin R
    BY <2>2, <2>3, <2>4, <2>5
  <2> QED BY <2>2, <2>3, <2>6 DEF IsOrder
<1>5. t \in [1 .. n -> S]
  BY <1>1, <1>3
<1> QED BY <1>4, <1>5

Ascending(I) == {p \in I \X I : p[1] < p[2]}

LEMMA AscendingIsOrder ==
  ASSUME NEW n \in Nat, NEW I \in SUBSET (1 .. n)
  PROVE  IsFiniteSet(I) /\ IsOrder(Ascending(I), I) /\ \A i, j \in I : <<i, j>> \in Ascending(I) <=> i < j
<1>1. IsFiniteSet(I)
  <2>1. IsFiniteSet(1 .. n)
    BY FS_Interval
  <2> QED BY <2>1, FS_Subset
<1>2. \A i, j \in I : <<i, j>> \in Ascending(I) <=> i < j
  BY DEF Ascending
<1>3. IsOrder(Ascending(I), I)
  BY <1>2 DEF IsOrder
<1> QED BY <1>1, <1>2, <1>3

\* at shows where the items of a part of a list are: in their order, each once.
Places(at, n, I) ==
  /\ n \in Nat /\ at \in [1 .. n -> I]
  /\ \A i \in I : \E k \in 1 .. n : at[k] = i
  /\ \A j, k \in 1 .. n : j < k <=> at[j] < at[k]
  /\ \A j, k \in 1 .. n : at[j] = at[k] => j = k

LEMMA TakenIs ==
  ASSUME NEW X, NEW list \in Seq(X), NEW I \in SUBSET DOMAIN list
  PROVE  LET out == Taken(list, I)
         IN  /\ out \in Seq(X) /\ Len(out) = Cardinality(I) /\ DOMAIN out = 1 .. Len(out)
             /\ \E at : Places(at, Len(out), I) /\ \A k \in 1 .. Len(out) : out[k] = list[at[k]]
<1> DEFINE at == Arranged(I, Ascending(I))
           N == Cardinality(I)
           out == Taken(list, I)
<1>1. IsFiniteSet(I) /\ IsOrder(Ascending(I), I) /\ \A i, j \in I : <<i, j>> \in Ascending(I) <=> i < j
  <2>1. DOMAIN list = 1 .. Len(list) /\ Len(list) \in Nat
    OBVIOUS
  <2> QED BY <2>1, AscendingIsOrder
<1>2. /\ at \in Seq(I) /\ Len(at) = N /\ N \in Nat /\ DOMAIN at = 1 .. N
      /\ \A x \in I : \E i \in DOMAIN at : at[i] = x
      /\ \A i, j \in DOMAIN at : i < j <=> <<at[i], at[j]>> \in Ascending(I)
      /\ \A i, j \in DOMAIN at : at[i] = at[j] => i = j
  BY <1>1, ArrangedIsSorted
<1>3. out = [n \in DOMAIN at |-> list[at[n]]]
  BY DEF Taken, Ascending
<1> HIDE DEF at, N, out
<1>4. at \in [1 .. N -> I] /\ \A k \in 1 .. N : at[k] \in I /\ at[k] \in DOMAIN list
  BY <1>2
<1>5. \A i, j \in 1 .. N : i < j <=> at[i] < at[j]
  BY <1>1, <1>2, <1>4, ZenonT(30)
<1>6. out \in Seq(X) /\ Len(out) = N /\ DOMAIN out = 1 .. N /\ \A k \in 1 .. N : out[k] = list[at[k]]
  <2>1. \A k \in 1 .. N : list[at[k]] \in X
    BY <1>4
  <2>2. out \in [1 .. N -> X] /\ \A k \in 1 .. N : out[k] = list[at[k]]
    BY <1>2, <1>3, <2>1
  <2>3. N \in Nat /\ out \in [1 .. N -> X] => out \in Seq(X) /\ Len(out) = N /\ DOMAIN out = 1 .. N
    OBVIOUS
  <2> QED BY <1>2, <2>2, <2>3
<1>7. Places(at, N, I)
  BY <1>2, <1>4, <1>5 DEF Places
<1> QED BY <1>6, <1>7 DEF out, N

\* Of two of three things, one is less or both are as the third.
IsWeakOrder(W, S) ==
  /\ \A x \in S : <<x, x>> \notin W
  /\ \A x, y, z \in S : <<x, y>> \in W /\ <<y, z>> \in W => <<x, z>> \in W
  /\ \A x, y, z \in S : <<x, y>> \notin W /\ <<y, z>> \notin W => <<x, z>> \notin W

\* sorted: a rearrangement, in which nothing is behind what it is less than, and which is stable.
LEMMA StablyIs ==
  ASSUME NEW X, NEW list \in Seq(X), NEW W, IsWeakOrder(W, DOMAIN list)
  PROVE  LET out == Stably(list, W)
             N == Len(list)
         IN  /\ out \in Seq(X) /\ Len(out) = N /\ N \in Nat
             /\ \E at \in [1 .. N -> 1 .. N] :
                  /\ \A k \in 1 .. N : out[k] = list[at[k]]
                  /\ \A i \in 1 .. N : \E k \in 1 .. N : at[k] = i
                  /\ \A j, k \in 1 .. N : at[j] = at[k] => j = k
                  /\ \A j, k \in 1 .. N : j < k => <<at[k], at[j]>> \notin W
<1> DEFINE N == Len(list)
           P == 1 .. N
           B == {p \in P \X P : p \in W \/ (<<p[2], p[1]>> \notin W /\ p[1] < p[2])}
           at == Arranged(P, B)
           out == Stably(list, W)
<1>1. N \in Nat /\ DOMAIN list = P /\ IsFiniteSet(P) /\ Cardinality(P) = N
  <2>1. N \in Nat /\ DOMAIN list = P
    OBVIOUS
  <2>2. IsFiniteSet(P) /\ Cardinality(P) = IF 1 > N THEN 0 ELSE N - 1 + 1
    BY <2>1, FS_Interval, SMTT(30)
  <2> HIDE DEF N
  <2> QED BY <2>1, <2>2
<1>2. \A i, j \in P : <<i, j>> \in B <=> (<<i, j>> \in W \/ (<<j, i>> \notin W /\ i < j))
  OBVIOUS
<1>3. out = [n \in P |-> list[at[n]]]
  BY <1>1 DEF Stably
<1> HIDE DEF N, B, at, out
<1>4. IsOrder(B, P)
  <2>1. /\ \A x \in P : <<x, x>> \notin W
        /\ \A x, y, z \in P : <<x, y>> \in W /\ <<y, z>> \in W => <<x, z>> \in W
        /\ \A x, y, z \in P : <<x, y>> \notin W /\ <<y, z>> \notin W => <<x, z>> \notin W
    BY <1>1 DEF IsWeakOrder
  <2>2. ASSUME NEW x \in P PROVE <<x, x>> \notin B
    <3>1. ~(x < x) /\ <<x, x>> \notin W
      BY <1>1, <2>1
    <3> QED BY <1>2, <3>1
  <2>3. \A x, y \in P : x # y => <<x, y>> \in B \/ <<y, x>> \in B
    BY <1>1, <1>2
  <2>4. ASSUME NEW x \in P, NEW y \in P, NEW z \in P, <<x, y>> \in B, <<y, z>> \in B
        PROVE  <<x, z>> \in B
    <3>1. x \in Int /\ y \in Int /\ z \in Int
      BY <1>1
    <3>2. <<x, y>> \in W \/ (<<y, x>> \notin W /\ x < y)
      BY <1>2, <2>4
    <3>3. <<y, z>> \in W \/ (<<z, y>> \notin W /\ y < z)
      BY <1>2, <2>4
    <3>4. ~(<<x, y>> \in W /\ <<y, x>> \in W) /\ ~(<<y, z>> \in W /\ <<z, y>> \in W)
      BY <2>1
    <3>5. <<z, x>> \notin W
      BY <2>1, <3>2, <3>3, <3>4
    <3>6. <<x, z>> \in W \/ x < z
      <4>1. CASE <<x, y>> \notin W /\ <<y, z>> \notin W
        BY <3>1, <3>2, <3>3, <4>1
      <4>2. CASE <<x, y>> \in W /\ <<y, z>> \in W
        BY <2>1, <4>2
      <4>3. CASE <<x, y>> \in W /\ <<y, z>> \notin W
        <5>1. <<z, y>> \notin W
          BY <3>3, <4>3
        <5> QED BY <2>1, <4>3, <5>1
      <4>4. CASE <<x, y>> \notin W /\ <<y, z>> \in W
        <5>1. <<y, x>> \notin W
          BY <3>2, <4>4
        <5> QED BY <2>1, <4>4, <5>1
      <4> QED BY <4>1, <4>2, <4>3, <4>4
    <3> QED BY <1>2, <3>5, <3>6
  <2> QED BY <2>2, <2>3, <2>4 DEF IsOrder
<1>5. /\ at \in Seq(P) /\ Len(at) = N /\ DOMAIN at = 1 .. N
      /\ \A x \in P : \E i \in DOMAIN at : at[i] = x
      /\ \A i, j \in DOMAIN at : i < j <=> <<at[i], at[j]>> \in B
      /\ \A i, j \in DOMAIN at : at[i] = at[j] => i = j
  BY <1>1, <1>4, ArrangedIsSorted DEF at
<1>6. at \in [1 .. N -> 1 .. N] /\ \A k \in 1 .. N : at[k] \in P
  <2>1. ASSUME NEW k \in 1 .. N PROVE at[k] \in P
    BY <1>5
  <2>2. at = [k \in 1 .. N |-> at[k]]
    BY <1>5
  <2> QED BY <2>1, <2>2
<1>7. out \in Seq(X) /\ Len(out) = N /\ \A k \in P : out[k] = list[at[k]]
  <2>1. \A k \in P : list[at[k]] \in X
    BY <1>1, <1>6
  <2>2. out \in [1 .. N -> X]
    BY <1>3, <2>1
  <2> QED BY <1>1, <1>3, <2>2
<1>8. \A j, k \in 1 .. N : j < k => <<at[k], at[j]>> \notin W
  <2>1. ASSUME NEW j \in P, NEW k \in P, j < k PROVE <<at[k], at[j]>> \notin W
    <3>1. <<at[j], at[k]>> \in B
      BY <1>5, <2>1
    <3>2. <<at[j], at[k]>> \in W \/ <<at[k], at[j]>> \notin W
      BY <1>2, <1>6, <3>1
    <3>3. <<at[j], at[j]>> \notin W
      BY <1>1, <1>6 DEF IsWeakOrder
    <3>4. ~(<<at[j], at[k]>> \in W /\ <<at[k], at[j]>> \in W)
      BY <1>1, <1>6, <3>3 DEF IsWeakOrder
    <3> QED BY <3>2, <3>4
  <2> QED BY <2>1
<1> QED BY <1>1, <1>5, <1>6, <1>7, <1>8 DEF out, N

-----------------------------------------------------------------------------
(* Rounding                                                                  *)

\* The units of time_utils.py: the spacing of doubles at seconds since 2001 and at Unix
\* times, a microsecond, and the spacing at nanoseconds since 2001.
Spacings == {1953125, 3906250, 16384000, 2097152}

\* A rounded number is a multiple of the spacing, and no farther than half of it.
LEMMA RoundsToNearest ==
  ASSUME NEW x \in Int, NEW q \in Spacings
  PROVE  /\ RoundTo(x, q) \in Int
         /\ 2 * (RoundTo(x, q) - x) <= q /\ 2 * (x - RoundTo(x, q)) <= q
         /\ RoundTo(x, q) % q = 0
<1>1. CASE q = 1953125
  BY <1>1 DEF RoundTo
<1>2. CASE q = 3906250
  BY <1>2 DEF RoundTo
<1>3. CASE q = 16384000
  BY <1>3 DEF RoundTo
<1>4. CASE q = 2097152
  BY <1>4 DEF RoundTo
<1> QED BY <1>1, <1>2, <1>3, <1>4 DEF Spacings

Near(x, y, d) == x - y <= d /\ y - x <= d

\* apple_to_dt moves an instant by less than 679 ns: half of each of three spacings.
LEMMA AppleToDtIsNear ==
  ASSUME NEW ns \in Int
  PROVE  /\ AppleToDt(ns) \in Int
         /\ Near(AppleToDt(ns) * 16384000, ns * 16384, 11121688)
<1> DEFINE x == ns * 16384
           seconds == RoundTo(x, 1953125)
           unix == RoundTo(seconds, 3906250)
           micros == RoundTo(unix, 16384000)
<1>1. seconds \in Int /\ 2 * (seconds - x) <= 1953125 /\ 2 * (x - seconds) <= 1953125
  BY RoundsToNearest DEF Spacings
<1>2. unix \in Int /\ 2 * (unix - seconds) <= 3906250 /\ 2 * (seconds - unix) <= 3906250
  BY <1>1, RoundsToNearest DEF Spacings
<1>3. micros \in Int /\ 2 * (micros - unix) <= 16384000 /\ 2 * (unix - micros) <= 16384000
      /\ micros % 16384000 = 0
  BY <1>2, RoundsToNearest DEF Spacings
<1>4. AppleToDt(ns) = micros \div 16384000
  BY DEF AppleToDt
<1> HIDE DEF seconds, unix, micros
<1> QED BY <1>1, <1>2, <1>3, <1>4 DEF Near

\* dt_to_apple_ns moves one by less than 185 ns.
LEMMA DtToAppleIsNear ==
  ASSUME NEW us \in Int
  PROVE  /\ DtToAppleNs(us) \in Int
         /\ Near(DtToAppleNs(us) * 16384, us * 16384000, 3018085)
<1> DEFINE x == us * 16384000
           unix == RoundTo(x, 3906250)
           nanos == RoundTo(unix, 2097152)
<1>1. unix \in Int /\ 2 * (unix - x) <= 3906250 /\ 2 * (x - unix) <= 3906250
  BY RoundsToNearest DEF Spacings
<1>2. nanos \in Int /\ 2 * (nanos - unix) <= 2097152 /\ 2 * (unix - nanos) <= 2097152
  BY <1>1, RoundsToNearest DEF Spacings
<1>3. DtToAppleNs(us) = nanos \div 16384
  BY DEF DtToAppleNs
<1> HIDE DEF unix, nanos
<1> QED BY <1>1, <1>2, <1>3 DEF Near

\* A number of microseconds comes back from nanoseconds: all roundings together, but for the
\* last, which is to a microsecond, move it by less than half of one.
LEMMA MicrosecondsStay ==
  ASSUME NEW us \in Int
  PROVE  AppleToDt(DtToAppleNs(us)) = us
<1> DEFINE ns == DtToAppleNs(us)
           seconds == RoundTo(ns * 16384, 1953125)
           unix == RoundTo(seconds, 3906250)
           micros == RoundTo(unix, 16384000)
<1>1. ns \in Int /\ Near(ns * 16384, us * 16384000, 3018085)
  BY DtToAppleIsNear DEF Near
<1> HIDE DEF ns
<1>2. seconds \in Int /\ 2 * (seconds - ns * 16384) <= 1953125 /\ 2 * (ns * 16384 - seconds) <= 1953125
  BY <1>1, RoundsToNearest DEF Spacings
<1>3. unix \in Int /\ 2 * (unix - seconds) <= 3906250 /\ 2 * (seconds - unix) <= 3906250
  BY <1>2, RoundsToNearest DEF Spacings
<1>4. micros \in Int /\ 2 * (micros - unix) <= 16384000 /\ 2 * (unix - micros) <= 16384000
      /\ micros % 16384000 = 0
  BY <1>3, RoundsToNearest DEF Spacings
<1>5. AppleToDt(ns) = micros \div 16384000
  BY DEF AppleToDt
<1> HIDE DEF seconds, unix, micros
<1>6. Near(micros, us * 16384000, 16383999)
  BY <1>1, <1>2, <1>3, <1>4 DEF Near
<1>7. micros \div 16384000 = us
  BY <1>4, <1>6 DEF Near
<1> QED BY <1>5, <1>7 DEF ns

\* time_utils.py:8-23, indexer.py:111-139.  Every instant comes back from a datetime within a
\* microsecond, and a watermark that is read and written again stays what it is: it does not
\* drift, however many jobs pass it on.
THEOREM TimesTheorem == LibrarySpec => []TimesAreKept
<1>1. LibraryInit => TimesAreKept
  BY DEF LibraryInit, TimesAreKept, Answered
<1>2. question \in Questions /\ TimesAreKept /\ [LibraryNext]_libraryVars => TimesAreKept'
  <2> SUFFICES ASSUME question \in Questions, TimesAreKept, [LibraryNext]_libraryVars
               PROVE  TimesAreKept'
    OBVIOUS
  <2>1. CASE ConvertTime
    <3>1. question.ns \in Int /\ question' = question
      BY <2>1, QuestionAssumption DEF ConvertTime, Asked, Answers, QuestionAssumption
    <3> DEFINE us == AppleToDt(question.ns)
    <3>2. Reply' = [us |-> us, ns |-> DtToAppleNs(us), again |-> AppleToDt(DtToAppleNs(us))]
      BY <2>1 DEF ConvertTime, Answers, Reply
    <3>3. us \in Int /\ Near(us * 16384000, question.ns * 16384, 11121688)
      BY <3>1, AppleToDtIsNear
    <3> HIDE DEF us
    <3>4. DtToAppleNs(us) \in Int /\ Near(DtToAppleNs(us) * 16384, us * 16384000, 3018085)
      BY <3>3, DtToAppleIsNear
    <3>5. DtToAppleNs(us) - question.ns < 1000 /\ question.ns - DtToAppleNs(us) < 1000
      BY <3>1, <3>3, <3>4 DEF Near
    <3>6. AppleToDt(DtToAppleNs(us)) = us
      BY <3>3, MicrosecondsStay
    <3> QED BY <3>1, <3>2, <3>5, <3>6 DEF TimesAreKept
  <2>2. CASE \/ RankChats \/ ListAll \/ LookUp \/ FindContacts \/ Resolve \/ Stream \/ Count
             \/ ReadText
    <3>1. question'.of # "time"
      BY <2>2 DEF RankChats, ListAll, LookUp, FindContacts, Resolve, Stream, Count, ReadText,
                  Asked, Answers
    <3> QED BY <3>1 DEF TimesAreKept, Answered
  <2>3. CASE UNCHANGED libraryVars
    BY <2>3 DEF libraryVars, TimesAreKept, Answered, Reply
  <2> QED BY <2>1, <2>2, <2>3 DEF LibraryNext
<1> QED BY <1>1, <1>2, QuestionsStay, PTL DEF LibrarySpec

-----------------------------------------------------------------------------
(* ISO strings                                                               *)

\* The first place at which two strings differ decides.
DifferFirst(a, b, n) ==
  n <= Len(a) /\ n <= Len(b) /\ a[n] # b[n] /\ \A j \in 1 .. n - 1 : a[j] = b[j]

LEMMA FirstDifferenceDecides ==
  ASSUME NEW a \in Seq(Nat), NEW b \in Seq(Nat), NEW n \in Nat \ {0}, DifferFirst(a, b, n)
  PROVE  Precedes(a, b) <=> a[n] < b[n]
<1> USE DEF DifferFirst
<1>1. CASE a[n] < b[n]
  BY <1>1 DEF Precedes
<1>2. ASSUME ~(a[n] < b[n]), Precedes(a, b) PROVE FALSE
  <2>1. ASSUME Len(a) < Len(b), SubSeq(b, 1, Len(a)) = a PROVE FALSE
    <3>1. SubSeq(b, 1, Len(a))[n] = b[n]
      BY <2>1
    <3> QED BY <2>1, <3>1
  <2>2. PICK i \in DOMAIN a \cap DOMAIN b : a[i] < b[i] /\ \A j \in 1 .. i - 1 : a[j] = b[j]
    BY <1>2, <2>1 DEF Precedes
  <2>3. i > n
    <3>1. a[i] < b[i] /\ i \in Nat /\ i # 0 /\ \A j \in 1 .. i - 1 : a[j] = b[j]
      <4>1. i \in 1 .. Len(a)
        OBVIOUS
      <4> QED BY ONLY <2>2, <4>1, Len(a) \in Nat
    <3>2. i # n
      BY <1>2, <3>1
    <3>3. ~(i < n)
      BY <3>1
    <3> QED BY ONLY <3>1, <3>2, <3>3, n \in Nat
  <2> QED BY <2>2, <2>3
<1> QED BY <1>1, <1>2

\* tools.py:67-92, snapshot_queries.py:76-88.  The ISO strings of two instants are in the
\* order of the instants, also when one of them has no fraction: "+" is before ".".
THEOREM IsoSortsByTime ==
  ASSUME NEW t \in Moment, NEW u \in Moment
  PROVE  Precedes(Iso(t), Iso(u)) <=> Earlier(t, u)
<1>1. ASSUME NEW w \in Moment
      PROVE  /\ w.us = 0 => Iso(w) = <<w.sec, 43>>
             /\ w.us # 0 => Iso(w) = <<w.sec, 46, w.us>>
             /\ w.sec \in Nat /\ w.us \in Nat
  BY DEF Iso, Moment
<1>2. ASSUME NEW w \in Moment
      PROVE  /\ Iso(w) \in Seq(Nat) /\ Iso(w)[1] = w.sec
             /\ w.us = 0 => Len(Iso(w)) = 2 /\ Iso(w)[2] = 43
             /\ w.us # 0 => Len(Iso(w)) = 3 /\ Iso(w)[2] = 46 /\ Iso(w)[3] = w.us
  <2>1. w.sec \in Nat /\ w.us \in Nat
    BY <1>1
  <2>2. CASE w.us = 0
    <3>1. Iso(w) = <<w.sec, 43>>
      BY <1>1, <2>2
    <3> QED BY ONLY <2>1, <2>2, <3>1
  <2>3. CASE w.us # 0
    <3>1. Iso(w) = <<w.sec, 46, w.us>>
      BY <1>1, <2>3
    <3> QED BY ONLY <2>1, <2>3, <3>1
  <2> QED BY <2>2, <2>3
<1> DEFINE a == Iso(t)
           b == Iso(u)
<1>3. /\ a \in Seq(Nat) /\ b \in Seq(Nat) /\ Len(a) \in {2, 3} /\ Len(b) \in {2, 3}
      /\ a[1] = t.sec /\ b[1] = u.sec /\ t.sec \in Nat /\ u.sec \in Nat /\ t.us \in Nat /\ u.us \in Nat
      /\ t.us = 0 => Len(a) = 2 /\ a[2] = 43
      /\ t.us # 0 => Len(a) = 3 /\ a[2] = 46 /\ a[3] = t.us
      /\ u.us = 0 => Len(b) = 2 /\ b[2] = 43
      /\ u.us # 0 => Len(b) = 3 /\ b[2] = 46 /\ b[3] = u.us
  BY <1>1, <1>2
<1> HIDE DEF a, b
<1>4. CASE t.sec # u.sec
  <2>1. DifferFirst(a, b, 1)
    BY ONLY <1>3, <1>4 DEF DifferFirst
  <2>2. Precedes(a, b) <=> a[1] < b[1]
    BY ONLY <1>3, <2>1, FirstDifferenceDecides
  <2> QED BY <1>3, <1>4, <2>2 DEF Earlier, a, b
<1>5. CASE t.sec = u.sec /\ (t.us = 0) # (u.us = 0)
  <2>1. Precedes(a, b) <=> a[2] < b[2]
    <3>1. a[1] = b[1] /\ a[2] # b[2] /\ 2 <= Len(a) /\ 2 <= Len(b)
      BY ONLY <1>3, <1>5, SMTT(30)
    <3>2. DifferFirst(a, b, 2)
      BY ONLY <1>3, <3>1 DEF DifferFirst
    <3> QED BY ONLY <1>3, <3>2, FirstDifferenceDecides
  <2>2. a[2] < b[2] <=> t.us < u.us
    BY ONLY <1>3, <1>5, SMTT(30)
  <2> QED BY <1>5, <2>1, <2>2, <1>3 DEF Earlier, a, b
<1>6. CASE t.sec = u.sec /\ t.us # 0 /\ u.us # 0 /\ t.us # u.us
  <2>1. Precedes(a, b) <=> a[3] < b[3]
    <3>1. DifferFirst(a, b, 3)
      BY ONLY <1>3, <1>6 DEF DifferFirst
    <3> QED BY ONLY <1>3, <3>1, FirstDifferenceDecides
  <2> QED BY <1>3, <1>6, <2>1 DEF Earlier, a, b
<1>7. CASE t.sec = u.sec /\ t.us = u.us
  <2>1. a = b
    BY <1>1, <1>7 DEF a, b
  <2>2. ~Precedes(a, b)
    BY <1>3, <2>1 DEF Precedes
  <2> QED BY <1>3, <1>7, <2>2 DEF Earlier, a, b
<1> QED BY <1>3, <1>4, <1>5, <1>6, <1>7 DEF a, b

-----------------------------------------------------------------------------
(* Texts                                                                     *)

\* What is declared in front of a text is read as its length, in one byte or in two.
LEMMA LengthIsRead ==
  ASSUME NEW n \in Nat, n <= 65535, NEW size \in Nat, n <= size
  PROVE  ByteScan(Declares(n), size) = n
<1>1. CASE n < 128
  <2>1. Declares(n) = <<n>>
    BY <1>1 DEF Declares
  <2>2. ByteScan(<<n>>, size) = Shorter(n, size)
    BY <1>1 DEF ByteScan
  <2> QED BY <2>1, <2>2 DEF Shorter
<1>2. CASE n >= 128
  <2>1. Declares(n) = <<129, n % 256, n \div 256>>
    BY <1>2 DEF Declares
  <2>2. ByteScan(<<129, n % 256, n \div 256>>, size) = Shorter((n % 256) + 256 * (n \div 256), size)
    BY DEF ByteScan
  <2>3. (n % 256) + 256 * (n \div 256) = n
    OBVIOUS
  <2> QED BY <2>1, <2>2, <2>3 DEF Shorter
<1> QED BY <1>1, <1>2

LEMMA BodyIsRead ==
  ASSUME NEW body, Complete(body)
  PROVE  DecodeBody(body) = IF body.archive = "absent" THEN 0 ELSE body.text
<1>1. CASE body.archive = "raises"
  BY <1>1, LengthIsRead DEF Complete, DecodeBody
<1>2. CASE body.archive # "raises"
  BY <1>2 DEF Complete, DecodeBody
<1> QED BY <1>1, <1>2

\* decoder.py:13-50, queries.py:274-279, tools.py:172-174.  The text of a message is found
\* whatever typedstream makes of its body, for every length the scan can read, and a hit shows
\* the text that was indexed.
THEOREM TextTheorem == LibrarySpec => []TextIsRecovered
<1>1. LibraryInit => TextIsRecovered
  BY DEF LibraryInit, TextIsRecovered, Answered
<1>2. question \in Questions /\ TextIsRecovered /\ [LibraryNext]_libraryVars => TextIsRecovered'
  <2> SUFFICES ASSUME question \in Questions, TextIsRecovered, [LibraryNext]_libraryVars
               PROVE  TextIsRecovered'
    OBVIOUS
  <2>1. CASE ReadText
    <3> DEFINE r == question.row
    <3>1. question' = question /\ Reply' = [stream |-> TextOf(r), hit |-> HitText(r)]
      BY <2>1 DEF ReadText, Asked, Answers, Reply
    <3>2. r.text \in Nat \cup {Blank} /\ Complete(r.body)
      BY <2>1, QuestionAssumption DEF ReadText, Asked, QuestionAssumption
    <3>3. DecodeBody(r.body) = IF r.body.archive = "absent" THEN 0 ELSE r.body.text
      BY <3>2, BodyIsRead
    <3> QED BY <3>1, <3>2, <3>3 DEF TextIsRecovered, TextOf, HitText, Blank
  <2>2. CASE \/ ConvertTime \/ RankChats \/ ListAll \/ LookUp \/ FindContacts \/ Resolve
             \/ Stream \/ Count
    <3>1. question'.of # "text"
      BY <2>2 DEF ConvertTime, RankChats, ListAll, LookUp, FindContacts, Resolve, Stream, Count,
                  Asked, Answers
    <3> QED BY <3>1 DEF TextIsRecovered, Answered
  <2>3. CASE UNCHANGED libraryVars
    BY <2>3 DEF libraryVars, TextIsRecovered, Answered, Reply
  <2> QED BY <2>1, <2>2, <2>3 DEF LibraryNext
<1> QED BY <1>1, <1>2, QuestionsStay, PTL DEF LibrarySpec

-----------------------------------------------------------------------------
(* Lists of chats                                                            *)

Stamp(last) == IF last = <<>> THEN <<>> ELSE Iso(Head(last))
Lasts == {last \in Seq(Moment) : Len(last) <= 1}

\* of two latest activities, the first is before the second; none at all is before any
Staler(last, other) == other # <<>> /\ (last = <<>> \/ Earlier(Head(last), Head(other)))

LEMMA StampsSort ==
  ASSUME NEW last \in Lasts, NEW other \in Lasts
  PROVE  Precedes(Stamp(last), Stamp(other)) <=> Staler(last, other)
<1>1. ASSUME NEW t \in Moment PROVE Iso(t) \in Seq(Nat) /\ Len(Iso(t)) > 0 /\ Iso(t) # <<>>
  <2>1. t.sec \in Nat /\ t.us \in Nat
    BY DEF Moment
  <2>2. CASE t.us = 0
    <3>1. Iso(t) = <<t.sec, 43>>
      BY <2>2 DEF Iso
    <3> QED BY ONLY <2>1, <3>1
  <2>3. CASE t.us # 0
    <3>1. Iso(t) = <<t.sec, 46, t.us>>
      BY <2>3 DEF Iso
    <3> QED BY ONLY <2>1, <3>1
  <2> QED BY <2>2, <2>3
<1>2. \A l \in Lasts : l # <<>> => Head(l) \in Moment
  BY DEF Lasts
<1>3. CASE last # <<>> /\ other # <<>>
  <2>1. Head(last) \in Moment /\ Head(other) \in Moment
    BY <1>2, <1>3
  <2>2. Precedes(Iso(Head(last)), Iso(Head(other))) <=> Earlier(Head(last), Head(other))
    BY <2>1, IsoSortsByTime
  <2> QED BY <1>3, <2>2 DEF Stamp, Staler
<1>4. CASE last = <<>> /\ other # <<>>
  <2>1. Iso(Head(other)) \in Seq(Nat) /\ Len(Iso(Head(other))) > 0
    BY <1>1, <1>2, <1>4
  <2>2. Len(<<>>) = 0 /\ SubSeq(Iso(Head(other)), 1, 0) = <<>>
    BY <2>1
  <2>3. Precedes(<<>>, Iso(Head(other)))
    BY <2>1, <2>2 DEF Precedes
  <2> QED BY <1>4, <2>3 DEF Stamp, Staler
<1>5. CASE other = <<>>
  <2>1. Stamp(last) \in Seq(Nat) /\ Len(Stamp(last)) >= 0
    <3>1. CASE last = <<>>
      BY <3>1 DEF Stamp
    <3>2. CASE last # <<>>
      BY <1>1, <1>2, <3>2 DEF Stamp
    <3> QED BY <3>1, <3>2
  <2>2. ~Precedes(Stamp(last), <<>>)
    BY <2>1 DEF Precedes
  <2> QED BY <1>5, <2>2 DEF Stamp, Staler
<1> QED BY <1>3, <1>4, <1>5

LEMMA StalerIsWeak ==
  ASSUME NEW l \in Lasts, NEW m \in Lasts, NEW n \in Lasts
  PROVE  /\ ~Staler(l, l)
         /\ Staler(l, m) /\ Staler(m, n) => Staler(l, n)
         /\ ~Staler(l, m) /\ ~Staler(m, n) => ~Staler(l, n)
<1>1. \A k \in Lasts : k # <<>> => Head(k).sec \in Int /\ Head(k).us \in Int
  <2>1. ASSUME NEW k \in Lasts, k # <<>> PROVE Head(k).sec \in Int /\ Head(k).us \in Int
    <3>1. Head(k) \in Moment
      BY <2>1 DEF Lasts
    <3> QED BY <3>1 DEF Moment
  <2> QED BY <2>1
<1> QED BY <1>1 DEF Staler, Earlier

LEMMA AtmostIs ==
  ASSUME NEW X, NEW s \in Seq(X), NEW limit \in Nat
  PROVE  /\ Atmost(limit, s) \in Seq(X) /\ Len(Atmost(limit, s)) = Shorter(limit, Len(s))
         /\ \A i \in 1 .. Len(Atmost(limit, s)) : i \in 1 .. Len(s) /\ Atmost(limit, s)[i] = s[i]
<1>1. CASE limit < Len(s)
  <2>1. Atmost(limit, s) = SubSeq(s, 1, limit)
    BY <1>1 DEF Atmost
  <2> QED BY <1>1, <2>1 DEF Shorter
<1>2. CASE ~(limit < Len(s))
  <2>1. Atmost(limit, s) = SubSeq(s, 1, Len(s))
    BY <1>2 DEF Atmost
  <2> QED BY <1>2, <2>1 DEF Shorter
<1> QED BY <1>1, <1>2

\* A list without repetitions has as many items as it has places.
LEMMA DistinctCount ==
  ASSUME NEW X, NEW s \in Seq(X), \A i, j \in DOMAIN s : s[i] = s[j] => i = j
  PROVE  IsFiniteSet(ToSet(s)) /\ Cardinality(ToSet(s)) = Len(s)
<1>1. Len(s) \in Nat /\ DOMAIN s = 1 .. Len(s) /\ s \in [1 .. Len(s) -> ToSet(s)]
  BY DEF ToSet
<1>2. \A x \in ToSet(s) : \E i \in 1 .. Len(s) : s[i] = x
  BY <1>1 DEF ToSet
<1>3. s \in Bijection(1 .. Len(s), ToSet(s))
  BY <1>1, <1>2 DEF Bijection, Injection, Surjection, IsInjective
<1> HIDE DEF ToSet
<1>4. ExistsBijection(1 .. Len(s), ToSet(s))
  BY <1>3 DEF ExistsBijection
<1>5. Cardinality(ToSet(s)) = Len(s)
  BY <1>1, <1>4, FS_CountingElements
<1>6. IsFiniteSet(ToSet(s))
  BY <1>1, <1>4, FS_NatBijection
<1> QED BY <1>5, <1>6

\* The first items of a list, sorted by descending latest activity, are the latest.
LEMMA RecentIsLatest ==
  ASSUME NEW X, NEW list \in Seq(X), \A i, j \in DOMAIN list : list[i] = list[j] => i = j,
         NEW L \in [X -> Lasts], NEW limit \in Nat, NEW W,
         \A i, j \in DOMAIN list : <<i, j>> \in W <=> Staler(L[list[j]], L[list[i]])
  PROVE  LET out == Atmost(limit, Stably(list, W))
         IN  /\ ToSet(out) \subseteq ToSet(list) /\ Cardinality(ToSet(out)) = Len(out)
             /\ Len(out) = Shorter(limit, Cardinality(ToSet(list)))
             /\ \A i \in DOMAIN out, a \in ToSet(list) :
                  a \notin {out[j] : j \in 1 .. i} => ~Staler(L[out[i]], L[a])
<1> DEFINE D == 1 .. Len(list)
           all == Stably(list, W)
           out == Atmost(limit, all)
<1>1. Len(list) \in Nat /\ DOMAIN list = D /\ \A i \in D : list[i] \in X /\ L[list[i]] \in Lasts
  OBVIOUS
<1>2. IsWeakOrder(W, DOMAIN list)
  <2>1. ASSUME NEW x \in D, NEW y \in D, NEW z \in D
        PROVE  /\ <<x, x>> \notin W
               /\ <<x, y>> \in W /\ <<y, z>> \in W => <<x, z>> \in W
               /\ <<x, y>> \notin W /\ <<y, z>> \notin W => <<x, z>> \notin W
    <3> DEFINE lx == L[list[x]]
               ly == L[list[y]]
               lz == L[list[z]]
    <3>1. lx \in Lasts /\ ly \in Lasts /\ lz \in Lasts
      BY <1>1
    <3>2. /\ <<x, x>> \in W <=> Staler(lx, lx)
          /\ <<x, y>> \in W <=> Staler(ly, lx)
          /\ <<y, z>> \in W <=> Staler(lz, ly)
          /\ <<x, z>> \in W <=> Staler(lz, lx)
      BY <1>1
    <3> HIDE DEF lx, ly, lz
    <3>3. ~Staler(lx, lx) /\ (Staler(lz, ly) /\ Staler(ly, lx) => Staler(lz, lx))
          /\ (~Staler(lz, ly) /\ ~Staler(ly, lx) => ~Staler(lz, lx))
      BY <3>1, StalerIsWeak
    <3> QED BY <3>2, <3>3
  <2> QED BY <1>1, <2>1 DEF IsWeakOrder
<1>3. all \in Seq(X) /\ Len(all) = Len(list)
  BY <1>2, StablyIs
<1>4. PICK at \in [D -> D] : /\ \A k \in D : all[k] = list[at[k]]
                             /\ \A i \in D : \E k \in D : at[k] = i
                             /\ \A j, k \in D : at[j] = at[k] => j = k
                             /\ \A j, k \in D : j < k => <<at[k], at[j]>> \notin W
  BY <1>2, StablyIs
<1> HIDE DEF all
<1>5. /\ out \in Seq(X) /\ Len(out) = Shorter(limit, Len(list))
      /\ \A i \in 1 .. Len(out) : i \in D /\ out[i] = all[i]
  BY <1>3, AtmostIs
<1> HIDE DEF out
<1>6. DOMAIN out = 1 .. Len(out) /\ Len(out) \in Nat
  BY <1>5
<1>7. \A i \in 1 .. Len(out) : i \in D /\ at[i] \in D /\ out[i] = list[at[i]]
  BY <1>4, <1>5
<1>8. \A i, j \in DOMAIN out : out[i] = out[j] => i = j
  BY <1>1, <1>4, <1>6, <1>7
<1>9. Cardinality(ToSet(out)) = Len(out)
  BY <1>5, <1>8, DistinctCount
<1>10. Cardinality(ToSet(list)) = Len(list)
  BY DistinctCount
<1>11. ToSet(out) \subseteq ToSet(list)
  BY <1>1, <1>6, <1>7 DEF ToSet
<1>12. ASSUME NEW i \in DOMAIN out, NEW a \in ToSet(list), a \notin {out[j] : j \in 1 .. i}
       PROVE  ~Staler(L[out[i]], L[a])
  <2>1. PICK n \in D : a = list[n]
    BY <1>1 DEF ToSet
  <2>2. PICK k \in D : at[k] = n
    BY <1>4
  <2>3. i \in 1 .. Len(out) /\ i \in D /\ out[i] = list[at[i]] /\ at[i] \in D
    BY <1>6, <1>7
  <2>4. ~(k <= i)
    <3> SUFFICES ASSUME k <= i PROVE FALSE
      OBVIOUS
    <3>1. k \in 1 .. i /\ k \in 1 .. Len(out)
      BY <1>6, <2>3
    <3>2. out[k] = a
      BY <1>7, <2>1, <2>2, <3>1
    <3> QED BY <1>12, <3>1, <3>2
  <2>5. <<at[k], at[i]>> \notin W
    BY <1>1, <1>4, <2>3, <2>4
  <2>6. <<at[k], at[i]>> \in W <=> Staler(L[list[at[i]]], L[list[at[k]]])
    BY <1>1, <2>2, <2>3
  <2> QED BY <2>1, <2>2, <2>3, <2>5, <2>6
<1> QED BY <1>5, <1>9, <1>10, <1>11, <1>12 DEF out, all

\* The items of the places of a list without repetitions.
LEMMA TakenAreThose ==
  ASSUME NEW X, NEW list \in Seq(X), \A i, j \in DOMAIN list : list[i] = list[j] => i = j,
         NEW I \in SUBSET DOMAIN list
  PROVE  LET out == Taken(list, I)
         IN  /\ out \in Seq(X) /\ \A i, j \in DOMAIN out : out[i] = out[j] => i = j
             /\ ToSet(out) = {list[i] : i \in I}
<1> DEFINE out == Taken(list, I)
<1>1. out \in Seq(X) /\ DOMAIN out = 1 .. Len(out)
  BY TakenIs
<1>2. PICK at : Places(at, Len(out), I) /\ \A k \in 1 .. Len(out) : out[k] = list[at[k]]
  BY TakenIs
<1> HIDE DEF out
<1>3. \A k \in 1 .. Len(out) : at[k] \in I
  BY <1>2 DEF Places
<1>4. \A i, j \in DOMAIN out : out[i] = out[j] => i = j
  BY <1>1, <1>2, <1>3 DEF Places
<1>5. ToSet(out) = {list[i] : i \in I}
  <2>1. ToSet(out) \subseteq {list[i] : i \in I}
    BY <1>1, <1>2, <1>3 DEF ToSet
  <2>2. ASSUME NEW i \in I PROVE list[i] \in ToSet(out)
    <3>1. PICK k \in 1 .. Len(out) : at[k] = i
      BY <1>2 DEF Places
    <3> QED BY <1>1, <1>2, <3>1 DEF ToSet
  <2> QED BY <2>1, <2>2
<1> QED BY <1>1, <1>4, <1>5 DEF out

LEMMA SummariesAreTyped ==
  ASSUME NEW summaries, Summarised(summaries)
  PROVE  /\ summaries \in Seq(Summary)
         /\ \A i, j \in DOMAIN summaries : summaries[i].guid = summaries[j].guid => i = j
         /\ \A s \in ToSet(summaries) : s \in Summary /\ s.last \in Lasts
<1>1. /\ summaries \in Seq(Summary)
      /\ \A i, j \in DOMAIN summaries : summaries[i].guid = summaries[j].guid => i = j
      /\ \A i \in DOMAIN summaries : Len(summaries[i].last) <= 1
  BY DEF Summarised, Table
<1>2. \A i \in DOMAIN summaries : summaries[i] \in Summary
  BY <1>1
<1>3. \A i \in DOMAIN summaries : summaries[i].last \in Seq(Moment)
  BY <1>2 DEF Summary
<1> QED BY <1>1, <1>2, <1>3 DEF ToSet, Lasts

LEMMA RecentChatsAreLatest ==
  ASSUME NEW summaries, Summarised(summaries), NEW least \in Nat, NEW limit \in Nat
  PROVE  RecentlyFirst(RecentChats(summaries, least, limit), summaries, least, limit)
<1> DEFINE X == ToSet(summaries)
           I == {i \in DOMAIN summaries : summaries[i].count >= least}
           list == Taken(summaries, I)
           places == DOMAIN list
           W == {p \in places \X places : Precedes(LastAt(list[p[2]]), LastAt(list[p[1]]))}
           L == [s \in X |-> s.last]
           out == Atmost(limit, Stably(list, W))
<1>1. out = RecentChats(summaries, least, limit)
  BY DEF RecentChats, ByRecency, Sorted, Filtered
<1>2. /\ summaries \in Seq(Summary) /\ \A s \in X : s \in Summary /\ s.last \in Lasts
      /\ \A i, j \in DOMAIN summaries : summaries[i].guid = summaries[j].guid => i = j
  BY SummariesAreTyped
<1>3. summaries \in Seq(X) /\ \A i, j \in DOMAIN summaries : summaries[i] = summaries[j] => i = j
  BY <1>2 DEF ToSet
<1>4. /\ list \in Seq(X) /\ ToSet(list) = {summaries[i] : i \in I}
      /\ \A i, j \in DOMAIN list : list[i] = list[j] => i = j
  <2>1. I \in SUBSET DOMAIN summaries
    OBVIOUS
  <2> HIDE DEF I
  <2> QED BY <1>3, <2>1, TakenAreThose
<1>5. ToSet(list) = {s \in X : s.count >= least}
  <2>1. {summaries[i] : i \in I} = {s \in X : s.count >= least}
    BY DEF ToSet
  <2> QED BY <1>4, <2>1
<1>6. L \in [X -> Lasts]
  BY <1>2
<1>12. \A i, j \in DOMAIN list : <<i, j>> \in W <=> Precedes(LastAt(list[j]), LastAt(list[i]))
  OBVIOUS
<1> HIDE DEF list, X, W
<1>7. \A i \in DOMAIN list : list[i] \in X
  BY <1>4
<1>8. \A i, j \in DOMAIN list : <<i, j>> \in W <=> Staler(L[list[j]], L[list[i]])
  <2>1. \A s, t \in X : Precedes(LastAt(s), LastAt(t)) <=> Staler(s.last, t.last)
    <3>1. \A s \in X : LastAt(s) = Stamp(s.last)
      BY DEF LastAt, Stamp
    <3> QED BY <1>2, <3>1, StampsSort
  <2>2. \A s \in X : L[s] = s.last
    OBVIOUS
  <2> HIDE DEF L
  <2>3. ASSUME NEW i \in DOMAIN list, NEW j \in DOMAIN list
        PROVE  <<i, j>> \in W <=> Staler(L[list[j]], L[list[i]])
    <3>1. list[i] \in X /\ list[j] \in X
      BY <1>7
    <3>2. Precedes(LastAt(list[j]), LastAt(list[i])) <=> Staler(L[list[j]], L[list[i]])
      BY <2>1, <2>2, <3>1
    <3> QED BY <1>12, <3>2
  <2> QED BY <2>3
<1> HIDE DEF L
<1>9. /\ ToSet(out) \subseteq ToSet(list) /\ Cardinality(ToSet(out)) = Len(out)
      /\ Len(out) = Shorter(limit, Cardinality(ToSet(list)))
      /\ \A i \in DOMAIN out, a \in ToSet(list) :
           a \notin {out[j] : j \in 1 .. i} => ~Staler(L[out[i]], L[a])
  BY <1>4, <1>6, <1>8, RecentIsLatest
<1>10. \A i \in DOMAIN out : out[i] \in ToSet(list)
  BY <1>9 DEF ToSet
<1>11. \A s \in X : L[s] = s.last
  BY DEF L
<1> DEFINE all == {s \in X : s.count >= least}
<1> HIDE DEF out
<1>13. /\ ToSet(out) \subseteq all /\ Cardinality(ToSet(out)) = Len(out)
       /\ Len(out) = Shorter(limit, Cardinality(all))
  BY <1>5, <1>9
<1>14. \A i \in DOMAIN out, a \in all :
         a \notin {out[j] : j \in 1 .. i} => ~Staler(out[i].last, a.last)
  BY <1>5, <1>9, <1>10, <1>11
<1> HIDE DEF all
<1>15. LatestFirst(out, all, limit, LAMBDA s : s.last)
  BY <1>13, <1>14 DEF LatestFirst, Staler
<1> QED BY <1>1, <1>15 DEF all, X, RecentlyFirst

LEMMA FirstThatIs ==
  ASSUME NEW n \in Nat, NEW I \in SUBSET (1 .. n), I # {}
  PROVE  Min(I) \in I /\ \A i \in I : Min(I) <= i
<1> DEFINE at == Arranged(I, Ascending(I))
<1>1. IsFiniteSet(I) /\ IsOrder(Ascending(I), I) /\ \A i, j \in I : <<i, j>> \in Ascending(I) <=> i < j
  BY AscendingIsOrder
<1>2. /\ at \in Seq(I) /\ Len(at) = Cardinality(I) /\ Cardinality(I) \in Nat
      /\ DOMAIN at = 1 .. Cardinality(I)
      /\ \A x \in I : \E i \in DOMAIN at : at[i] = x
      /\ \A i, j \in DOMAIN at : i < j <=> <<at[i], at[j]>> \in Ascending(I)
      /\ \A i, j \in DOMAIN at : at[i] = at[j] => i = j
  BY <1>1, ArrangedIsSorted
<1> HIDE DEF at
<1>3. 1 \in DOMAIN at /\ at[1] \in I
  <2>1. Cardinality(I) # 0
    BY <1>1, FS_EmptySet
  <2> QED BY <1>2, <2>1
<1>4. ASSUME NEW i \in I PROVE at[1] <= i
  <2>0. i \in 1 .. n /\ at[1] \in 1 .. n
    BY ONLY <1>3, i \in I, I \in SUBSET (1 .. n)
  <2>1. PICK k \in DOMAIN at : at[k] = i
    BY <1>2
  <2>2. k = 1 \/ 1 < k
    BY <1>2
  <2>3. 1 < k => at[1] < i
    BY <1>1, <1>2, <1>3, <2>1
  <2> QED BY <2>0, <2>1, <2>2, <2>3
<1> QED BY <1>3, <1>4 DEF Min

LEMMA OwnStamp ==
  ASSUME NEW summaries, Summarised(summaries), NEW c
  PROVE  LET n == SelectInSeq(summaries, LAMBDA s : s.guid = c.guid)
         IN  /\ OwnLast(summaries, c) \in Lasts
             /\ (IF n = 0 THEN <<>> ELSE LastAt(summaries[n])) = Stamp(OwnLast(summaries, c))
<1> DEFINE I == {i \in 1 .. Len(summaries) : summaries[i].guid = c.guid}
           n == SelectInSeq(summaries, LAMBDA s : s.guid = c.guid)
           own == {s \in ToSet(summaries) : s.guid = c.guid}
<1>1. /\ summaries \in Seq(Summary) /\ \A s \in ToSet(summaries) : s \in Summary /\ s.last \in Lasts
      /\ \A i, j \in DOMAIN summaries : summaries[i].guid = summaries[j].guid => i = j
  BY SummariesAreTyped
<1>2. DOMAIN summaries = 1 .. Len(summaries) /\ Len(summaries) \in Nat
  BY <1>1
<1>3. n = IF I # {} THEN Min(I) ELSE 0
  BY DEF SelectInSeq
<1>4. CASE I = {}
  <2>1. own = {}
    BY <1>2, <1>4 DEF ToSet
  <2>2. <<>> \in Lasts
    BY DEF Lasts
  <2> QED BY <1>3, <1>4, <2>1, <2>2 DEF OwnLast, Stamp
<1>5. CASE I # {}
  <2>1. n \in I
    BY <1>2, <1>3, <1>5, FirstThatIs
  <2>2. n \in DOMAIN summaries /\ summaries[n].guid = c.guid /\ n # 0
    BY <1>2, <2>1
  <2>3. own = {summaries[n]}
    BY <1>1, <2>2 DEF ToSet
  <2>4. OwnLast(summaries, c) = summaries[n].last
    BY <2>3 DEF OwnLast
  <2>5. summaries[n].last \in Lasts
    BY <1>1, <2>2 DEF ToSet
  <2> QED BY <2>2, <2>4, <2>5 DEF LastAt, Stamp
<1> QED BY <1>4, <1>5

LEMMA ListedAreLatest ==
  ASSUME NEW chats, Table(chats, Chat), NEW summaries, Summarised(summaries),
         NEW groupOnly \in BOOLEAN, NEW limit \in Nat
  PROVE  ListedFirst(ListChats(chats, summaries, groupOnly, limit), chats, summaries, groupOnly,
                     limit)
<1> DEFINE X == ToSet(chats)
           I == {i \in DOMAIN chats : groupOnly => chats[i].style = "group"}
           list == Taken(chats, I)
           places == DOMAIN list
           Latest(c) == LET n == SelectInSeq(summaries, LAMBDA s : s.guid = c.guid)
                        IN  IF n = 0 THEN <<>> ELSE LastAt(summaries[n])
           W == {p \in places \X places : Precedes(Latest(list[p[2]]), Latest(list[p[1]]))}
           L == [c \in X |-> OwnLast(summaries, c)]
           out == Atmost(limit, Stably(list, W))
<1>1. out = ListChats(chats, summaries, groupOnly, limit)
  BY DEF ListChats, ByRecency, Sorted, Filtered
<1>2. /\ chats \in Seq(Chat)
      /\ \A i, j \in DOMAIN chats : chats[i].guid = chats[j].guid => i = j
  BY DEF Table
<1>3. chats \in Seq(X) /\ \A i, j \in DOMAIN chats : chats[i] = chats[j] => i = j
  BY <1>2 DEF ToSet
<1>4. /\ list \in Seq(X) /\ ToSet(list) = {chats[i] : i \in I}
      /\ \A i, j \in DOMAIN list : list[i] = list[j] => i = j
  <2>1. I \in SUBSET DOMAIN chats
    OBVIOUS
  <2> HIDE DEF I
  <2> QED BY <1>3, <2>1, TakenAreThose
<1>5. ToSet(list) = {c \in X : groupOnly => c.style = "group"}
  <2>1. {chats[i] : i \in I} = {c \in X : groupOnly => c.style = "group"}
    BY DEF ToSet
  <2> QED BY <1>4, <2>1
<1>6. \A c : OwnLast(summaries, c) \in Lasts /\ Latest(c) = Stamp(OwnLast(summaries, c))
  <2>1. ASSUME NEW c PROVE OwnLast(summaries, c) \in Lasts /\ Latest(c) = Stamp(OwnLast(summaries, c))
    BY OwnStamp
  <2> HIDE DEF Latest
  <2> QED BY <2>1
<1>7. L \in [X -> Lasts]
  BY <1>6
<1> HIDE DEF Latest
<1>8. \A i, j \in DOMAIN list : <<i, j>> \in W <=> Precedes(Latest(list[j]), Latest(list[i]))
  OBVIOUS
<1> HIDE DEF list, X, W
<1>9. \A i \in DOMAIN list : list[i] \in X
  BY <1>4
<1>10. \A i, j \in DOMAIN list : <<i, j>> \in W <=> Staler(L[list[j]], L[list[i]])
  <2>1. \A c, d \in X : Precedes(Latest(c), Latest(d)) <=> Staler(L[c], L[d])
    BY <1>6, StampsSort
  <2> HIDE DEF L
  <2>2. ASSUME NEW i \in DOMAIN list, NEW j \in DOMAIN list
        PROVE  <<i, j>> \in W <=> Staler(L[list[j]], L[list[i]])
    <3>1. list[i] \in X /\ list[j] \in X
      BY <1>9
    <3> QED BY <1>8, <2>1, <3>1
  <2> QED BY <2>2
<1> HIDE DEF L
<1>11. /\ ToSet(out) \subseteq ToSet(list) /\ Cardinality(ToSet(out)) = Len(out)
       /\ Len(out) = Shorter(limit, Cardinality(ToSet(list)))
       /\ \A i \in DOMAIN out, a \in ToSet(list) :
            a \notin {out[j] : j \in 1 .. i} => ~Staler(L[out[i]], L[a])
  BY <1>4, <1>7, <1>10, RecentIsLatest
<1>12. \A i \in DOMAIN out : out[i] \in ToSet(list)
  BY <1>11 DEF ToSet
<1>13. \A c \in X : L[c] = OwnLast(summaries, c)
  BY DEF L
<1> DEFINE all == {c \in X : groupOnly => c.style = "group"}
<1> HIDE DEF out
<1>14. /\ ToSet(out) \subseteq all /\ Cardinality(ToSet(out)) = Len(out)
       /\ Len(out) = Shorter(limit, Cardinality(all))
  BY <1>5, <1>11
<1>15. \A i \in DOMAIN out, a \in all :
         a \notin {out[j] : j \in 1 .. i} => ~Staler(OwnLast(summaries, out[i]), OwnLast(summaries, a))
  BY <1>5, <1>11, <1>12, <1>13
<1> HIDE DEF all
<1>16. LatestFirst(out, all, limit, LAMBDA c : OwnLast(summaries, c))
  BY <1>14, <1>15 DEF LatestFirst, Staler
<1> QED BY <1>1, <1>16 DEF all, X, ListedFirst

\* snapshot_queries.py:76-88, tools.py:67-92.  However many chats there are and whenever their
\* messages were sent, ranking by ISO strings is ranking by time: a chat that comes later, or is
\* left out of the most recent ones, has too few messages or no later activity than each of
\* those before it.
THEOREM RecentTheorem == LibrarySpec => []RecentAreRecent
<1>1. LibraryInit => RecentAreRecent
  BY DEF LibraryInit, RecentAreRecent, Answered
<1>2. question \in Questions /\ RecentAreRecent /\ [LibraryNext]_libraryVars => RecentAreRecent'
  <2> SUFFICES ASSUME question \in Questions, RecentAreRecent, [LibraryNext]_libraryVars
               PROVE  RecentAreRecent'
    OBVIOUS
  <2>1. CASE RankChats
    <3>1. /\ question' = question /\ question.of = "recent"
          /\ Reply' = RecentChats(question.summaries, question.least, question.limit)
      BY <2>1 DEF RankChats, Asked, Answers, Reply
    <3>2. Summarised(question.summaries) /\ question.least \in Nat /\ question.limit \in Nat
      BY <3>1, QuestionAssumption DEF QuestionAssumption
    <3>3. RecentlyFirst(Reply', question.summaries, question.least, question.limit)
      BY <3>1, <3>2, RecentChatsAreLatest
    <3> QED BY <3>1, <3>3 DEF RecentAreRecent, Answered
  <2>2. CASE ListAll
    <3>1. /\ question' = question /\ question.of = "list"
          /\ Reply' = ListChats(question.chats, question.summaries, question.groupOnly, question.limit)
      BY <2>2 DEF ListAll, Asked, Answers, Reply
    <3>2. /\ Table(question.chats, Chat) /\ Summarised(question.summaries)
          /\ question.groupOnly \in BOOLEAN /\ question.limit \in Nat
      BY <3>1, QuestionAssumption DEF QuestionAssumption
    <3>3. ListedFirst(Reply', question.chats, question.summaries, question.groupOnly, question.limit)
      BY <3>1, <3>2, ListedAreLatest
    <3> QED BY <3>1, <3>3 DEF RecentAreRecent, Answered
  <2>3. CASE ConvertTime \/ LookUp \/ FindContacts \/ Resolve \/ Stream \/ Count \/ ReadText
    <3>1. question'.of \notin {"recent", "list"}
      BY <2>3 DEF ConvertTime, LookUp, FindContacts, Resolve, Stream, Count, ReadText, Asked, Answers
    <3> QED BY <3>1 DEF RecentAreRecent, Answered
  <2>4. CASE UNCHANGED libraryVars
    BY <2>4 DEF libraryVars, RecentAreRecent, Answered, Reply
  <2> QED BY <2>1, <2>2, <2>3, <2>4 DEF LibraryNext
<1> QED BY <1>1, <1>2, QuestionsStay, PTL DEF LibrarySpec

-----------------------------------------------------------------------------
(* Which chat is meant                                                       *)

\* The first chat of some places.
GuidAt(chats, I) == IF I = {} THEN NoGuid ELSE chats[Min(I)].guid

LEMMA GuidAtIs ==
  ASSUME NEW chats, Table(chats, Chat), NEW I \in SUBSET DOMAIN chats
  PROVE  /\ I = {} => GuidAt(chats, I) = NoGuid
         /\ I # {} => \E i \in I : /\ \A j \in I : i <= j
                                   /\ GuidAt(chats, I) = chats[i].guid /\ chats[i].guid # NoGuid
<1>1. chats \in Seq(Chat) /\ DOMAIN chats = 1 .. Len(chats) /\ Len(chats) \in Nat
  BY DEF Table
<1>2. \A i \in DOMAIN chats : chats[i].guid # NoGuid
  <2>1. ASSUME NEW i \in DOMAIN chats PROVE chats[i].guid # NoGuid
    <3>1. chats[i] \in Chat
      BY <1>1
    <3> QED BY <3>1 DEF Chat, Guids, NoOne, NoGuid
  <2> QED BY <2>1
<1>3. I # {} => Min(I) \in I /\ \A i \in I : Min(I) <= i
  BY <1>1, FirstThatIs
<1> QED BY <1>2, <1>3 DEF GuidAt

Named(chats, x) == {i \in DOMAIN chats : chats[i].identifier = x}
OfParty(chats, x) == {i \in DOMAIN chats : x \in chats[i].participants}
DirectOf(chats, x) ==
  {i \in DOMAIN chats : x \in chats[i].participants /\ chats[i].style = "direct"}
Given(chats, guid) == {i \in DOMAIN chats : chats[i].guid = guid}

LEMMA FirstFound ==
  ASSUME NEW chats, Table(chats, Chat), NEW guid, NEW needle
  PROVE  ResolveChat(chats, guid, needle) =
           IF guid # NoGuid THEN GuidAt(chats, Given(chats, guid))
           ELSE IF GuidAt(chats, Named(chats, needle)) # NoGuid
                  THEN GuidAt(chats, Named(chats, needle))
           ELSE IF GuidAt(chats, DirectOf(chats, needle)) # NoGuid
                  THEN GuidAt(chats, DirectOf(chats, needle))
           ELSE GuidAt(chats, OfParty(chats, needle))
<1>1. chats \in Seq(Chat) /\ DOMAIN chats = 1 .. Len(chats) /\ Len(chats) \in Nat
  BY DEF Table
<1> DEFINE At(I) == LET n == IF I # {} THEN Min(I) ELSE 0 IN IF n = 0 THEN NoGuid ELSE chats[n].guid
           A == Named(chats, needle)
           B == DirectOf(chats, needle)
           C == OfParty(chats, needle)
           D == Given(chats, guid)
<1>2. ASSUME NEW I \in SUBSET DOMAIN chats PROVE At(I) = GuidAt(chats, I)
  <2>1. CASE I = {}
    BY <2>1 DEF GuidAt
  <2>2. CASE I # {}
    <3>1. Min(I) \in 1 .. Len(chats)
      BY <1>1, <2>2, FirstThatIs
    <3> QED BY <2>2, <3>1 DEF GuidAt
  <2> QED BY <2>1, <2>2
<1>3. ResolveChat(chats, guid, needle) =
        IF guid # NoGuid THEN At(D)
        ELSE IF At(A) # NoGuid THEN At(A)
        ELSE IF At(B) # NoGuid THEN At(B)
        ELSE At(C)
  BY <1>1 DEF ResolveChat, FirstOf, SelectInSeq, Named, DirectOf, OfParty, Given
<1>4. /\ A \in SUBSET DOMAIN chats /\ B \in SUBSET DOMAIN chats
      /\ C \in SUBSET DOMAIN chats /\ D \in SUBSET DOMAIN chats
  BY DEF Named, DirectOf, OfParty, Given
<1> HIDE DEF A, B, C, D, At
<1>5. /\ At(A) = GuidAt(chats, A) /\ At(B) = GuidAt(chats, B)
      /\ At(C) = GuidAt(chats, C) /\ At(D) = GuidAt(chats, D)
  BY <1>2, <1>4
<1> QED BY <1>3, <1>5 DEF A, B, C, D

LEMMA ChatIsBest ==
  ASSUME NEW chats, Table(chats, Chat), NEW guid, NEW identifier
  PROVE  BestChat(ResolveChat(chats, guid, identifier), chats, guid, identifier)
<1> DEFINE P == DOMAIN chats
           A == Named(chats, identifier)
           B == DirectOf(chats, identifier)
           C == OfParty(chats, identifier)
           D == Given(chats, guid)
           found == ResolveChat(chats, guid, identifier)
           ranks == [i \in P |-> ChatRank(identifier, chats[i])]
<1>1. found = IF guid # NoGuid THEN GuidAt(chats, D)
              ELSE IF GuidAt(chats, A) # NoGuid THEN GuidAt(chats, A)
              ELSE IF GuidAt(chats, B) # NoGuid THEN GuidAt(chats, B)
              ELSE GuidAt(chats, C)
  BY FirstFound
<1>2. CASE guid # NoGuid
  <2>1. D \in SUBSET DOMAIN chats
    BY DEF Given
  <2>2. CASE D = {}
    <3>1. found = NoGuid
      BY <1>1, <1>2, <2>1, <2>2, GuidAtIs
    <3> QED BY <1>2, <2>2, <3>1 DEF BestChat, ToSet, Given
  <2>3. CASE D # {}
    <3>1. PICK i \in D : GuidAt(chats, D) = chats[i].guid
      BY <2>1, <2>3, GuidAtIs
    <3>2. found = guid /\ \E c \in ToSet(chats) : c.guid = guid
      BY <1>1, <1>2, <3>1 DEF ToSet, Given
    <3> QED BY <1>2, <3>2 DEF BestChat
  <2> QED BY <2>2, <2>3
<1>3. CASE guid = NoGuid
  <2>1. A \in SUBSET DOMAIN chats /\ B \in SUBSET DOMAIN chats /\ C \in SUBSET DOMAIN chats
    BY DEF Named, DirectOf, OfParty
  <2>2. \A i \in P : ranks[i] = IF i \in A THEN 1 ELSE IF i \in B THEN 2 ELSE IF i \in C THEN 3 ELSE 4
    BY DEF ChatRank, Named, DirectOf, OfParty
  <2>3. B \subseteq C
    BY DEF DirectOf, OfParty
  <2>4. DOMAIN ranks = P
    OBVIOUS
  <2>5. BestChat(found, chats, guid, identifier) <=>
          \/ \E i \in P : /\ ranks[i] < 4 /\ found = chats[i].guid
                          /\ \A j \in P : ranks[i] < ranks[j] \/ (ranks[i] = ranks[j] /\ i <= j)
          \/ (\A i \in P : ranks[i] = 4) /\ found = NoGuid
    BY <1>3 DEF BestChat
  <2>6. P = 1 .. Len(chats) /\ Len(chats) \in Nat
    BY DEF Table
  <2>11. SUFFICES BestChat(found, chats, guid, identifier)
    OBVIOUS
  <2> HIDE DEF A, B, C, ranks, found, P
  <2>7. CASE A # {}
    <3>1. PICK i \in A : /\ \A j \in A : i <= j
                         /\ GuidAt(chats, A) = chats[i].guid /\ chats[i].guid # NoGuid
      BY <2>1, <2>7, GuidAtIs
    <3>2. found = chats[i].guid /\ i \in P
      BY <1>1, <1>3, <2>1, <3>1 DEF P
    <3>3. ranks[i] = 1 /\ \A j \in P : ranks[i] < ranks[j] \/ (ranks[i] = ranks[j] /\ i <= j)
      BY <2>2, <3>1, <3>2
    <3> QED BY <2>5, <3>2, <3>3
  <2>8. CASE A = {} /\ B # {}
    <3>1. PICK i \in B : /\ \A j \in B : i <= j
                         /\ GuidAt(chats, B) = chats[i].guid /\ chats[i].guid # NoGuid
      BY <2>1, <2>8, GuidAtIs
    <3>2. GuidAt(chats, A) = NoGuid
      BY <2>1, <2>8, GuidAtIs
    <3>3. found = chats[i].guid /\ i \in P
      BY <1>1, <1>3, <2>1, <3>1, <3>2 DEF P
    <3>4. ranks[i] = 2 /\ \A j \in P : ranks[i] < ranks[j] \/ (ranks[i] = ranks[j] /\ i <= j)
      BY <2>2, <2>8, <3>1, <3>3
    <3> QED BY <2>5, <3>3, <3>4
  <2>9. CASE A = {} /\ B = {} /\ C # {}
    <3>1. PICK i \in C : /\ \A j \in C : i <= j
                         /\ GuidAt(chats, C) = chats[i].guid /\ chats[i].guid # NoGuid
      BY <2>1, <2>9, GuidAtIs
    <3>2. GuidAt(chats, A) = NoGuid /\ GuidAt(chats, B) = NoGuid
      BY <2>1, <2>9, GuidAtIs
    <3>3. found = chats[i].guid /\ i \in P
      BY <1>1, <1>3, <2>1, <3>1, <3>2 DEF P
    <3>4. ranks[i] = 3 /\ \A j \in P : ranks[i] < ranks[j] \/ (ranks[i] = ranks[j] /\ i <= j)
      BY <2>2, <2>9, <3>1, <3>3
    <3> QED BY <2>5, <3>3, <3>4
  <2>10. CASE A = {} /\ B = {} /\ C = {}
    <3>1. GuidAt(chats, A) = NoGuid /\ GuidAt(chats, B) = NoGuid /\ GuidAt(chats, C) = NoGuid
      BY <2>1, <2>10, GuidAtIs
    <3>2. found = NoGuid
      BY <1>1, <1>3, <3>1
    <3>3. \A i \in P : ranks[i] = 4
      BY <2>2, <2>10
    <3> QED BY <2>5, <3>2, <3>3
  <2> QED BY <2>7, <2>8, <2>9, <2>10
<1> QED BY <1>2, <1>3

-----------------------------------------------------------------------------
(* Which names are found                                                     *)

\* A string as if it went on with zeros: the order is that of the first difference.
At(a, n) == IF n \in 1 .. Len(a) THEN a[n] + 1 ELSE 0
FirstLess(a, b, n) ==
  n \in Nat \ {0} /\ At(a, n) < At(b, n) /\ \A j \in 1 .. n - 1 : At(a, j) = At(b, j)

LEMMA AtIsNat ==
  ASSUME NEW a \in Seq(Nat), NEW n \in Nat
  PROVE  At(a, n) \in Nat
BY DEF At

LEMMA PrecedesIs ==
  ASSUME NEW a \in Seq(Nat), NEW b \in Seq(Nat)
  PROVE  Precedes(a, b) <=> \E n \in Nat : FirstLess(a, b, n)
<1>1. Len(a) \in Nat /\ Len(b) \in Nat /\ DOMAIN a = 1 .. Len(a) /\ DOMAIN b = 1 .. Len(b)
  OBVIOUS
<1>2. (\A j \in 1 .. Len(a) : a[j] \in Nat) /\ (\A j \in 1 .. Len(b) : b[j] \in Nat)
  OBVIOUS
<1>3. ASSUME Precedes(a, b) PROVE \E n \in Nat : FirstLess(a, b, n)
  <2>1. CASE Len(a) < Len(b) /\ SubSeq(b, 1, Len(a)) = a
    <3>1. \A j \in 1 .. Len(a) : a[j] = b[j]
      <4>1. \A j \in 1 .. Len(a) : SubSeq(b, 1, Len(a))[j] = b[j]
        BY <2>1
      <4> QED BY <2>1, <4>1
    <3>2. FirstLess(a, b, Len(a) + 1)
      BY <1>1, <1>2, <2>1, <3>1 DEF FirstLess, At
    <3> QED BY <1>1, <3>2
  <2>2. CASE \E i \in DOMAIN a \cap DOMAIN b : a[i] < b[i] /\ \A j \in 1 .. i - 1 : a[j] = b[j]
    <3>1. PICK i \in 1 .. Len(a) : i \in 1 .. Len(b) /\ a[i] < b[i] /\ \A j \in 1 .. i - 1 : a[j] = b[j]
      BY <1>1, <2>2
    <3>2. i \in Nat /\ FirstLess(a, b, i)
      BY <1>1, <1>2, <3>1 DEF FirstLess, At
    <3> QED BY <3>2
  <2> QED BY <1>3, <2>1, <2>2 DEF Precedes
<1>4. ASSUME NEW n \in Nat, FirstLess(a, b, n) PROVE Precedes(a, b)
  <2>1. n \in 1 .. Len(b)
    BY <1>1, <1>2, <1>4 DEF FirstLess, At
  <2>2. CASE n \in 1 .. Len(a)
    <3>1. a[n] < b[n]
      BY <1>2, <1>4, <2>1, <2>2, SMTT(30) DEF FirstLess, At
    <3>2. ASSUME NEW j \in 1 .. n - 1 PROVE a[j] = b[j]
      <4>1. j \in 1 .. Len(a) /\ j \in 1 .. Len(b) /\ At(a, j) = At(b, j)
        BY <1>1, <1>4, <2>1, <2>2 DEF FirstLess
      <4>2. a[j] \in Nat /\ b[j] \in Nat /\ a[j] + 1 = b[j] + 1
        BY <1>2, <4>1 DEF At
      <4> QED BY ONLY <4>2, SMTT(30)
    <3> QED BY <1>1, <2>1, <2>2, <3>1, <3>2 DEF Precedes
  <2>3. CASE n \notin 1 .. Len(a)
    <3>1. Len(a) + 1 = n
      <4>1. n > Len(a)
        BY <1>1, <2>1, <2>3
      <4>2. ASSUME Len(a) + 1 < n PROVE FALSE
        <5>1. Len(a) + 1 \in 1 .. n - 1 /\ Len(a) + 1 \in 1 .. Len(b) /\ Len(a) + 1 \notin 1 .. Len(a)
          BY <1>1, <2>1, <4>2
        <5>2. At(a, Len(a) + 1) = 0 /\ At(b, Len(a) + 1) = b[Len(a) + 1] + 1
          BY <5>1 DEF At
        <5> QED BY <1>2, <1>4, <5>1, <5>2 DEF FirstLess
      <4> QED BY <1>1, <4>1, <4>2
    <3>2. ASSUME NEW j \in 1 .. Len(a) PROVE a[j] = b[j]
      <4>1. j \in 1 .. n - 1
        BY <1>1, <3>1
      <4>2. j \in 1 .. Len(b) /\ At(a, j) = At(b, j)
        BY <1>1, <1>4, <2>1, <4>1 DEF FirstLess
      <4>3. a[j] \in Nat /\ b[j] \in Nat /\ a[j] + 1 = b[j] + 1
        BY <1>2, <4>2 DEF At
      <4> QED BY ONLY <4>3
    <3>3. Len(a) < Len(b)
      BY <1>1, <2>1, <3>1
    <3>4. SubSeq(b, 1, Len(a)) = a
      BY <1>1, <3>2, <3>3
    <3> QED BY <3>3, <3>4 DEF Precedes
  <2> QED BY <2>2, <2>3
<1> QED BY <1>3, <1>4

\* The order of strings is a strict total order.
LEMMA PrecedesIsOrder ==
  ASSUME NEW a \in Seq(Nat), NEW b \in Seq(Nat), NEW c \in Seq(Nat)
  PROVE  /\ ~Precedes(a, a)
         /\ a = b \/ Precedes(a, b) \/ Precedes(b, a)
         /\ Precedes(a, b) /\ Precedes(b, c) => Precedes(a, c)
<1>1. \A n \in Nat : At(a, n) \in Nat /\ At(b, n) \in Nat /\ At(c, n) \in Nat
  BY AtIsNat
<1>2. ~Precedes(a, a)
  <2>1. \A n \in Nat : ~FirstLess(a, a, n)
    BY <1>1 DEF FirstLess
  <2> QED BY <2>1, PrecedesIs
<1>3. ASSUME Precedes(a, b), Precedes(b, c) PROVE Precedes(a, c)
  <2>1. PICK m \in Nat : FirstLess(a, b, m)
    BY <1>3, PrecedesIs
  <2>2. PICK n \in Nat : FirstLess(b, c, n)
    BY <1>3, PrecedesIs
  <2> DEFINE k == IF m < n THEN m ELSE n
  <2>3. k \in Nat \ {0} /\ At(a, k) < At(c, k)
    <3>1. m # 0 /\ n # 0
      BY <2>1, <2>2 DEF FirstLess
    <3>2. CASE m < n
      <4>1. m \in 1 .. n - 1
        BY <3>1, <3>2
      <4>2. At(b, m) = At(c, m) /\ At(a, m) < At(b, m)
        BY <2>1, <2>2, <4>1 DEF FirstLess
      <4> QED BY <3>1, <3>2, <4>2
    <3>3. CASE n < m
      <4>1. n \in 1 .. m - 1
        BY <3>1, <3>3
      <4>2. At(a, n) = At(b, n) /\ At(b, n) < At(c, n)
        BY <2>1, <2>2, <4>1 DEF FirstLess
      <4> QED BY <3>1, <3>3, <4>2
    <3>4. CASE n = m
      <4>1. At(a, n) < At(b, n) /\ At(b, n) < At(c, n)
        BY <2>1, <2>2, <3>4 DEF FirstLess
      <4>2. At(a, n) < At(c, n)
        BY <1>1, <4>1
      <4> QED BY <3>1, <3>4, <4>2
    <3> QED BY <3>2, <3>3, <3>4
  <2>4. \A j \in 1 .. k - 1 : At(a, j) = At(c, j)
    <3>1. ASSUME NEW j \in 1 .. k - 1 PROVE At(a, j) = At(c, j)
      <4>1. j \in 1 .. m - 1 /\ j \in 1 .. n - 1
        BY <2>3
      <4> QED BY <2>1, <2>2, <4>1 DEF FirstLess
    <3> QED BY <3>1
  <2>5. k \in Nat /\ FirstLess(a, c, k)
    BY <2>3, <2>4 DEF FirstLess
  <2> QED BY <2>5, PrecedesIs
<1>4. ASSUME a # b PROVE Precedes(a, b) \/ Precedes(b, a)
  <2> DEFINE N == Len(a) + Len(b)
             I == {n \in 1 .. N : At(a, n) # At(b, n)}
  <2>1. N \in Nat /\ Len(a) \in Nat /\ Len(b) \in Nat
    OBVIOUS
  <2>2. ASSUME I = {} PROVE FALSE
    <3>1. \A n \in 1 .. N : At(a, n) = At(b, n)
      BY <2>2
    <3>2. \A n \in 1 .. Len(a) : n \in 1 .. N /\ n \in 1 .. Len(b) /\ a[n] = b[n]
      <4>1. ASSUME NEW n \in 1 .. Len(a) PROVE n \in 1 .. N /\ n \in 1 .. Len(b) /\ a[n] = b[n]
        <5>1. n \in 1 .. N /\ a[n] \in Nat
          BY <2>1
        <5>2. At(a, n) = a[n] + 1 /\ At(b, n) = a[n] + 1
          BY <3>1, <5>1 DEF At
        <5>3. n \in 1 .. Len(b)
          BY <5>1, <5>2 DEF At
        <5>4. b[n] \in Nat /\ b[n] + 1 = a[n] + 1
          BY <5>2, <5>3 DEF At
        <5>5. a[n] = b[n]
          <6>1. \A u, v \in Nat : v + 1 = u + 1 => u = v
            OBVIOUS
          <6> QED BY ONLY <5>1, <5>4, <6>1
        <5> QED BY <5>1, <5>3, <5>5
      <4> QED BY <4>1
    <3>3. \A n \in 1 .. Len(b) : n \in 1 .. Len(a)
      <4>1. ASSUME NEW n \in 1 .. Len(b) PROVE n \in 1 .. Len(a)
        <5>1. n \in 1 .. N /\ b[n] \in Nat
          BY <2>1
        <5>2. At(a, n) = b[n] + 1
          BY <3>1, <5>1 DEF At
        <5> QED BY <5>1, <5>2 DEF At
      <4> QED BY <4>1
    <3>4. Len(a) = Len(b)
      <4>1. Len(a) > 0 => Len(a) \in 1 .. Len(a)
        BY <2>1
      <4>2. Len(b) > 0 => Len(b) \in 1 .. Len(b)
        BY <2>1
      <4>3. Len(a) > 0 => Len(a) \in 1 .. Len(b)
        BY <3>2, <4>1
      <4>4. Len(b) > 0 => Len(b) \in 1 .. Len(a)
        BY <3>3, <4>2
      <4> QED BY ONLY <2>1, <4>3, <4>4
    <3>5. a = [n \in 1 .. Len(a) |-> a[n]] /\ b = [n \in 1 .. Len(b) |-> b[n]]
      OBVIOUS
    <3>6. a = b
      BY ONLY <3>2, <3>4, <3>5
    <3> QED BY <1>4, <3>6
  <2>3. I \in SUBSET (1 .. N)
    OBVIOUS
  <2> HIDE DEF I
  <2>4. Min(I) \in I /\ \A i \in I : Min(I) <= i
    BY <2>1, <2>2, <2>3, FirstThatIs
  <2> DEFINE n == Min(I)
  <2>5. n \in 1 .. N /\ At(a, n) # At(b, n)
    BY <2>4 DEF I
  <2>6. \A j \in 1 .. n - 1 : At(a, j) = At(b, j)
    <3>1. \A j \in 1 .. n - 1 : j \in 1 .. N /\ j \notin I
      BY <2>1, <2>4, <2>5
    <3> QED BY <3>1 DEF I
  <2>7. n \in Nat \ {0}
    BY <2>1, <2>5
  <2> HIDE DEF n
  <2>8. At(a, n) < At(b, n) \/ At(b, n) < At(a, n)
    <3>1. At(a, n) \in Nat /\ At(b, n) \in Nat
      BY <1>1, <2>7
    <3> QED BY ONLY <2>5, <3>1
  <2>9. FirstLess(a, b, n) \/ FirstLess(b, a, n)
    BY <2>6, <2>7, <2>8 DEF FirstLess
  <2> QED BY <2>7, <2>9, PrecedesIs
<1> QED BY <1>2, <1>3, <1>4

\* SetToSeq: all elements of a finite set, each once.
LEMMA SetToSeqIs ==
  ASSUME NEW S, IsFiniteSet(S)
  PROVE  LET s == SetToSeq(S)
         IN  /\ s \in Seq(S) /\ Len(s) = Cardinality(S) /\ ToSet(s) = S
             /\ \A i, j \in DOMAIN s : s[i] = s[j] => i = j
<1> DEFINE N == Cardinality(S)
           s == SetToSeq(S)
<1>1. N \in Nat /\ ExistsBijection(1 .. N, S) /\ IsFiniteSet(1 .. N) /\ Cardinality(1 .. N) = N
  <2>1. N \in Nat /\ ExistsBijection(1 .. N, S)
    BY FS_CardinalityType
  <2>2. IsFiniteSet(1 .. N) /\ Cardinality(1 .. N) = IF 1 > N THEN 0 ELSE N - 1 + 1
    BY <2>1, FS_Interval
  <2> HIDE DEF N
  <2> QED BY <2>1, <2>2
<1>2. s \in [1 .. N -> S] /\ IsInjective(s)
  <2>1. PICK f : f \in Bijection(1 .. N, S)
    BY <1>1 DEF ExistsBijection
  <2>2. f \in [1 .. N -> S] /\ IsInjective(f)
    BY <2>1 DEF Bijection, Injection
  <2> QED BY <2>2 DEF SetToSeq
<1> HIDE DEF s
<1>3. s \in Surjection(1 .. N, S)
  <2>1. s \in Injection(1 .. N, S)
    BY <1>2 DEF Injection
  <2> QED BY <1>1, <2>1, FS_Injection
<1>4. \A x \in S : \E i \in 1 .. N : s[i] = x
  BY <1>3 DEF Surjection
<1>5. DOMAIN s = 1 .. N /\ s \in Seq(S) /\ Len(s) = N
  BY <1>1, <1>2
<1>6. ToSet(s) = S
  BY <1>2, <1>4, <1>5 DEF ToSet
<1>7. \A i, j \in DOMAIN s : s[i] = s[j] => i = j
  BY <1>2 DEF IsInjective
<1> QED BY <1>5, <1>6, <1>7 DEF s

\* All elements of a set, each once, of which none is W-before one that is in front of it.
Listing(s, S, W) ==
  /\ s \in Seq(S) /\ ToSet(s) = S
  /\ \A i, j \in DOMAIN s : s[i] = s[j] => i = j
  /\ \A i, j \in DOMAIN s : i < j => <<s[j], s[i]>> \notin W

\* sorted, of a set: R is the order of the places that follows from that of the items.
LEMMA SortedIsListing ==
  ASSUME NEW S, NEW W, IsWeakOrder(W, S), NEW list \in Seq(S), ToSet(list) = S,
         \A i, j \in DOMAIN list : list[i] = list[j] => i = j, NEW R,
         \A i, j \in DOMAIN list : <<i, j>> \in R <=> <<list[i], list[j]>> \in W
  PROVE  Listing(Stably(list, R), S, W)
<1> DEFINE D == 1 .. Len(list)
           out == Stably(list, R)
<1>1. ToSet(list) = S /\ \A i, j \in DOMAIN list : list[i] = list[j] => i = j
  OBVIOUS
<1>2. DOMAIN list = D /\ Len(list) \in Nat /\ \A i \in D : list[i] \in S
  BY <1>1
<1>3. IsWeakOrder(R, DOMAIN list)
  <2>1. ASSUME NEW x \in D, NEW y \in D, NEW z \in D
        PROVE  /\ <<x, x>> \notin R
               /\ <<x, y>> \in R /\ <<y, z>> \in R => <<x, z>> \in R
               /\ <<x, y>> \notin R /\ <<y, z>> \notin R => <<x, z>> \notin R
    <3> DEFINE a == list[x]
               b == list[y]
               c == list[z]
    <3>1. a \in S /\ b \in S /\ c \in S
      BY <1>2
    <3>2. /\ <<x, x>> \in R <=> <<a, a>> \in W
          /\ <<x, y>> \in R <=> <<a, b>> \in W
          /\ <<y, z>> \in R <=> <<b, c>> \in W
          /\ <<x, z>> \in R <=> <<a, c>> \in W
      BY <1>2
    <3> HIDE DEF a, b, c
    <3> QED BY <3>1, <3>2 DEF IsWeakOrder
  <2> QED BY <1>2, <2>1 DEF IsWeakOrder
<1>4. out \in Seq(S) /\ Len(out) = Len(list)
  BY <1>1, <1>3, StablyIs
<1>5. PICK at \in [D -> D] : /\ \A k \in D : out[k] = list[at[k]]
                             /\ \A i \in D : \E k \in D : at[k] = i
                             /\ \A j, k \in D : at[j] = at[k] => j = k
                             /\ \A j, k \in D : j < k => <<at[k], at[j]>> \notin R
  BY <1>1, <1>3, StablyIs
<1> HIDE DEF out
<1>6. DOMAIN out = D /\ \A k \in D : at[k] \in D /\ at[k] \in DOMAIN list
  BY <1>2, <1>4, <1>5
<1>7. \A i, j \in DOMAIN out : out[i] = out[j] => i = j
  BY <1>1, <1>5, <1>6
<1>8. ASSUME NEW i \in D, NEW j \in D, i < j PROVE <<out[j], out[i]>> \notin W
  <2>1. <<at[j], at[i]>> \notin R /\ at[i] \in DOMAIN list /\ at[j] \in DOMAIN list
    BY <1>5, <1>6, <1>8
  <2>2. out[i] = list[at[i]] /\ out[j] = list[at[j]]
    BY <1>5
  <2> QED BY <2>1, <2>2
<1>9. ToSet(out) = S
  <2>1. ToSet(out) \subseteq S
    BY <1>4 DEF ToSet
  <2>2. ASSUME NEW x \in S PROVE x \in ToSet(out)
    <3>1. PICK i \in D : list[i] = x
      BY <1>1, <1>2 DEF ToSet
    <3>2. PICK k \in D : at[k] = i
      BY <1>5
    <3>3. out[k] = x
      BY <1>5, <3>1, <3>2
    <3> QED BY <1>6, <3>3 DEF ToSet
  <2> QED BY <2>1, <2>2
<1>10. Listing(out, S, W)
  BY <1>4, <1>6, <1>7, <1>8, <1>9 DEF Listing
<1> QED BY <1>10 DEF out

\* sorted, of a set of strings.
LEMMA NamesAreSorted ==
  ASSUME NEW S, IsFiniteSet(S), S \subseteq Seq(Nat)
  PROVE  LET out == Sorted(SetToSeq(S), Precedes)
         IN  /\ out \in Seq(S) /\ ToSet(out) = S
             /\ \A i, j \in DOMAIN out : out[i] = out[j] => i = j
             /\ \A i, j \in DOMAIN out : i < j => ~Precedes(out[j], out[i])
<1> DEFINE list == SetToSeq(S)
           places == DOMAIN list
           R == {p \in places \X places : Precedes(list[p[1]], list[p[2]])}
           W == {p \in S \X S : Precedes(p[1], p[2])}
           out == Stably(list, R)
<1>1. out = Sorted(SetToSeq(S), Precedes)
  BY DEF Sorted
<1>2. /\ list \in Seq(S) /\ ToSet(list) = S /\ \A i \in DOMAIN list : list[i] \in S
      /\ \A i, j \in DOMAIN list : list[i] = list[j] => i = j
  BY SetToSeqIs
<1>3. \A x, y \in S : <<x, y>> \in W <=> Precedes(x, y)
  OBVIOUS
<1>4. \A i, j \in DOMAIN list : <<i, j>> \in R <=> Precedes(list[i], list[j])
  OBVIOUS
<1> HIDE DEF list, R, W
<1>5. \A i, j \in DOMAIN list : <<i, j>> \in R <=> <<list[i], list[j]>> \in W
  BY <1>2, <1>3, <1>4
<1>6. IsWeakOrder(W, S)
  <2>1. ASSUME NEW a \in S, NEW b \in S, NEW c \in S
        PROVE  /\ <<a, a>> \notin W
               /\ <<a, b>> \in W /\ <<b, c>> \in W => <<a, c>> \in W
               /\ <<a, b>> \notin W /\ <<b, c>> \notin W => <<a, c>> \notin W
    <3>1. a \in Seq(Nat) /\ b \in Seq(Nat) /\ c \in Seq(Nat)
      OBVIOUS
    <3>2. /\ ~Precedes(a, a) /\ ~Precedes(b, b)
          /\ a = b \/ Precedes(a, b) \/ Precedes(b, a)
          /\ b = c \/ Precedes(b, c) \/ Precedes(c, b)
          /\ Precedes(a, b) /\ Precedes(b, c) => Precedes(a, c)
          /\ Precedes(a, c) /\ Precedes(c, b) => Precedes(a, b)
          /\ Precedes(b, a) /\ Precedes(a, c) => Precedes(b, c)
      BY <3>1, PrecedesIsOrder
    <3> QED BY <1>3, <3>2
  <2> QED BY <2>1 DEF IsWeakOrder
<1>7. Listing(out, S, W)
  BY <1>2, <1>5, <1>6, SortedIsListing
<1> HIDE DEF out
<1>8. /\ out \in Seq(S) /\ ToSet(out) = S
      /\ \A i, j \in DOMAIN out : out[i] = out[j] => i = j
      /\ \A i, j \in DOMAIN out : i < j => <<out[j], out[i]>> \notin W
  BY <1>7 DEF Listing
<1>9. \A i, j \in DOMAIN out : i < j => ~Precedes(out[j], out[i])
  <2>1. ASSUME NEW i \in DOMAIN out, NEW j \in DOMAIN out, i < j PROVE ~Precedes(out[j], out[i])
    <3>1. out[i] \in S /\ out[j] \in S /\ <<out[j], out[i]>> \notin W
      BY <1>8, <2>1
    <3> QED BY <1>3, <3>1
  <2> QED BY <2>1
<1> QED BY <1>1, <1>8, <1>9

LEMMA ListingsJoin ==
  ASSUME NEW s, NEW S, NEW t, NEW T, NEW W, Listing(s, S, W), Listing(t, T, W),
         S \cap T = {}, \A x \in S, y \in T : <<y, x>> \notin W
  PROVE  Listing(s \o t, S \cup T, W)
<1> DEFINE m == Len(s)
           n == Len(t)
           out == s \o t
<1>1. /\ s \in Seq(S) /\ t \in Seq(T) /\ m \in Nat /\ n \in Nat
      /\ DOMAIN s = 1 .. m /\ DOMAIN t = 1 .. n
  BY DEF Listing
<1>2. s \in Seq(S \cup T) /\ t \in Seq(S \cup T)
  BY <1>1
<1>3. /\ out \in Seq(S \cup T) /\ DOMAIN out = 1 .. m + n
      /\ \A i \in 1 .. m + n : out[i] = IF i <= m THEN s[i] ELSE t[i - m]
  BY <1>2
<1>4. \A i \in 1 .. m + n : \/ i \in 1 .. m /\ out[i] = s[i] /\ s[i] \in S
                            \/ i > m /\ i - m \in 1 .. n /\ out[i] = t[i - m] /\ t[i - m] \in T
  BY <1>1, <1>3
<1>5. \A i \in 1 .. m : i \in 1 .. m + n /\ out[i] = s[i]
  BY <1>1, <1>3
<1>6. \A i \in 1 .. n : m + i \in 1 .. m + n /\ out[m + i] = t[i]
  <2>1. ASSUME NEW i \in 1 .. n PROVE m + i \in 1 .. m + n /\ ~(m + i <= m) /\ (m + i) - m = i
    BY <1>1
  <2> QED BY <1>3, <2>1
<1> HIDE DEF out, m, n
<1>7. ToSet(out) = S \cup T
  <2>1. ToSet(out) \subseteq S \cup T
    BY <1>3, <1>4 DEF ToSet
  <2>2. ASSUME NEW x \in S PROVE x \in ToSet(out)
    <3>1. PICK i \in 1 .. m : s[i] = x
      BY <1>1 DEF Listing, ToSet
    <3> QED BY <1>3, <1>5, <3>1 DEF ToSet
  <2>3. ASSUME NEW x \in T PROVE x \in ToSet(out)
    <3>1. PICK i \in 1 .. n : t[i] = x
      BY <1>1 DEF Listing, ToSet
    <3> QED BY <1>3, <1>6, <3>1 DEF ToSet
  <2> QED BY <2>1, <2>2, <2>3
<1>8. ASSUME NEW i \in DOMAIN out, NEW j \in DOMAIN out, i < j
      PROVE  out[i] # out[j] /\ <<out[j], out[i]>> \notin W
  <2>1. i \in 1 .. m + n /\ j \in 1 .. m + n
    BY <1>3
  <2>2. CASE j \in 1 .. m
    <3>1. i \in 1 .. m /\ out[i] = s[i] /\ out[j] = s[j] /\ i # j
      BY <1>1, <1>5, <1>8, <2>1, <2>2
    <3> QED BY <1>1, <1>8, <2>2, <3>1 DEF Listing
  <2>3. CASE i \in 1 .. m /\ j > m
    <3>1. out[i] \in S /\ out[j] \in T
      BY <1>1, <1>4, <2>1, <2>3
    <3> QED BY <3>1
  <2>4. CASE i > m
    <3>1. i - m \in 1 .. n /\ out[i] = t[i - m] /\ j - m \in 1 .. n /\ out[j] = t[j - m]
      BY <1>1, <1>4, <1>8, <2>1, <2>4
    <3>2. i - m < j - m
      BY <1>1, <1>8, <2>1
    <3>3. i - m # j - m
      BY <1>1, <1>8, <2>1
    <3> QED BY <1>1, <3>1, <3>2, <3>3 DEF Listing
  <2> QED BY <1>1, <1>4, <2>1, <2>2, <2>3, <2>4
<1>9. \A i, j \in DOMAIN out : out[i] = out[j] => i = j
  <2>1. \A i, j \in DOMAIN out : i = j \/ i < j \/ j < i
    BY <1>1, <1>3
  <2> QED BY <1>8, <2>1
<1>10. Listing(out, S \cup T, W)
  BY <1>3, <1>7, <1>8, <1>9 DEF Listing
<1> QED BY <1>10 DEF out

\* The first items of such a list.
LEMMA FirstOfListing ==
  ASSUME NEW s, NEW S, NEW W, Listing(s, S, W), NEW limit \in Nat
  PROVE  LET out == Atmost(limit, s)
         IN  /\ out \in Seq(S) /\ ToSet(out) \subseteq S /\ Cardinality(ToSet(out)) = Len(out)
             /\ Len(out) = Shorter(limit, Cardinality(S))
             /\ \A i \in DOMAIN out, x \in S :
                  x \notin {out[j] : j \in 1 .. i} => <<x, out[i]>> \notin W
<1> DEFINE out == Atmost(limit, s)
<1>1. s \in Seq(S) /\ DOMAIN s = 1 .. Len(s) /\ Len(s) \in Nat /\ ToSet(s) = S
  BY DEF Listing
<1>2. /\ out \in Seq(S) /\ Len(out) = Shorter(limit, Len(s))
      /\ \A i \in 1 .. Len(out) : i \in 1 .. Len(s) /\ out[i] = s[i]
  BY <1>1, AtmostIs
<1> HIDE DEF out
<1>3. DOMAIN out = 1 .. Len(out) /\ Len(out) \in Nat
  BY <1>2
<1>4. \A i, j \in DOMAIN out : out[i] = out[j] => i = j
  BY <1>1, <1>2, <1>3 DEF Listing
<1>5. Cardinality(ToSet(out)) = Len(out)
  BY <1>2, <1>4, DistinctCount
<1>6. Cardinality(S) = Len(s)
  <2>1. Cardinality(ToSet(s)) = Len(s)
    BY <1>1, DistinctCount DEF Listing
  <2> QED BY <1>1, <2>1
<1>7. ToSet(out) \subseteq S
  BY <1>2, <1>3 DEF ToSet
<1>8. ASSUME NEW i \in DOMAIN out, NEW x \in S, x \notin {out[j] : j \in 1 .. i}
      PROVE  <<x, out[i]>> \notin W
  <2>1. PICK k \in 1 .. Len(s) : s[k] = x
    BY <1>1 DEF ToSet
  <2>2. i \in 1 .. Len(out) /\ i \in 1 .. Len(s) /\ out[i] = s[i]
    BY <1>2, <1>3
  <2>3. ~(k <= i)
    <3> SUFFICES ASSUME k <= i PROVE FALSE
      OBVIOUS
    <3>1. k \in 1 .. i /\ k \in 1 .. Len(out)
      BY <1>3, <2>2
    <3>2. out[k] = x
      BY <1>2, <2>1, <3>1
    <3> QED BY <1>8, <3>1, <3>2
  <2>4. i < k
    BY <2>2, <2>3
  <2> QED BY <1>1, <2>1, <2>2, <2>4 DEF Listing
<1> QED BY <1>2, <1>5, <1>6, <1>7, <1>8 DEF out

\* One name matches a query better than another, or as well and comes before it.
Better(q) ==
  {p \in Seq(Nat) \X Seq(Nat) :
     \/ NameRank(q, p[1]) < NameRank(q, p[2])
     \/ NameRank(q, p[1]) = NameRank(q, p[2]) /\ Precedes(p[1], p[2])}

LEMMA PrefixIsWithin ==
  ASSUME NEW q \in Seq(Nat), q # <<>>, NEW n \in Seq(Nat), IsPrefix(q, n)
  PROVE  Within(q, n)
<1>1. Len(q) \in Nat /\ Len(n) \in Nat /\ Len(q) # 0 /\ Len(q) <= Len(n)
  BY DEF IsPrefix
<1>2. 1 \in 1 .. Len(n) /\ SubSeq(n, 1, Len(n)) = n
  BY <1>1
<1> QED BY <1>2 DEF Within

\* sorted names of one rank.
LEMMA RankIsListed ==
  ASSUME NEW q \in Seq(Nat), NEW S, IsFiniteSet(S), S \subseteq Seq(Nat), NEW r \in Nat,
         \A n \in S : NameRank(q, n) = r
  PROVE  Listing(Sorted(SetToSeq(S), Precedes), S, Better(q))
<1> DEFINE out == Sorted(SetToSeq(S), Precedes)
<1>1. /\ out \in Seq(S) /\ ToSet(out) = S
      /\ \A i, j \in DOMAIN out : out[i] = out[j] => i = j
      /\ \A i, j \in DOMAIN out : i < j => ~Precedes(out[j], out[i])
  BY NamesAreSorted
<1> HIDE DEF out
<1>2. \A i \in DOMAIN out : out[i] \in S
  BY <1>1
<1>3. \A m, n \in S : <<m, n>> \in Better(q) => Precedes(m, n)
  BY DEF Better
<1>4. Listing(out, S, Better(q))
  BY <1>1, <1>2, <1>3 DEF Listing
<1> QED BY <1>4 DEF out

LEMMA RankedAreListed ==
  ASSUME NEW q \in Seq(Nat), q # <<>>, NEW names, IsFiniteSet(names), names \subseteq Seq(Nat)
  PROVE  Listing(Ranked(names, q), {n \in names : Within(q, n)}, Better(q))
<1> DEFINE E == names \cap {q}
           P == {n \in names : IsStrictPrefix(q, n)}
           S == {n \in names : Within(q, n) /\ ~IsPrefix(q, n)}
           W == Better(q)
           e == SetToSeq(E)
           p == Sorted(SetToSeq(P), Precedes)
           s == Sorted(SetToSeq(S), Precedes)
<1>1. Ranked(names, q) = (e \o p) \o s
  BY DEF Ranked
<1>2. /\ IsFiniteSet(E) /\ IsFiniteSet(P) /\ IsFiniteSet(S)
      /\ E \subseteq Seq(Nat) /\ P \subseteq Seq(Nat) /\ S \subseteq Seq(Nat)
  <2>1. E \in SUBSET names /\ P \in SUBSET names /\ S \in SUBSET names
    OBVIOUS
  <2> QED BY <2>1, FS_Subset
<1>3. IsPrefix(q, q)
  BY DEF IsPrefix
<1>4. /\ \A n \in E : NameRank(q, n) = 1
      /\ \A n \in P : NameRank(q, n) = 2
      /\ \A n \in S : NameRank(q, n) = 3
  BY <1>3 DEF NameRank, IsStrictPrefix
<1>5. /\ \A m, n \in Seq(Nat) : NameRank(q, n) < NameRank(q, m) => <<m, n>> \notin W
      /\ E \cap P = {} /\ (E \cup P) \cap S = {}
  <2>1. \A n \in Seq(Nat) : NameRank(q, n) \in {1, 2, 3}
    BY DEF NameRank
  <2>2. ASSUME NEW m \in Seq(Nat), NEW n \in Seq(Nat), NameRank(q, n) < NameRank(q, m)
        PROVE  <<m, n>> \notin W
    <3>1. NameRank(q, m) \in {1, 2, 3} /\ NameRank(q, n) \in {1, 2, 3}
      BY <2>1
    <3>2. ~(NameRank(q, m) < NameRank(q, n)) /\ NameRank(q, m) # NameRank(q, n)
      BY ONLY <2>2, <3>1
    <3> QED BY <3>2 DEF Better
  <2> QED BY <1>3, <2>2 DEF IsStrictPrefix
<1>6. E \cup P \cup S = {n \in names : Within(q, n)}
  <2>1. \A n \in E \cup P : Within(q, n)
    BY <1>2, <1>3, PrefixIsWithin DEF IsStrictPrefix
  <2> QED BY <2>1 DEF IsStrictPrefix
<1>7. Listing(p, P, W) /\ Listing(s, S, W)
  BY <1>2, <1>4, RankIsListed
<1>8. Listing(e, E, W)
  <2>1. e \in Seq(E) /\ ToSet(e) = E /\ \A i, j \in DOMAIN e : e[i] = e[j] => i = j
    BY <1>2, SetToSeqIs
  <2>2. DOMAIN e = 1 .. Len(e) /\ Len(e) \in Nat
    BY <2>1
  <2> HIDE DEF e
  <2>3. \A i \in DOMAIN e : e[i] = q
    BY <2>1
  <2>4. \A i, j \in DOMAIN e : i = j
    BY <2>1, <2>3
  <2>5. \A i, j \in DOMAIN e : ~(i < j)
    BY <2>2, <2>4
  <2> QED BY <2>1, <2>5 DEF Listing
<1> HIDE DEF E, P, S, W, e, p, s
<1>9. Listing(e \o p, E \cup P, W)
  <2>1. \A x \in E, y \in P : <<y, x>> \notin W
    BY <1>2, <1>4, <1>5
  <2> QED BY <1>5, <1>7, <1>8, <2>1, ListingsJoin
<1>10. Listing((e \o p) \o s, (E \cup P) \cup S, W)
  <2>1. \A x \in E \cup P, y \in S : <<y, x>> \notin W
    BY <1>2, <1>4, <1>5
  <2> QED BY <1>5, <1>7, <1>9, <2>1, ListingsJoin
<1> QED BY <1>1, <1>6, <1>10 DEF W

LEMMA NamesFound ==
  ASSUME NEW book, IsFiniteSet(DOMAIN book), \A h \in DOMAIN book : book[h] \in Seq(Nat),
         NEW q \in Seq(Nat), NEW limit \in Nat
  PROVE  BestNames(ResolveName(book, q, limit), book, q, limit)
<1> DEFINE names == {book[h] : h \in DOMAIN book}
           matching == {n \in names : q # <<>> /\ Within(q, n)}
           index == NameIndex(book)
           out == ResolveName(book, q, limit)
<1>1. DOMAIN index = names /\ \A n \in names : index[n] = {h \in DOMAIN book : book[h] = n}
  BY DEF NameIndex
<1>2. IsFiniteSet(names) /\ names \subseteq Seq(Nat)
  <2> DEFINE f == [h \in DOMAIN book |-> book[h]]
  <2>1. f \in Surjection(DOMAIN book, names)
    BY DEF Surjection
  <2> HIDE DEF f
  <2>2. IsFiniteSet(names)
    BY <2>1, FS_Surjection
  <2> QED BY <2>2
<1>3. CASE q = <<>>
  <2>1. out = <<>> /\ matching = {}
    BY <1>3 DEF ResolveName
  <2>2. DOMAIN out = {} /\ Len(out) = 0 /\ {out[i].name : i \in DOMAIN out} = {}
    BY <2>1
  <2>3. Cardinality({}) = 0 /\ Shorter(limit, 0) = 0
    BY FS_EmptySet DEF Shorter
  <2> HIDE DEF out, matching
  <2> QED BY <2>1, <2>2, <2>3 DEF BestNames, matching, out
<1>4. CASE q # <<>>
  <2> DEFINE ranked == Ranked(names, q)
             found == Atmost(limit, ranked)
  <2>1. Listing(ranked, matching, Better(q))
    BY <1>2, <1>4, RankedAreListed
  <2>2. out = [i \in DOMAIN found |-> [name |-> found[i], handles |-> index[found[i]]]]
    BY <1>1, <1>4 DEF ResolveName
  <2> HIDE DEF ranked, index, out, matching
  <2>3. /\ found \in Seq(matching) /\ ToSet(found) \subseteq matching
        /\ Cardinality(ToSet(found)) = Len(found)
        /\ Len(found) = Shorter(limit, Cardinality(matching))
        /\ \A i \in DOMAIN found, x \in matching :
             x \notin {found[j] : j \in 1 .. i} => <<x, found[i]>> \notin Better(q)
    BY <2>1, FirstOfListing
  <2> HIDE DEF found
  <2>4. /\ DOMAIN found = 1 .. Len(found) /\ Len(found) \in Nat
        /\ \A i \in DOMAIN found : found[i] \in matching
    BY <2>3
  <2>5. /\ DOMAIN out = DOMAIN found /\ Len(out) = Len(found)
        /\ \A i \in DOMAIN out : out[i].name = found[i] /\ out[i].handles = index[found[i]]
    BY <2>2, <2>4
  <2>6. /\ {out[i].name : i \in DOMAIN out} = ToSet(found)
        /\ \A i \in DOMAIN out : {out[j].name : j \in 1 .. i} = {found[j] : j \in 1 .. i}
    <3>1. {out[i].name : i \in DOMAIN out} = ToSet(found)
      BY <2>5 DEF ToSet
    <3>2. ASSUME NEW i \in DOMAIN out
          PROVE  {out[j].name : j \in 1 .. i} = {found[j] : j \in 1 .. i}
      <4>1. \A j \in 1 .. i : j \in DOMAIN out
        BY <2>4, <2>5
      <4>2. \A j \in 1 .. i : out[j].name = found[j]
        BY <2>5, <4>1
      <4> QED BY <4>2
    <3> QED BY <3>1, <3>2
  <2>7. \A i \in DOMAIN out, n \in matching :
          n \notin {out[j].name : j \in 1 .. i} =>
            \/ NameRank(q, out[i].name) < NameRank(q, n)
            \/ NameRank(q, out[i].name) = NameRank(q, n) /\ ~Precedes(n, out[i].name)
    <3>1. ASSUME NEW i \in DOMAIN out, NEW n \in matching, n \notin {out[j].name : j \in 1 .. i}
          PROVE  \/ NameRank(q, out[i].name) < NameRank(q, n)
                 \/ NameRank(q, out[i].name) = NameRank(q, n) /\ ~Precedes(n, out[i].name)
      <4>1. n \in Seq(Nat) /\ found[i] \in Seq(Nat) /\ out[i].name = found[i]
        BY <1>2, <2>4, <2>5 DEF matching
      <4>2. <<n, found[i]>> \notin Better(q)
        BY <2>3, <2>5, <2>6, <3>1
      <4>3. NameRank(q, n) \in {1, 2, 3} /\ NameRank(q, found[i]) \in {1, 2, 3}
        BY DEF NameRank
      <4>4. /\ ~(NameRank(q, n) < NameRank(q, found[i]))
            /\ NameRank(q, n) = NameRank(q, found[i]) => ~Precedes(n, found[i])
        BY <4>1, <4>2 DEF Better
      <4> QED BY <4>1, <4>3, <4>4
    <3> QED BY <3>1
  <2>8. \A i \in DOMAIN out, h \in DOMAIN book :
          (h \in out[i].handles) = (book[h] = out[i].name)
    <3>1. \A i \in DOMAIN out : out[i].name \in names /\ out[i].handles = index[out[i].name]
      BY <2>4, <2>5 DEF matching
    <3>2. ASSUME NEW i \in DOMAIN out, NEW h \in DOMAIN book
          PROVE  (h \in out[i].handles) = (book[h] = out[i].name)
      <4> DEFINE n == out[i].name
      <4>1. n \in names /\ out[i].handles = index[n]
        BY <3>1
      <4> HIDE DEF n
      <4>2. index[n] = {g \in DOMAIN book : book[g] = n}
        BY <1>1, <4>1
      <4>3. (h \in out[i].handles) = (book[h] = n)
        BY <4>1, <4>2
      <4> QED BY <4>3 DEF n
    <3> QED BY <3>2
  <2>9. /\ {out[i].name : i \in DOMAIN out} \subseteq matching
        /\ Cardinality({out[i].name : i \in DOMAIN out}) = Len(out)
        /\ Len(out) = Shorter(limit, Cardinality(matching))
    BY <2>3, <2>5, <2>6
  <2> QED BY <2>7, <2>8, <2>9 DEF BestNames, matching, out
<1> QED BY <1>3, <1>4

\* store_cache.py:95-126, tools.py:224-257.  Whatever the address book and the chats are, the names
\* found are the best that match, each with exactly its handles, and an identifier means the
\* chat that matches it best.
THEOREM BestTheorem == LibrarySpec => []BestMatchesFirst
<1>1. LibraryInit => BestMatchesFirst
  BY DEF LibraryInit, BestMatchesFirst, Answered
<1>2. question \in Questions /\ BestMatchesFirst /\ [LibraryNext]_libraryVars => BestMatchesFirst'
  <2> SUFFICES ASSUME question \in Questions, BestMatchesFirst, [LibraryNext]_libraryVars
               PROVE  BestMatchesFirst'
    OBVIOUS
  <2>1. CASE FindContacts
    <3>1. /\ question' = question /\ question.of = "find"
          /\ Reply' = ResolveName(question.book, question.name, question.limit)
      BY <2>1 DEF FindContacts, Asked, Answers, Reply
    <3>2. /\ IsFiniteSet(DOMAIN question.book) /\ question.limit \in Nat
          /\ question.name \in Seq(Nat)
          /\ \A h \in DOMAIN question.book : question.book[h] \in Seq(Nat)
      BY <3>1, QuestionAssumption DEF QuestionAssumption
    <3>3. BestNames(Reply', question.book, question.name, question.limit)
      BY <3>1, <3>2, NamesFound
    <3> QED BY <3>1, <3>3 DEF BestMatchesFirst, Answered
  <2>2. CASE Resolve
    <3>1. /\ question' = question /\ question.of = "chat"
          /\ Reply' = ResolveChat(question.chats, question.guid, question.identifier)
      BY <2>2 DEF Resolve, Asked, Answers, Reply
    <3>2. Table(question.chats, Chat)
      BY <3>1, QuestionAssumption DEF QuestionAssumption
    <3>3. BestChat(Reply', question.chats, question.guid, question.identifier)
      BY <3>1, <3>2, ChatIsBest
    <3> QED BY <3>1, <3>3 DEF BestMatchesFirst, Answered
  <2>3. CASE ConvertTime \/ LookUp \/ RankChats \/ ListAll \/ Stream \/ Count \/ ReadText
    <3>1. question'.of \notin {"find", "chat"}
      BY <2>3 DEF ConvertTime, LookUp, RankChats, ListAll, Stream, Count, ReadText, Asked, Answers
    <3> QED BY <3>1 DEF BestMatchesFirst, Answered
  <2>4. CASE UNCHANGED libraryVars
    BY <2>4 DEF libraryVars, BestMatchesFirst, Answered, Reply
  <2> QED BY <2>1, <2>2, <2>3, <2>4 DEF LibraryNext
<1> QED BY <1>1, <1>2, QuestionsStay, PTL DEF LibrarySpec

-----------------------------------------------------------------------------
(* Whose a number is                                                         *)

\* A number is normalized to a plus and its digits, or to nothing.
LEMMA NumberIsDigits ==
  ASSUME NEW raw, Number(raw)
  PROVE  /\ Digits(raw) \in Seq(Character) /\ \A k \in DOMAIN Digits(raw) : Digits(raw)[k] # "+"
         /\ Written(raw) => NormalizePhone(raw) = <<"+">> \o Digits(raw)
         /\ ~Written(raw) => NormalizePhone(raw) = <<>> /\ Digits(raw) = <<>>
<1> DEFINE I == {i \in DOMAIN raw : raw[i] # " "}
           J == {i \in DOMAIN raw : raw[i] \notin {"+", " "}}
           all == Taken(raw, I)
           out == Taken(raw, J)
           n == Len(out)
<1>1. /\ raw \in Seq(Character) /\ DOMAIN raw = 1 .. Len(raw) /\ Len(raw) \in Nat
      /\ I \in SUBSET DOMAIN raw /\ J \in SUBSET DOMAIN raw /\ J \subseteq I
  <2>1. raw \in Seq(Character)
    BY DEF Number
  <2>2. DOMAIN raw = 1 .. Len(raw) /\ Len(raw) \in Nat
    BY <2>1
  <2> QED BY <2>1, <2>2
<1>2. out = Digits(raw) /\ all = Filtered(raw, LAMBDA ch : ch # " ")
  BY DEF Digits, Filtered
<1>3. NormalizePhone(raw) = IF all = <<>> \/ Head(all) = "+" THEN all ELSE <<"+">> \o all
  BY DEF NormalizePhone, Filtered
<1>4. Written(raw) <=> I # {}
  BY DEF Written
<1>5. /\ \A i \in I : raw[i] # " " /\ i \in DOMAIN raw
      /\ \A i \in J : raw[i] # "+" /\ raw[i] # " " /\ i \in DOMAIN raw
      /\ \A i \in I : raw[i] = "+" \/ i \in J
  OBVIOUS
<1> HIDE DEF I, J
<1>6. /\ out \in Seq(Character) /\ n \in Nat /\ DOMAIN out = 1 .. n
      /\ \E at : Places(at, n, J) /\ \A k \in 1 .. n : out[k] = raw[at[k]]
  BY <1>1, TakenIs
<1>7. PICK at : Places(at, n, J) /\ \A k \in 1 .. n : out[k] = raw[at[k]]
  BY <1>6
<1>8. all \in Seq(Character) /\ DOMAIN all = 1 .. Len(all) /\ Len(all) = Cardinality(I)
  BY <1>1, TakenIs
<1>9. all = [k \in DOMAIN Arranged(I, Ascending(I)) |-> raw[Arranged(I, Ascending(I))[k]]]
  BY DEF Taken, Ascending
<1> HIDE DEF out, all, n
<1>10. \A k \in 1 .. n : at[k] \in J /\ out[k] # "+"
  <2>1. \A k \in 1 .. n : at[k] \in J /\ out[k] = raw[at[k]]
    BY <1>7 DEF Places
  <2> QED BY <1>5, <2>1
<1>11. CASE \E p \in DOMAIN raw : raw[p] = "+"
  <2>1. PICK p \in DOMAIN raw : raw[p] = "+"
    BY <1>11
  <2>2. p \in I /\ \A i \in I : i = p \/ (i \in J /\ p < i)
    <3>1. p \in I
      BY <2>1 DEF I
    <3>2. ASSUME NEW i \in I, i # p PROVE i \in J /\ p < i
      <4>1. i \in DOMAIN raw /\ raw[i] # " "
        BY <1>5
      <4>2. i \in 1 .. Len(raw) /\ p \in 1 .. Len(raw)
        BY <1>1, <4>1
      <4>3. ~(i < p)
        <5>1. i < p => i \in 1 .. p - 1
          BY <4>2
        <5> QED BY <2>1, <4>1, <5>1 DEF Number
      <4>4. p < i
        BY <3>2, <4>2, <4>3
      <4>5. raw[i] # "+"
        <5>1. p \in 1 .. i - 1
          BY <4>2, <4>4
        <5> QED BY <2>1, <4>1, <5>1 DEF Number
      <4> QED BY <1>5, <4>4, <4>5
    <3> QED BY <3>1, <3>2
  <2> DEFINE s == [k \in 1 .. n + 1 |-> IF k = 1 THEN p ELSE at[k - 1]]
  <2>3. /\ \A k \in 1 .. n + 1 : k = 1 \/ k - 1 \in 1 .. n
        /\ \A k \in 1 .. n : k + 1 \in 1 .. n + 1 /\ k + 1 # 1 /\ (k + 1) - 1 = k
        /\ n + 1 \in Nat /\ 1 \in 1 .. n + 1
    BY <1>6
  <2>4. s \in [1 .. n + 1 -> I] /\ s[1] = p /\ \A k \in 1 .. n : s[k + 1] = at[k]
    BY <1>1, <1>10, <2>2, <2>3
  <2>5. \A i \in I : \E k \in 1 .. n + 1 : s[k] = i
    <3>1. ASSUME NEW i \in J PROVE \E k \in 1 .. n + 1 : s[k] = i
      <4>1. PICK k \in 1 .. n : at[k] = i
        BY <1>7 DEF Places
      <4> QED BY <2>3, <2>4, <4>1
    <3> QED BY <2>2, <2>3, <2>4, <3>1
  <2>6. ASSUME NEW j \in 1 .. n + 1, NEW k \in 1 .. n + 1, j < k
        PROVE  <<s[j], s[k]>> \in Ascending(I)
    <3>0. k - 1 \in 1 .. n /\ s[k] = at[k - 1] /\ at[k - 1] \in J
      BY <1>6, <1>10, <2>6
    <3>1. s[j] \in I /\ s[k] \in I
      BY <2>4
    <3>2. CASE j = 1
      BY <1>1, <1>5, <2>2, <2>4, <3>0, <3>1, <3>2, <2>1 DEF Ascending
    <3>3. CASE j # 1
      <4>1. j - 1 \in 1 .. n /\ s[j] = at[j - 1] /\ j - 1 < k - 1
        BY <1>6, <2>6, <3>3
      <4>2. at[j - 1] < at[k - 1]
        BY <1>7, <3>0, <4>1 DEF Places
      <4> QED BY <3>0, <3>1, <4>1, <4>2 DEF Ascending
    <3> QED BY <3>2, <3>3
  <2>7. IsFiniteSet(I) /\ IsOrder(Ascending(I), I)
    BY <1>1, AscendingIsOrder
  <2>8. s = Arranged(I, Ascending(I))
    <3> DEFINE m == n + 1
               A == Ascending(I)
    <3>1. m \in Nat /\ s \in [1 .. m -> I]
      BY <2>3, <2>4
    <3>2. \A i \in I : \E k \in 1 .. m : s[k] = i
      BY <2>5
    <3>3. \A j, k \in 1 .. m : j < k => <<s[j], s[k]>> \in A
      BY <2>6
    <3>4. IsFiniteSet(I) /\ IsOrder(A, I)
      BY <2>7
    <3> HIDE DEF s, m, A
    <3>5. s = Arranged(I, A)
      BY <3>1, <3>2, <3>3, <3>4, ArrangedIsUnique
    <3> QED BY <3>5 DEF A
  <2>9. DOMAIN s = 1 .. n + 1 /\ all = [k \in 1 .. n + 1 |-> raw[s[k]]]
    BY <1>9, <2>8
  <2> HIDE DEF s
  <2>10. all[1] = "+" /\ \A k \in 1 .. n : all[k + 1] = out[k]
    BY <1>7, <2>1, <2>3, <2>4, <2>9
  <2>11. all = <<"+">> \o out
    <3>1. <<"+">> \o out \in Seq(Character) /\ Len(<<"+">> \o out) = n + 1 /\ (<<"+">> \o out)[1] = "+"
      <4>1. <<"+">> \in Seq(Character) /\ Len(<<"+">>) = 1 /\ <<"+">>[1] = "+"
        BY DEF Character
      <4> QED BY <1>6, <4>1 DEF n
    <3>2. ASSUME NEW k \in 1 .. n + 1 PROVE all[k] = (<<"+">> \o out)[k]
      <4>1. CASE k = 1
        BY <2>10, <3>1, <4>1
      <4>2. CASE k # 1
        <5>1. k - 1 \in 1 .. n /\ (k - 1) + 1 = k
          BY <1>6, <4>2
        <5>2. all[k] = out[k - 1]
          BY <2>10, <5>1
        <5>3. (<<"+">> \o out)[k] = out[k - 1]
          BY <1>6, <4>2 DEF n
        <5> QED BY <5>2, <5>3
      <4> QED BY <4>1, <4>2
    <3>3. Len(all) = n + 1
      BY <1>8, <2>3, <2>9
    <3> DEFINE joined == <<"+">> \o out
    <3> HIDE DEF joined
    <3>4. all = joined
      <4>1. /\ all \in Seq(Character) /\ joined \in Seq(Character) /\ Len(all) = Len(joined)
            /\ \A k \in 1 .. Len(all) : all[k] = joined[k]
        BY <1>8, <3>1, <3>2, <3>3 DEF joined
      <4> QED BY ONLY <4>1
    <3> QED BY <3>4 DEF joined
  <2>12. all # <<>> /\ Head(all) = "+"
    <3>1. Len(all) = n + 1
      BY <1>8, <2>3, <2>9
    <3> QED BY <1>6, <1>8, <2>10, <3>1
  <2>13. I # {}
    BY <2>2
  <2> QED BY <1>2, <1>3, <1>4, <1>6, <1>10, <2>11, <2>12, <2>13
<1>12. CASE ~\E p \in DOMAIN raw : raw[p] = "+"
  <2>1. I = J /\ all = out
    BY <1>12 DEF I, J, all, out
  <2>2. out = <<>> => I = {}
    <3>1. out = <<>> => n = 0 /\ 1 .. n = {}
      BY DEF n
    <3> QED BY <1>7, <2>1, <3>1 DEF Places
  <2>3. I = {} => out = <<>>
    <3>1. I = {} => 1 .. n = {}
      BY <1>10, <2>1
    <3>2. 1 .. n = {} => n = 0
      BY <1>6
    <3> QED BY <1>6, <3>1, <3>2 DEF n
  <2>4. out # <<>> => Head(out) # "+"
    <3>1. out # <<>> => 1 \in 1 .. n /\ Head(out) = out[1]
      BY <1>6 DEF n
    <3> QED BY <1>10, <3>1
  <2> QED BY <1>2, <1>3, <1>4, <1>6, <1>10, <2>1, <2>2, <2>3, <2>4
<1> QED BY <1>11, <1>12

LEMMA PlusIsDropped ==
  ASSUME NEW d \in Seq(Character), \A k \in DOMAIN d : d[k] # "+"
  PROVE  Filtered(<<"+">> \o d, LAMBDA ch : ch # "+") = d
<1> DEFINE norm == <<"+">> \o d
           n == Len(d)
           I == {i \in DOMAIN norm : norm[i] # "+"}
           s == [k \in 1 .. n |-> k + 1]
<1>1. /\ n \in Nat /\ DOMAIN d = 1 .. n /\ DOMAIN norm = 1 .. n + 1 /\ norm[1] = "+"
      /\ \A k \in 1 .. n : norm[k + 1] = d[k]
  OBVIOUS
<1>2. Filtered(norm, LAMBDA ch : ch # "+") =
        [k \in DOMAIN Arranged(I, Ascending(I)) |-> norm[Arranged(I, Ascending(I))[k]]]
  BY DEF Filtered, Taken, Ascending
<1> HIDE DEF norm, n
<1>3. I = 2 .. n + 1 /\ I \in SUBSET (1 .. n + 1) /\ n + 1 \in Nat
  <2>1. \A i \in 2 .. n + 1 : i \in 1 .. n + 1 /\ i - 1 \in 1 .. n /\ (i - 1) + 1 = i
    BY <1>1
  <2>2. \A i \in 2 .. n + 1 : i \in I
    <3>1. ASSUME NEW i \in 2 .. n + 1 PROVE norm[i] # "+" /\ i \in DOMAIN norm
      <4>1. i - 1 \in 1 .. n /\ norm[i] = d[i - 1]
        BY <1>1, <2>1
      <4> QED BY <1>1, <2>1, <4>1
    <3> QED BY <3>1
  <2>3. \A i \in I : i \in 1 .. n + 1 /\ i # 1
    BY <1>1
  <2>4. \A i \in I : i \in 2 .. n + 1
    BY <1>1, <2>3
  <2> HIDE DEF I
  <2>5. I = 2 .. n + 1
    BY <2>2, <2>4
  <2> QED BY <1>1, <2>1, <2>5
<1> HIDE DEF I
<1>4. IsFiniteSet(I) /\ IsOrder(Ascending(I), I)
  BY <1>3, AscendingIsOrder
<1>5. /\ s \in [1 .. n -> I] /\ \A x \in I : \E i \in 1 .. n : s[i] = x
      /\ \A i, j \in 1 .. n : i < j => <<s[i], s[j]>> \in Ascending(I)
  <2>1. \A k \in 1 .. n : k + 1 \in I
    BY <1>1, <1>3
  <2>2. \A x \in I : x - 1 \in 1 .. n /\ (x - 1) + 1 = x
    BY <1>1, <1>3
  <2>3. \A i, j \in 1 .. n : i < j => i + 1 < j + 1
    BY <1>1
  <2>4. \A k \in 1 .. n : s[k] = k + 1
    OBVIOUS
  <2>5. s \in [1 .. n -> I]
    BY <2>1
  <2> HIDE DEF s
  <2>6. \A x \in I : \E i \in 1 .. n : s[i] = x
    BY <2>2, <2>4
  <2> QED BY <2>1, <2>3, <2>4, <2>5, <2>6 DEF Ascending
<1>6. s = Arranged(I, Ascending(I))
  <2> DEFINE A == Ascending(I)
  <2>1. n \in Nat /\ s \in [1 .. n -> I] /\ IsFiniteSet(I) /\ IsOrder(A, I)
    BY <1>1, <1>4, <1>5
  <2>2. \A x \in I : \E i \in 1 .. n : s[i] = x
    BY <1>5
  <2>3. \A i, j \in 1 .. n : i < j => <<s[i], s[j]>> \in A
    BY <1>5
  <2> HIDE DEF s, A
  <2>4. s = Arranged(I, A)
    BY <2>1, <2>2, <2>3, ArrangedIsUnique
  <2> QED BY <2>4 DEF A
<1>7. Filtered(norm, LAMBDA ch : ch # "+") = [k \in 1 .. n |-> norm[k + 1]]
  BY <1>2, <1>6
<1>8. [k \in 1 .. n |-> norm[k + 1]] = d
  BY <1>1
<1> QED BY <1>7, <1>8 DEF norm

LEMMA LastThatIs ==
  ASSUME NEW n \in Nat, NEW I \in SUBSET (1 .. n), I # {}
  PROVE  Max(I) \in I /\ \A i \in I : i <= Max(I)
<1> DEFINE J == {n + 1 - i : i \in I}
           m == Min(J)
<1>1. \A i \in I : i \in 1 .. n /\ n + 1 - i \in 1 .. n
  OBVIOUS
<1>2. J \in SUBSET (1 .. n) /\ J # {} /\ \A i \in I : n + 1 - i \in J
  BY <1>1
<1>3. \A j \in J : \E i \in I : j = n + 1 - i
  OBVIOUS
<1> HIDE DEF J
<1>4. m \in J /\ \A j \in J : m <= j
  BY <1>2, FirstThatIs
<1> HIDE DEF m
<1>5. PICK x \in I : m = n + 1 - x
  BY <1>3, <1>4
<1>6. \A i \in I : i <= x
  BY <1>1, <1>2, <1>4, <1>5
<1> QED BY <1>6 DEF Max

LEMMA LastOfAll ==
  ASSUME NEW k \in Nat \ {0}
  PROVE  Max(1 .. k) = k /\ (1 .. k) \ {Max(1 .. k)} = 1 .. k - 1
<1>1. Max(1 .. k) \in 1 .. k /\ \A i \in 1 .. k : i <= Max(1 .. k)
  <2> DEFINE I == 1 .. k
  <2>1. k \in Nat /\ I \in SUBSET (1 .. k) /\ I # {}
    OBVIOUS
  <2> HIDE DEF I
  <2>2. Max(I) \in I /\ \A i \in I : i <= Max(I)
    BY <2>1, LastThatIs
  <2> QED BY <2>2 DEF I
<1>2. k \in 1 .. k
  OBVIOUS
<1>3. Max(1 .. k) = k
  BY <1>1, <1>2
<1> QED BY <1>3

\* Two functions that agree on the first places if they agree on those before agree on all.
LEMMA FoldsAgree ==
  ASSUME NEW n \in Nat, NEW f, NEW g, f[{}] = g[{}],
         \A k \in 1 .. n : f[1 .. k - 1] = g[1 .. k - 1] => f[1 .. k] = g[1 .. k]
  PROVE  f[1 .. n] = g[1 .. n]
<1> DEFINE I == {k \in 1 .. n : f[1 .. k] # g[1 .. k]}
<1>1. I \in SUBSET (1 .. n) /\ \A k \in 1 .. n : k \in I <=> f[1 .. k] # g[1 .. k]
  OBVIOUS
<1> HIDE DEF I
<1>2. I = {}
  <2> SUFFICES ASSUME I # {} PROVE FALSE
    OBVIOUS
  <2> DEFINE k == Min(I)
  <2>1. k \in I /\ k \in 1 .. n /\ \A i \in I : k <= i
    BY <1>1, FirstThatIs
  <2> HIDE DEF k
  <2>2. CASE k = 1
    <3>1. 1 .. k - 1 = {}
      BY <2>2
    <3> QED BY <1>1, <2>1, <3>1
  <2>3. CASE k # 1
    <3>1. k - 1 \in 1 .. n /\ ~(k <= k - 1)
      BY <2>1, <2>3
    <3>2. k - 1 \notin I
      BY <2>1, <3>1
    <3> QED BY <1>1, <2>1, <3>1, <3>2
  <2> QED BY <2>2, <2>3
<1>3. CASE n = 0
  <2>1. 1 .. n = {}
    BY <1>3
  <2> QED BY <2>1
<1>4. CASE n # 0
  <2>1. n \in 1 .. n
    BY <1>4
  <2> QED BY <1>1, <1>2, <2>1
<1> QED BY <1>3, <1>4

-----------------------------------------------------------------------------
(* The book of the sources                                                   *)

AfterPlace(p, q) == q[1] < p[1] \/ (p[1] = q[1] /\ q[2] < p[2])
Norm(sources, p) == NormalizePhone(EntryAt(sources, p).number)
Usable(sources, P) ==
  {p \in P : BuildName(EntryAt(sources, p)) # Nobody /\ Norm(sources, p) # <<>>}
Having(sources, P, norm) == {p \in Usable(sources, P) : Norm(sources, p) = norm}

\* What the book is after some rows.
Book(sources, P) ==
  [norm \in {Norm(sources, p) : p \in Usable(sources, P)} |->
     FirstName(sources, Having(sources, P, norm))]

LEMMA EntriesAre ==
  ASSUME NEW sources \in Seq(Source)
  PROVE  /\ \A p \in Entries(sources) :
              /\ p[1] \in DOMAIN sources /\ sources[p[1]].readable
              /\ p[2] \in DOMAIN sources[p[1]].rows /\ p = <<p[1], p[2]>>
         /\ \A i \in DOMAIN sources :
              /\ sources[i].rows \in Seq(Contact) /\ sources[i].readable \in BOOLEAN
              /\ sources[i].readable =>
                   \A j \in DOMAIN sources[i].rows : <<i, j>> \in Entries(sources)
<1>1. \A i \in DOMAIN sources : sources[i].rows \in Seq(Contact) /\ sources[i].readable \in BOOLEAN
  <2>1. ASSUME NEW i \in DOMAIN sources
        PROVE  sources[i].rows \in Seq(Contact) /\ sources[i].readable \in BOOLEAN
    <3>1. sources[i] \in Source
      OBVIOUS
    <3> QED BY <3>1 DEF Source
  <2> QED BY <2>1
<1>2. ASSUME NEW p \in Entries(sources)
      PROVE  /\ p[1] \in DOMAIN sources /\ sources[p[1]].readable
             /\ p[2] \in DOMAIN sources[p[1]].rows /\ p = <<p[1], p[2]>>
  <2>1. PICK i \in DOMAIN sources : /\ sources[i].readable
                                    /\ p \in {<<i, j>> : j \in DOMAIN sources[i].rows}
    BY DEF Entries
  <2>2. PICK j \in DOMAIN sources[i].rows : p = <<i, j>>
    BY <2>1
  <2> QED BY <2>1, <2>2
<1>3. ASSUME NEW i \in DOMAIN sources, sources[i].readable, NEW j \in DOMAIN sources[i].rows
      PROVE  <<i, j>> \in Entries(sources)
  BY <1>3 DEF Entries
<1> QED BY <1>1, <1>2, <1>3

\* Some entry is the first one, and it is the one that is.
LEMMA FirstPlaceIs ==
  ASSUME NEW sources \in Seq(Source), NEW S \in SUBSET Entries(sources)
  PROVE  /\ S # {} => /\ FirstPlace(S) \in S
                      /\ \A q \in S : q = FirstPlace(S) \/ AfterPlace(q, FirstPlace(S))
         /\ \A p \in S : (\A q \in S : q = p \/ AfterPlace(q, p)) => FirstPlace(S) = p
<1> DEFINE Leads(p) == \A q \in S : p[1] < q[1] \/ (p[1] = q[1] /\ p[2] <= q[2])
<1>1. \A p \in S : /\ p[1] \in 1 .. Len(sources) /\ p[2] \in Nat /\ p = <<p[1], p[2]>>
                   /\ p[1] \in Nat /\ p[2] \in 1 .. Len(sources[p[1]].rows)
                   /\ Len(sources[p[1]].rows) \in Nat
  <2>1. ASSUME NEW p \in S
        PROVE  /\ p[1] \in 1 .. Len(sources) /\ p = <<p[1], p[2]>>
               /\ p[2] \in 1 .. Len(sources[p[1]].rows) /\ Len(sources[p[1]].rows) \in Nat
    <3>1. p[1] \in DOMAIN sources /\ p[2] \in DOMAIN sources[p[1]].rows /\ p = <<p[1], p[2]>>
      BY EntriesAre
    <3>2. sources[p[1]].rows \in Seq(Contact)
      BY <3>1, EntriesAre
    <3> QED BY <3>1, <3>2
  <2>2. Len(sources) \in Nat
    OBVIOUS
  <2> QED BY <2>1, <2>2
<1>2. \A p, q \in S : p[1] = q[1] /\ p[2] = q[2] => p = q
  <2>1. ASSUME NEW p \in S, NEW q \in S, p[1] = q[1], p[2] = q[2] PROVE p = q
    <3>1. p = <<p[1], p[2]>> /\ q = <<q[1], q[2]>>
      BY <1>1
    <3> QED BY <2>1, <3>1
  <2> QED BY <2>1
<1>3. \A p \in S : Leads(p) <=> \A q \in S : q = p \/ AfterPlace(q, p)
  <2>1. \A p, q \in S : (p[1] < q[1] \/ (p[1] = q[1] /\ p[2] <= q[2])) <=> (q = p \/ AfterPlace(q, p))
    <3>1. ASSUME NEW p \in S, NEW q \in S
          PROVE  (p[1] < q[1] \/ (p[1] = q[1] /\ p[2] <= q[2])) <=> (q = p \/ AfterPlace(q, p))
      <4>1. /\ p[1] \in Nat /\ p[2] \in Nat /\ q[1] \in Nat /\ q[2] \in Nat
            /\ p[1] = q[1] /\ p[2] = q[2] => p = q
        BY <1>1, <1>2
      <4> QED BY <4>1 DEF AfterPlace
    <3> QED BY <3>1
  <2> QED BY <2>1
<1>4. \A p, q \in S : Leads(p) /\ Leads(q) => p = q
  BY <1>1, <1>2
<1>5. S # {} => \E p \in S : Leads(p)
  <2> SUFFICES ASSUME S # {} PROVE \E p \in S : Leads(p)
    OBVIOUS
  <2> DEFINE I == {p[1] : p \in S}
             i == Min(I)
             J == {p[2] : p \in {p \in S : p[1] = i}}
             j == Min(J)
  <2>1. I # {} /\ I \in SUBSET (1 .. Len(sources)) /\ Len(sources) \in Nat
    BY <1>1
  <2>2. i \in I /\ \A k \in I : i <= k
    <3> HIDE DEF I
    <3> QED BY <2>1, FirstThatIs
  <2>3. PICK r \in S : r[1] = i
    BY <2>2
  <2>4. \A q \in S : i <= q[1]
    BY <2>2
  <2> HIDE DEF i
  <2>5. J # {} /\ J \in SUBSET (1 .. Len(sources[i].rows)) /\ Len(sources[i].rows) \in Nat
    BY <1>1, <2>3
  <2>6. j \in J /\ \A k \in J : j <= k
    <3> HIDE DEF J
    <3> QED BY <2>5, FirstThatIs
  <2>7. PICK p \in S : p[1] = i /\ p[2] = j
    BY <2>6
  <2>8. \A q \in S : q[1] = i => j <= q[2]
    BY <2>6
  <2> HIDE DEF j
  <2>9. \A q \in S : p[1] < q[1] \/ (p[1] = q[1] /\ p[2] <= q[2])
    <3>1. ASSUME NEW q \in S PROVE p[1] < q[1] \/ (p[1] = q[1] /\ p[2] <= q[2])
      <4>1. i \in Nat /\ q[1] \in Nat /\ i <= q[1]
        BY <1>1, <2>3, <2>4
      <4>2. i < q[1] \/ i = q[1]
        BY ONLY <4>1
      <4> QED BY <2>7, <2>8, <4>2
    <3> QED BY <3>1
  <2> QED BY <2>9
<1>6. FirstPlace(S) = CHOOSE p \in S : Leads(p)
  BY DEF FirstPlace
<1> HIDE DEF Leads
<1>7. S # {} => FirstPlace(S) \in S /\ Leads(FirstPlace(S))
  BY <1>5, <1>6
<1> QED BY <1>3, <1>4, <1>7

LEMMA BookIsOf ==
  ASSUME NEW sources, NEW P
  PROVE  /\ \A norm : norm \in DOMAIN Book(sources, P) <=> Having(sources, P, norm) # {}
         /\ \A norm \in DOMAIN Book(sources, P) :
              Book(sources, P)[norm] = FirstName(sources, Having(sources, P, norm))
<1>1. DOMAIN Book(sources, P) = {Norm(sources, p) : p \in Usable(sources, P)}
  BY DEF Book
<1>2. ASSUME NEW norm
      PROVE  norm \in {Norm(sources, p) : p \in Usable(sources, P)} <=> Having(sources, P, norm) # {}
  BY DEF Having
<1> QED BY <1>1, <1>2 DEF Book

\* One row, which comes after those that are in the book.
LEMMA ListedGoesOn ==
  ASSUME NEW sources \in Seq(Source), NEW P \in SUBSET Entries(sources),
         NEW p \in Entries(sources), \A q \in P : AfterPlace(p, q)
  PROVE  Listed(Book(sources, P), EntryAt(sources, p)) = Book(sources, P \cup {p})
<1> DEFINE r == EntryAt(sources, p)
           norm == NormalizePhone(r.number)
           old == Book(sources, P)
           new == Book(sources, P \cup {p})
           H(n) == Having(sources, P, n)
           G(n) == Having(sources, P \cup {p}, n)
           usable == BuildName(r) # Nobody /\ norm # <<>>
<1>1. \A n : G(n) = IF usable /\ n = norm THEN H(n) \cup {p} ELSE H(n)
  BY DEF Having, Usable, Norm
<1>2. \A n : H(n) \in SUBSET P /\ G(n) \in SUBSET Entries(sources) /\ H(n) \in SUBSET Entries(sources)
  BY DEF Having, Usable
<1>3. /\ \A n : n \in DOMAIN old <=> H(n) # {}
      /\ \A n \in DOMAIN old : old[n] = FirstName(sources, H(n))
      /\ \A n : n \in DOMAIN new <=> G(n) # {}
      /\ \A n \in DOMAIN new : new[n] = FirstName(sources, G(n))
  BY BookIsOf
<1>4. /\ old = [n \in DOMAIN old |-> old[n]]
      /\ new = [n \in DOMAIN new |-> new[n]]
  BY DEF Book
<1>5. Listed(old, r) = IF ~usable \/ norm \in DOMAIN old THEN old
                       ELSE [n \in DOMAIN old \cup {norm} |-> IF n = norm THEN BuildName(r) ELSE old[n]]
  BY DEF Listed
<1> HIDE DEF old, new, norm, usable, H, G
<1>6. CASE ~usable
  <2>1. \A n : G(n) = H(n)
    BY <1>1, <1>6
  <2>2. DOMAIN old = DOMAIN new /\ \A n \in DOMAIN new : old[n] = new[n]
    BY <1>3, <2>1
  <2> QED BY <1>4, <1>5, <1>6, <2>2 DEF old, new, r
<1>7. CASE usable /\ norm \in DOMAIN old
  <2>1. \A n : n \in DOMAIN old <=> n \in DOMAIN new
    BY <1>1, <1>3, <1>7
  <2>2. FirstPlace(G(norm)) = FirstPlace(H(norm))
    <3>1. /\ H(norm) # {} /\ FirstPlace(H(norm)) \in H(norm)
          /\ \A q \in H(norm) : q = FirstPlace(H(norm)) \/ AfterPlace(q, FirstPlace(H(norm)))
      BY <1>2, <1>3, <1>7, FirstPlaceIs
    <3>2. FirstPlace(H(norm)) \in G(norm) /\ AfterPlace(p, FirstPlace(H(norm)))
      BY <1>1, <1>2, <1>7, <3>1
    <3>3. \A q \in G(norm) : q = FirstPlace(H(norm)) \/ AfterPlace(q, FirstPlace(H(norm)))
      BY <1>1, <1>7, <3>1, <3>2
    <3> QED BY <1>2, <3>2, <3>3, FirstPlaceIs
  <2>3. \A n \in DOMAIN new : old[n] = new[n]
    BY <1>1, <1>3, <2>1, <2>2 DEF FirstName
  <2> QED BY <1>4, <1>5, <1>7, <2>1, <2>3 DEF old, new, r
<1>8. CASE usable /\ norm \notin DOMAIN old
  <2>1. H(norm) = {} /\ G(norm) = {p}
    BY <1>1, <1>3, <1>8
  <2>2. FirstPlace(G(norm)) = p
    BY <1>2, <2>1, FirstPlaceIs
  <2>3. DOMAIN new = DOMAIN old \cup {norm}
    BY <1>1, <1>3, <2>1
  <2>4. \A n \in DOMAIN new : new[n] = IF n = norm THEN BuildName(r) ELSE old[n]
    BY <1>1, <1>3, <2>2, <2>3 DEF FirstName
  <2>5. new = [n \in DOMAIN old \cup {norm} |-> IF n = norm THEN BuildName(r) ELSE old[n]]
    BY <1>4, <2>3, <2>4
  <2> QED BY <1>5, <1>8, <2>5 DEF old, new, r
<1> QED BY <1>6, <1>7, <1>8

\* All rows of a source.
LEMMA SourceIsListed ==
  ASSUME NEW sources \in Seq(Source), NEW i \in DOMAIN sources, sources[i].readable,
         NEW P \in SUBSET Entries(sources), \A q \in P : q[1] < i
  PROVE  FoldLeft(Listed, Book(sources, P), sources[i].rows) =
           Book(sources, P \cup {p \in Entries(sources) : p[1] = i})
<1> DEFINE rows == sources[i].rows
           D == DOMAIN rows
           Q(s) == P \cup {<<i, j>> : j \in s}
           g == [s \in SUBSET D |-> Book(sources, Q(s))]
           Body(f) == [s \in SUBSET D |->
                         IF s = {} THEN Book(sources, P)
                         ELSE Listed(f[s \ {Max(s)}], rows[Max(s)])]
           f == CHOOSE f : f = Body(f)
<1>1. FoldLeft(Listed, Book(sources, P), rows) = f[D]
  BY DEF FoldLeft, MapThenFoldSet
<1>2. /\ rows \in Seq(Contact) /\ D = 1 .. Len(rows) /\ Len(rows) \in Nat
      /\ \A j \in D : <<i, j>> \in Entries(sources) /\ EntryAt(sources, <<i, j>>) = rows[j]
  BY EntriesAre DEF EntryAt
<1>3. ASSUME NEW s \in SUBSET D, s # {}
      PROVE  Listed(Book(sources, Q(s \ {Max(s)})), rows[Max(s)]) = Book(sources, Q(s))
  <2> DEFINE m == Max(s)
             p == <<i, m>>
  <2>1. m \in s /\ m \in D /\ \A j \in s : j \in 1 .. Len(rows) /\ j <= m
    BY <1>2, <1>3, LastThatIs
  <2> HIDE DEF m
  <2>2. p \in Entries(sources) /\ EntryAt(sources, p) = rows[m] /\ p[1] = i /\ p[2] = m
    BY <1>2, <2>1
  <2>3. \A q \in Q(s \ {m}) : q \in Entries(sources) /\ AfterPlace(p, q)
    <3>1. \A j \in s \ {m} : <<i, j>> \in Entries(sources) /\ j < m
      BY <1>2, <2>1
    <3> QED BY <3>1 DEF AfterPlace
  <2>4. Q(s \ {m}) \cup {p} = Q(s)
    BY <2>1
  <2> HIDE DEF p, Q
  <2>5. Listed(Book(sources, Q(s \ {m})), EntryAt(sources, p)) = Book(sources, Q(s \ {m}) \cup {p})
    BY <2>2, <2>3, ListedGoesOn
  <2> QED BY <2>2, <2>4, <2>5 DEF m
<1>4. g = Body(g)
  <2>1. Q({}) = P
    OBVIOUS
  <2>2. ASSUME NEW s \in SUBSET D
        PROVE  g[s] = IF s = {} THEN Book(sources, P) ELSE Listed(g[s \ {Max(s)}], rows[Max(s)])
    <3>1. s \ {Max(s)} \in SUBSET D
      OBVIOUS
    <3> HIDE DEF D, Q
    <3> QED BY <1>3, <2>1, <3>1
  <2> QED BY <2>2
<1>5. f = Body(f)
  <2> HIDE DEF g, Body
  <2> QED BY <1>4
<1>6. \A s \in SUBSET D : f[s] = IF s = {} THEN Book(sources, P)
                                 ELSE Listed(f[s \ {Max(s)}], rows[Max(s)])
  <2> HIDE DEF f
  <2> QED BY <1>5
<1>7. \A s \in SUBSET D : g[s] = IF s = {} THEN Book(sources, P)
                                 ELSE Listed(g[s \ {Max(s)}], rows[Max(s)])
  <2> HIDE DEF g
  <2> QED BY <1>4
<1> HIDE DEF f, g
<1>8. f[D] = g[D]
  <2>1. f[{}] = g[{}]
    BY <1>6, <1>7
  <2>2. ASSUME NEW k \in 1 .. Len(rows), f[1 .. k - 1] = g[1 .. k - 1]
        PROVE  f[1 .. k] = g[1 .. k]
    <3>1. k \in Nat \ {0} /\ 1 .. k \in SUBSET D /\ 1 .. k # {}
      BY <1>2
    <3>2. (1 .. k) \ {Max(1 .. k)} = 1 .. k - 1
      BY <3>1, LastOfAll
    <3> DEFINE t == 1 .. k
    <3> HIDE DEF t
    <3>3. f[t \ {Max(t)}] = g[t \ {Max(t)}]
      BY <2>2, <3>2 DEF t
    <3>4. f[t] = g[t]
      BY <1>6, <1>7, <3>1, <3>3 DEF t
    <3> QED BY <3>4 DEF t
  <2>3. f[1 .. Len(rows)] = g[1 .. Len(rows)]
    BY <1>2, <2>1, <2>2, FoldsAgree
  <2> QED BY <1>2, <2>3
<1>9. g[D] = Book(sources, Q(D))
  BY DEF g
<1>10. Q(D) = P \cup {p \in Entries(sources) : p[1] = i}
  <2>1. {<<i, j>> : j \in D} = {p \in Entries(sources) : p[1] = i}
    <3>1. \A j \in D : <<i, j>> \in {p \in Entries(sources) : p[1] = i}
      BY <1>2
    <3>2. \A p \in Entries(sources) : p[1] = i => p[2] \in D /\ p = <<i, p[2]>>
      BY EntriesAre
    <3> QED BY <3>1, <3>2
  <2> QED BY <2>1
<1> QED BY <1>1, <1>8, <1>9, <1>10

LEMMA BookOfSources ==
  ASSUME NEW sources \in Seq(Source)
  PROVE  FromSources(sources) = Book(sources, Entries(sources))
<1> DEFINE D == DOMAIN sources
           Q(s) == {p \in Entries(sources) : p[1] \in s}
           g == [s \in SUBSET D |-> Book(sources, Q(s))]
           Body(f) == [s \in SUBSET D |->
                         IF s = {} THEN EmptyBook ELSE LoadOne(f[s \ {Max(s)}], sources[Max(s)])]
           f == CHOOSE f : f = Body(f)
<1>1. FromSources(sources) = f[D]
  BY DEF FromSources, FoldLeft, MapThenFoldSet
<1>2. D = 1 .. Len(sources) /\ Len(sources) \in Nat
  OBVIOUS
<1>3. ASSUME NEW s \in SUBSET D, s # {}
      PROVE  LoadOne(Book(sources, Q(s \ {Max(s)})), sources[Max(s)]) = Book(sources, Q(s))
  <2> DEFINE m == Max(s)
             P == Q(s \ {m})
  <2>1. m \in s /\ m \in D /\ \A j \in s : j \in 1 .. Len(sources) /\ j <= m
    BY <1>2, <1>3, LastThatIs
  <2> HIDE DEF m
  <2>2. Q(s) = P \cup {p \in Entries(sources) : p[1] = m}
    BY <2>1
  <2>3. P \in SUBSET Entries(sources) /\ \A q \in P : q[1] < m
    BY <1>2, <2>1
  <2>4. CASE sources[m].readable
    <3> HIDE DEF P
    <3>1. FoldLeft(Listed, Book(sources, P), sources[m].rows) =
            Book(sources, P \cup {p \in Entries(sources) : p[1] = m})
      BY <2>1, <2>3, <2>4, SourceIsListed
    <3>2. LoadOne(Book(sources, P), sources[m]) =
            FoldLeft(Listed, Book(sources, P), sources[m].rows)
      BY <2>4 DEF LoadOne
    <3> QED BY <2>2, <3>1, <3>2 DEF m, P
  <2>5. CASE ~sources[m].readable
    <3>1. {p \in Entries(sources) : p[1] = m} = {}
      BY <2>5, EntriesAre
    <3>2. Q(s) = P
      BY <2>2, <3>1
    <3> HIDE DEF P, Q
    <3>3. LoadOne(Book(sources, P), sources[m]) = Book(sources, P)
      BY <2>5 DEF LoadOne
    <3> QED BY <3>2, <3>3 DEF m, P
  <2> QED BY <2>4, <2>5
<1>4. Q({}) = {} /\ EmptyBook = Book(sources, {})
  <2>1. Usable(sources, {}) = {}
    BY DEF Usable
  <2>2. {Norm(sources, p) : p \in Usable(sources, {})} = {}
    BY <2>1
  <2>3. Book(sources, {}) = [norm \in {} |-> FirstName(sources, Having(sources, {}, norm))]
    BY <2>2 DEF Book
  <2>4. EmptyBook = Book(sources, {})
    BY <2>3 DEF EmptyBook
  <2> QED BY <2>4
<1>5. g = Body(g)
  <2>1. ASSUME NEW s \in SUBSET D
        PROVE  g[s] = IF s = {} THEN EmptyBook ELSE LoadOne(g[s \ {Max(s)}], sources[Max(s)])
    <3>1. s \ {Max(s)} \in SUBSET D
      OBVIOUS
    <3> HIDE DEF D, Q
    <3> QED BY <1>3, <1>4, <3>1
  <2> QED BY <2>1
<1>6. f = Body(f)
  <2> HIDE DEF g, Body
  <2> QED BY <1>5
<1>7. \A s \in SUBSET D : f[s] = IF s = {} THEN EmptyBook
                                 ELSE LoadOne(f[s \ {Max(s)}], sources[Max(s)])
  <2> HIDE DEF f
  <2> QED BY <1>6
<1>8. \A s \in SUBSET D : g[s] = IF s = {} THEN EmptyBook
                                 ELSE LoadOne(g[s \ {Max(s)}], sources[Max(s)])
  <2> HIDE DEF g
  <2> QED BY <1>5
<1> HIDE DEF f, g
<1>9. f[D] = g[D]
  <2>1. f[{}] = g[{}]
    BY <1>7, <1>8
  <2>2. ASSUME NEW k \in 1 .. Len(sources), f[1 .. k - 1] = g[1 .. k - 1]
        PROVE  f[1 .. k] = g[1 .. k]
    <3>1. k \in Nat \ {0} /\ 1 .. k \in SUBSET D /\ 1 .. k # {}
      <4>1. k \in Nat \ {0} /\ k <= Len(sources)
        BY <1>2
      <4>2. 1 .. k \subseteq 1 .. Len(sources) /\ 1 \in 1 .. k
        BY <1>2, <4>1
      <4> QED BY <1>2, <4>1, <4>2
    <3>2. (1 .. k) \ {Max(1 .. k)} = 1 .. k - 1
      BY <3>1, LastOfAll
    <3> DEFINE t == 1 .. k
    <3> HIDE DEF t
    <3>3. f[t \ {Max(t)}] = g[t \ {Max(t)}]
      BY <2>2, <3>2 DEF t
    <3>4. f[t] = g[t]
      BY <1>7, <1>8, <3>1, <3>3 DEF t
    <3> QED BY <3>4 DEF t
  <2>3. f[1 .. Len(sources)] = g[1 .. Len(sources)]
    BY <1>2, <2>1, <2>2, FoldsAgree
  <2> QED BY <1>2, <2>3
<1>10. g[D] = Book(sources, Q(D))
  BY DEF g
<1>11. Q(D) = Entries(sources)
  BY EntriesAre
<1> QED BY <1>1, <1>9, <1>10, <1>11

Key(d) == <<"+">> \o d

LEMMA KeysDiffer ==
  ASSUME NEW d \in Seq(Character), NEW e \in Seq(Character)
  PROVE  Key(d) # <<>> /\ (Key(d) = Key(e) => d = e)
<1>1. <<"+">> \in Seq(Character) /\ Len(<<"+">>) = 1
  <2>1. "+" \in Character
    BY DEF Character
  <2> QED BY <2>1
<1>2. /\ Len(Key(d)) = Len(d) + 1 /\ \A k \in 1 .. Len(d) : Key(d)[k + 1] = d[k]
      /\ Len(Key(e)) = Len(e) + 1 /\ \A k \in 1 .. Len(e) : Key(e)[k + 1] = e[k]
  BY <1>1 DEF Key
<1>3. Len(d) \in Nat /\ Len(e) \in Nat /\ Len(<<>>) = 0
  OBVIOUS
<1>4. Key(d) # <<>>
  BY <1>2, <1>3
<1>5. ASSUME Key(d) = Key(e) PROVE d = e
  <2>1. Len(d) = Len(e)
    BY <1>2, <1>3, <1>5
  <2>2. \A k \in 1 .. Len(d) : d[k] = e[k]
    BY <1>2, <1>5, <2>1
  <2> QED BY <2>1, <2>2
<1> QED BY <1>4, <1>5

\* Under some digits the book has the first of those who have them.
LEMMA BookHasOwners ==
  ASSUME NEW sources \in Seq(Source), \A p \in Entries(sources) : Number(EntryAt(sources, p).number),
         NEW d \in Seq(Character)
  PROVE  LET book == FromSources(sources)
         IN  /\ Key(d) \in DOMAIN book <=> Owners(sources, d) # {}
             /\ Key(d) \in DOMAIN book => book[Key(d)] = FirstName(sources, Owners(sources, d))
<1> DEFINE E == Entries(sources)
<1>1. FromSources(sources) = Book(sources, E)
  BY BookOfSources
<1>2. ASSUME NEW p \in E
      PROVE  /\ Norm(sources, p) = Key(d) <=> /\ Written(EntryAt(sources, p).number)
                                              /\ Digits(EntryAt(sources, p).number) = d
             /\ Norm(sources, p) = Key(d) => Norm(sources, p) # <<>>
  <2> DEFINE raw == EntryAt(sources, p).number
  <2>1. Number(raw)
    OBVIOUS
  <2>2. Norm(sources, p) = NormalizePhone(raw)
    BY DEF Norm
  <2> HIDE DEF raw
  <2>3. /\ Digits(raw) \in Seq(Character)
        /\ Written(raw) => NormalizePhone(raw) = Key(Digits(raw))
        /\ ~Written(raw) => NormalizePhone(raw) = <<>>
    BY <2>1, NumberIsDigits DEF Key
  <2>4. Key(d) # <<>> /\ (Key(Digits(raw)) = Key(d) => Digits(raw) = d)
    BY <2>3, KeysDiffer
  <2> QED BY <2>2, <2>3, <2>4 DEF raw
<1>3. Having(sources, E, Key(d)) = Owners(sources, d)
  BY <1>2 DEF Having, Usable, Owners
<1> QED BY <1>1, <1>3, BookIsOf

LEMMA NameIsExact ==
  ASSUME NEW sources \in Seq(Source), \A p \in Entries(sources) : Number(EntryAt(sources, p).number),
         NEW handle, Number(handle)
  PROVE  NamedExactly(Lookup(FromSources(sources), handle), sources, handle)
<1> DEFINE book == FromSources(sources)
           d == Digits(handle)
           one == <<"1">> \o d
           digits == Filtered(Key(d), LAMBDA ch : ch # "+")
<1>1. /\ d \in Seq(Character) /\ \A k \in DOMAIN d : d[k] # "+"
      /\ Written(handle) => NormalizePhone(handle) = Key(d)
      /\ ~Written(handle) => NormalizePhone(handle) = <<>> /\ d = <<>>
  BY NumberIsDigits DEF Key
<1>2. digits = d
  BY <1>1, PlusIsDropped DEF Key
<1>3. one \in Seq(Character) /\ <<"+", "1">> \o d = Key(one)
  <2> HIDE DEF d
  <2>1. /\ <<"1">> \in Seq(Character) /\ <<"+">> \in Seq(Character)
        /\ <<"+", "1">> \in Seq(Character) /\ <<"+", "1">> = <<"+">> \o <<"1">>
    BY DEF Character
  <2>2. one \in Seq(Character)
    BY <1>1, <2>1
  <2>3. (<<"+">> \o <<"1">>) \o d = <<"+">> \o (<<"1">> \o d)
    BY <1>1, <2>1
  <2> QED BY <2>1, <2>2, <2>3 DEF Key
<1>4. /\ Key(d) \in DOMAIN book <=> Owners(sources, d) # {}
      /\ Key(d) \in DOMAIN book => book[Key(d)] = FirstName(sources, Owners(sources, d))
      /\ Key(one) \in DOMAIN book <=> Owners(sources, one) # {}
      /\ Key(one) \in DOMAIN book => book[Key(one)] = FirstName(sources, Owners(sources, one))
  <2> HIDE DEF d, one, book
  <2> QED BY <1>1, <1>3, BookHasOwners DEF book
<1>5. CASE Written(handle)
  <2>1. Key(d) # <<>>
    BY <1>1, KeysDiffer
  <2>2. Lookup(book, handle) =
          IF Key(d) \in DOMAIN book THEN book[Key(d)]
          ELSE IF Len(d) = National /\ Key(one) \in DOMAIN book THEN book[Key(one)]
          ELSE Nobody
    <3>1. NormalizePhone(handle) = Key(d)
      BY <1>1, <1>5
    <3>2. Lookup(book, handle) =
            IF Key(d) = <<>> THEN Nobody
            ELSE IF Key(d) \in DOMAIN book THEN book[Key(d)]
            ELSE IF Len(digits) = National /\ <<"+", "1">> \o digits \in DOMAIN book
                   THEN book[<<"+", "1">> \o digits]
            ELSE Nobody
      BY <3>1 DEF Lookup
    <3> HIDE DEF digits, book, d, one
    <3> QED BY <1>2, <1>3, <2>1, <3>2
  <2> HIDE DEF book
  <2>3. Lookup(book, handle) =
          IF Owners(sources, d) # {} THEN FirstName(sources, Owners(sources, d))
          ELSE IF Len(d) = National /\ Owners(sources, one) # {} THEN FirstName(sources, Owners(sources, one))
          ELSE Nobody
    BY <1>4, <2>2
  <2> QED BY <1>5, <2>3 DEF NamedExactly, book
<1>6. CASE ~Written(handle)
  <2>1. Lookup(book, handle) = Nobody
    BY <1>1, <1>6 DEF Lookup
  <2>2. Len(d) # National
    BY <1>1, <1>6, NationalAssumption DEF NationalAssumption
  <2> QED BY <1>6, <2>1, <2>2 DEF NamedExactly
<1> QED BY <1>5, <1>6

\* contacts.py:24-149.  Whatever the sources hold and however numbers are written, a handle gets
\* the name of the first contact with the same digits, else of the first with those of a
\* national number behind a 1, and never anybody else's.
THEOREM LookupTheorem == LibrarySpec => []LookupIsExact
<1>1. LibraryInit => LookupIsExact
  BY DEF LibraryInit, LookupIsExact, Answered
<1>2. question \in Questions /\ LookupIsExact /\ [LibraryNext]_libraryVars => LookupIsExact'
  <2> SUFFICES ASSUME question \in Questions, LookupIsExact, [LibraryNext]_libraryVars
               PROVE  LookupIsExact'
    OBVIOUS
  <2>1. CASE LookUp
    <3>1. /\ question' = question /\ question.of = "lookup"
          /\ Reply' = Lookup(FromSources(question.sources), question.handle)
      BY <2>1 DEF LookUp, Asked, Answers, Reply
    <3>2. /\ Number(question.handle) /\ question.sources \in Seq(Source)
          /\ \A p \in Entries(question.sources) : Number(EntryAt(question.sources, p).number)
      BY <3>1, QuestionAssumption DEF QuestionAssumption
    <3>3. NamedExactly(Reply', question.sources, question.handle)
      BY <3>1, <3>2, NameIsExact
    <3> QED BY <3>1, <3>3 DEF LookupIsExact, Answered
  <2>2. CASE ConvertTime \/ RankChats \/ ListAll \/ FindContacts \/ Resolve \/ Stream \/ Count \/ ReadText
    <3>1. question'.of # "lookup"
      BY <2>2 DEF ConvertTime, RankChats, ListAll, FindContacts, Resolve, Stream, Count, ReadText,
                  Asked, Answers
    <3> QED BY <3>1 DEF LookupIsExact, Answered
  <2>3. CASE UNCHANGED libraryVars
    BY <2>3 DEF libraryVars, LookupIsExact, Answered, Reply
  <2> QED BY <2>1, <2>2, <2>3 DEF LibraryNext
<1> QED BY <1>1, <1>2, QuestionsStay, PTL DEF LibrarySpec

-----------------------------------------------------------------------------
(* Flattening                                                                *)

\* f holds the concatenations of the first k of some sequences.
Flattens(f, k, seqs, X) ==
  /\ f \in [1 .. k -> Seq(X)]
  /\ \A i \in 1 .. k : f[i] = IF i = 1 THEN seqs[i] ELSE f[i - 1] \o seqs[i]

LEMMA FlattenExists ==
  ASSUME NEW X, NEW seqs \in Seq(Seq(X))
  PROVE  \A k \in 1 .. Len(seqs) : \E f : Flattens(f, k, seqs, X)
<1> DEFINE n == Len(seqs)
           I == {k \in 1 .. n : ~\E f : Flattens(f, k, seqs, X)}
<1>1. n \in Nat /\ DOMAIN seqs = 1 .. n /\ \A i \in 1 .. n : seqs[i] \in Seq(X)
  OBVIOUS
<1>2. I \in SUBSET (1 .. n) /\ \A k \in 1 .. n : k \in I <=> ~\E f : Flattens(f, k, seqs, X)
  OBVIOUS
<1> HIDE DEF I, n
<1>3. I = {}
  <2> SUFFICES ASSUME I # {} PROVE FALSE
    OBVIOUS
  <2> DEFINE k == Min(I)
  <2>1. k \in I /\ k \in 1 .. n /\ \A i \in I : k <= i
    BY <1>1, <1>2, FirstThatIs
  <2> HIDE DEF k
  <2>2. CASE k = 1
    <3> DEFINE f == [i \in 1 .. 1 |-> seqs[1]]
    <3>1. Flattens(f, k, seqs, X)
      BY <1>1, <2>1, <2>2 DEF Flattens
    <3> QED BY <1>2, <2>1, <3>1
  <2>3. CASE k # 1
    <3>1. k - 1 \in 1 .. n /\ k - 1 \notin I /\ \A i \in 1 .. k : i = k \/ i \in 1 .. k - 1
      BY <1>1, <2>1, <2>3
    <3>2. PICK e : Flattens(e, k - 1, seqs, X)
      BY <1>2, <3>1
    <3> DEFINE f == [i \in 1 .. k |-> IF i = k THEN e[k - 1] \o seqs[k] ELSE e[i]]
    <3>3. e[k - 1] \in Seq(X) /\ seqs[k] \in Seq(X) /\ e[k - 1] \o seqs[k] \in Seq(X)
      <4>1. k - 1 \in 1 .. k - 1
        BY <2>1, <2>3
      <4>2. e[k - 1] \in Seq(X) /\ seqs[k] \in Seq(X)
        BY <1>1, <2>1, <3>2, <4>1 DEF Flattens
      <4> QED BY <4>2
    <3>4. f \in [1 .. k -> Seq(X)]
      BY <3>1, <3>2, <3>3 DEF Flattens
    <3>5. ASSUME NEW i \in 1 .. k PROVE f[i] = IF i = 1 THEN seqs[i] ELSE f[i - 1] \o seqs[i]
      <4>1. CASE i = k
        <5>1. k \in 1 .. k /\ k - 1 \in 1 .. k /\ k - 1 # k
          BY <2>1, <2>3
        <5>2. f[k] = e[k - 1] \o seqs[k]
          BY <5>1
        <5>3. f[k - 1] = e[k - 1]
          BY <5>1
        <5> HIDE DEF f
        <5> QED BY <2>3, <4>1, <5>2, <5>3
      <4>2. CASE i # k
        <5>1. i \in 1 .. k - 1 /\ f[i] = e[i]
          BY <3>1, <4>2
        <5>2. e[i] = IF i = 1 THEN seqs[i] ELSE e[i - 1] \o seqs[i]
          BY <3>2, <5>1 DEF Flattens
        <5>3. i # 1 => i - 1 \in 1 .. k /\ i - 1 # k /\ f[i - 1] = e[i - 1]
          BY <2>1, <5>1
        <5> QED BY <5>1, <5>2, <5>3
      <4> QED BY <4>1, <4>2
    <3>6. Flattens(f, k, seqs, X)
      <4> HIDE DEF f
      <4> QED BY <3>4, <3>5 DEF Flattens
    <3> QED BY <1>2, <2>1, <3>6
  <2> QED BY <2>2, <2>3
<1> QED BY <1>2, <1>3 DEF n

LEMMA FlattenSeqIs ==
  ASSUME NEW X, NEW seqs \in Seq(Seq(X))
  PROVE  /\ FlattenSeq(seqs) \in Seq(X)
         /\ seqs = <<>> => FlattenSeq(seqs) = <<>>
         /\ seqs # <<>> => /\ Len(seqs) \in 1 .. Len(seqs)
                           /\ \E f : Flattens(f, Len(seqs), seqs, X) /\ FlattenSeq(seqs) = f[Len(seqs)]
<1> DEFINE n == Len(seqs)
           Body(f) == [i \in 1 .. n |-> IF i = 1 THEN seqs[i] ELSE f[i - 1] \o seqs[i]]
           g == CHOOSE f : f = Body(f)
<1>1. n \in Nat /\ (n = 0 <=> seqs = <<>>) /\ \A i \in 1 .. n : seqs[i] \in Seq(X)
  OBVIOUS
<1>2. FlattenSeq(seqs) = IF n = 0 THEN seqs ELSE g[n]
  BY DEF FlattenSeq
<1>3. CASE n = 0
  <2>1. seqs = <<>> /\ <<>> \in Seq(X)
    BY <1>1, <1>3
  <2> QED BY <1>2, <1>3, <2>1
<1>4. CASE n # 0
  <2>1. n \in 1 .. n
    BY <1>1, <1>4
  <2>2. PICK f : Flattens(f, n, seqs, X)
    BY <2>1, FlattenExists
  <2>3. f = Body(f)
    BY <2>2 DEF Flattens
  <2>4. g = Body(g)
    <3> HIDE DEF Body
    <3> QED BY <2>3
  <2>5. \A i \in 1 .. n : g[i] = IF i = 1 THEN seqs[i] ELSE g[i - 1] \o seqs[i]
    <3> HIDE DEF g
    <3> QED BY <2>4
  <2> DEFINE I == {i \in 1 .. n : f[i] # g[i]}
  <2> HIDE DEF g
  <2>6. I \in SUBSET (1 .. n) /\ \A i \in 1 .. n : i \in I <=> f[i] # g[i]
    OBVIOUS
  <2> HIDE DEF I, n
  <2>7. I = {}
    <3> SUFFICES ASSUME I # {} PROVE FALSE
      OBVIOUS
    <3> DEFINE k == Min(I)
    <3>1. k \in I /\ k \in 1 .. n /\ \A i \in I : k <= i
      BY <1>1, <2>6, FirstThatIs
    <3> HIDE DEF k
    <3>2. k # 1 => k - 1 \in 1 .. n /\ k - 1 \notin I
      BY <1>1, <2>6, <3>1
    <3>3. f[k] = IF k = 1 THEN seqs[k] ELSE f[k - 1] \o seqs[k]
      BY <2>2, <3>1 DEF Flattens
    <3> QED BY <2>5, <2>6, <3>1, <3>2, <3>3
  <2>8. f[n] = g[n] /\ f[n] \in Seq(X)
    BY <2>1, <2>2, <2>6, <2>7 DEF Flattens
  <2>9. FlattenSeq(seqs) = f[n] /\ seqs # <<>>
    BY <1>1, <1>2, <1>4, <2>8
  <2> QED BY <2>1, <2>2, <2>8, <2>9 DEF n
<1> QED BY <1>3, <1>4

LEMMA FlattensOnce ==
  ASSUME NEW X, NEW seqs, NEW tqs, NEW n \in Nat, NEW m \in Nat, n <= m, NEW f, NEW g,
         Flattens(f, n, seqs, X), Flattens(g, m, tqs, X), \A i \in 1 .. n : seqs[i] = tqs[i]
  PROVE  \A i \in 1 .. n : f[i] = g[i]
<1> DEFINE I == {i \in 1 .. n : f[i] # g[i]}
<1>1. I \in SUBSET (1 .. n) /\ \A i \in 1 .. n : i \in I <=> f[i] # g[i]
  OBVIOUS
<1> HIDE DEF I
<1>2. I = {}
  <2> SUFFICES ASSUME I # {} PROVE FALSE
    OBVIOUS
  <2> DEFINE k == Min(I)
  <2>1. k \in I /\ k \in 1 .. n /\ \A i \in I : k <= i
    BY <1>1, FirstThatIs
  <2> HIDE DEF k
  <2>2. k # 1 => k - 1 \in 1 .. n /\ k - 1 \notin I
    BY <1>1, <2>1
  <2>3. /\ f[k] = IF k = 1 THEN seqs[k] ELSE f[k - 1] \o seqs[k]
        /\ g[k] = IF k = 1 THEN tqs[k] ELSE g[k - 1] \o tqs[k]
    <3>1. k \in 1 .. m
      BY <2>1
    <3> QED BY <2>1, <3>1 DEF Flattens
  <2> QED BY <1>1, <2>1, <2>2, <2>3
<1> QED BY <1>1, <1>2

\* One sequence more is one more at the end.
LEMMA FlattenAppend ==
  ASSUME NEW X, NEW seqs \in Seq(Seq(X)), NEW s \in Seq(X)
  PROVE  FlattenSeq(Append(seqs, s)) = FlattenSeq(seqs) \o s
<1> DEFINE n == Len(seqs)
           all == Append(seqs, s)
<1>1. /\ n \in Nat /\ all \in Seq(Seq(X)) /\ Len(all) = n + 1 /\ all # <<>> /\ all[n + 1] = s
      /\ \A i \in 1 .. n : all[i] = seqs[i]
  <2> DEFINE T == Seq(X)
  <2>1. seqs \in Seq(T) /\ s \in T
    OBVIOUS
  <2> HIDE DEF T
  <2>2. n \in Nat /\ all \in Seq(T) /\ Len(all) = n + 1 /\ all[n + 1] = s
    BY <2>1
  <2>3. all # <<>> /\ \A i \in 1 .. n : all[i] = seqs[i]
    BY <2>1
  <2> QED BY <2>2, <2>3 DEF T
<1> HIDE DEF all
<1>2. PICK g : Flattens(g, n + 1, all, X) /\ FlattenSeq(all) = g[n + 1]
  BY <1>1, FlattenSeqIs
<1>3. g[n + 1] = IF n + 1 = 1 THEN s ELSE g[(n + 1) - 1] \o s
  <2>1. n + 1 \in 1 .. n + 1
    BY <1>1
  <2> QED BY <1>1, <1>2, <2>1 DEF Flattens
<1>4. CASE seqs = <<>>
  <2>1. FlattenSeq(seqs) = <<>> /\ n = 0
    BY <1>4, FlattenSeqIs
  <2>2. <<>> \o s = s
    OBVIOUS
  <2> QED BY <1>2, <1>3, <2>1, <2>2 DEF all
<1>5. CASE seqs # <<>>
  <2>1. PICK f : Flattens(f, n, seqs, X) /\ FlattenSeq(seqs) = f[n]
    BY <1>5, FlattenSeqIs
  <2>2. n \in 1 .. n /\ n + 1 # 1 /\ (n + 1) - 1 = n /\ n <= n + 1 /\ n + 1 \in Nat
    BY <1>1, <1>5
  <2> HIDE DEF n
  <2>3. \A i \in 1 .. n : seqs[i] = all[i]
    BY <1>1
  <2>4. f[n] = g[n]
    BY <1>1, <1>2, <2>1, <2>2, <2>3, FlattensOnce
  <2> QED BY <1>2, <1>3, <2>1, <2>2, <2>4 DEF all
<1> QED BY <1>4, <1>5

\* Induction over the numbers up to n, for a set of them.
LEMMA UpTo ==
  ASSUME NEW n \in Nat, NEW H, 0 \in H, \A k \in 1 .. n : k - 1 \in H => k \in H
  PROVE  n \in H
<1> DEFINE I == (1 .. n) \ H
<1> SUFFICES ASSUME n \notin H PROVE FALSE
  OBVIOUS
<1>1. I \in SUBSET (1 .. n) /\ I # {}
  BY n \in Nat, n \notin H, 0 \in H
<1>2. Min(I) \in I /\ \A i \in I : Min(I) <= i
  <2> HIDE DEF I
  <2> QED BY <1>1, FirstThatIs
<1> DEFINE k == Min(I)
<1>3. k \in 1 .. n /\ k \notin H /\ k - 1 \notin H
  BY <1>2
<1>4. k - 1 \in 0 .. n /\ k - 1 # 0 /\ k - 1 \notin I
  <2>1. k # 1
    BY <1>3
  <2> HIDE DEF k
  <2>2. k - 1 \in 0 .. n /\ k - 1 # 0 /\ ~(k <= k - 1)
    BY <1>3, <2>1
  <2> QED BY <1>2, <2>2 DEF k
<1> QED BY <1>3, <1>4

\* out is what F makes of the items of s, of which each is one item or none.
Yielding(s, F) == {k \in DOMAIN s : F[s[k]] # <<>>}
Covers(out, s, F, M) ==
  /\ out \in Seq(M)
  /\ \E at : Places(at, Len(out), Yielding(s, F)) /\ \A m \in 1 .. Len(out) : out[m] = F[s[at[m]]][1]

LEMMA CoversNothing ==
  ASSUME NEW F, NEW M
  PROVE  Covers(<<>>, <<>>, F, M)
<1> DEFINE at == [k \in {} |-> 0]
<1>1. Yielding(<<>>, F) = {} /\ <<>> \in Seq(M) /\ Len(<<>>) = 0 /\ 1 .. 0 = {}
  BY DEF Yielding
<1>2. Places(at, 0, {})
  BY <1>1 DEF Places
<1> QED BY <1>1, <1>2 DEF Covers

LEMMA CoversOne ==
  ASSUME NEW X, NEW M, NEW F \in [X -> Seq(M)], NEW x \in X, Len(F[x]) <= 1
  PROVE  Covers(F[x], <<x>>, F, M)
<1> DEFINE y == F[x]
<1>1. y \in Seq(M) /\ Len(y) \in {0, 1} /\ (Len(y) = 0 <=> y = <<>>) /\ DOMAIN <<x>> = {1} /\ <<x>>[1] = x
  <2>1. y \in Seq(M)
    OBVIOUS
  <2> HIDE DEF y
  <2>2. Len(y) \in {0, 1}
    <3>1. Len(y) <= 1
      BY DEF y
    <3>2. Len(y) \in Nat
      BY <2>1
    <3> DEFINE n == Len(y)
    <3> HIDE DEF n
    <3>3. n \in Nat /\ n <= 1
      BY <3>1, <3>2 DEF n
    <3>4. n = 0 \/ n = 1
      BY ONLY <3>3
    <3> QED BY <3>4 DEF n
  <2>3. (Len(y) = 0 <=> y = <<>>) /\ DOMAIN <<x>> = {1} /\ <<x>>[1] = x
    BY <2>1
  <2> QED BY <2>1, <2>2, <2>3
<1>2. CASE Len(y) = 0
  <2> DEFINE at == [k \in {} |-> 0]
  <2>1. Yielding(<<x>>, F) = {} /\ 1 .. 0 = {}
    BY <1>1, <1>2 DEF Yielding
  <2>2. Places(at, 0, {})
    BY <2>1 DEF Places
  <2> QED BY <1>1, <1>2, <2>1, <2>2 DEF Covers
<1>3. CASE Len(y) = 1
  <2> DEFINE at == [k \in {1} |-> 1]
  <2>1. Yielding(<<x>>, F) = {1} /\ 1 .. 1 = {1}
    BY <1>1, <1>3 DEF Yielding
  <2>2. Places(at, 1, {1})
    BY <2>1 DEF Places
  <2>3. y[1] = F[<<x>>[at[1]]][1]
    BY <1>1
  <2> HIDE DEF at
  <2> QED BY <1>1, <1>3, <2>1, <2>2, <2>3 DEF Covers
<1> QED BY <1>1, <1>2, <1>3

LEMMA CoversJoin ==
  ASSUME NEW X, NEW M, NEW F, NEW s \in Seq(X), NEW t \in Seq(X), NEW out, NEW more,
         Covers(out, s, F, M), Covers(more, t, F, M)
  PROVE  Covers(out \o more, s \o t, F, M)
<1> DEFINE m == Len(out)
           n == Len(more)
           l == Len(s)
           u == s \o t
           all == out \o more
           A == Yielding(s, F)
           B == Yielding(t, F)
           C == Yielding(u, F)
<1>1. /\ m \in Nat /\ n \in Nat /\ l \in Nat /\ Len(t) \in Nat
      /\ all \in Seq(M) /\ Len(all) = m + n
      /\ \A i \in 1 .. m : all[i] = out[i]
      /\ \A i \in 1 .. n : all[m + i] = more[i]
      /\ DOMAIN s = 1 .. l /\ DOMAIN t = 1 .. Len(t) /\ DOMAIN u = 1 .. l + Len(t)
      /\ \A i \in 1 .. l : u[i] = s[i]
      /\ \A i \in 1 .. Len(t) : u[l + i] = t[i]
  BY DEF Covers
<1>2. PICK a : Places(a, m, A) /\ \A i \in 1 .. m : out[i] = F[s[a[i]]][1]
  BY DEF Covers
<1>3. PICK b : Places(b, n, B) /\ \A i \in 1 .. n : more[i] = F[t[b[i]]][1]
  BY DEF Covers
<1>4. /\ \A k \in A : k \in C /\ k \in 1 .. l /\ u[k] = s[k]
      /\ \A k \in B : l + k \in C /\ k \in 1 .. Len(t) /\ u[l + k] = t[k]
      /\ \A k \in C : k \in A \/ (k - l \in B /\ l + (k - l) = k)
  <2>1. \A k \in 1 .. l : k \in 1 .. l + Len(t)
    BY <1>1
  <2>2. \A k \in 1 .. Len(t) : l + k \in 1 .. l + Len(t)
    BY <1>1
  <2>3. \A k \in 1 .. l + Len(t) : k \in 1 .. l \/ (k - l \in 1 .. Len(t) /\ l + (k - l) = k)
    BY <1>1
  <2> HIDE DEF l, u
  <2> QED BY <1>1, <2>1, <2>2, <2>3 DEF Yielding
<1> HIDE DEF m, n, l, u, all, A, B, C
<1> DEFINE at == [i \in 1 .. m + n |-> IF i <= m THEN a[i] ELSE l + b[i - m]]
<1>5. /\ \A i \in 1 .. m + n : i \in 1 .. m \/ (i > m /\ i - m \in 1 .. n /\ m + (i - m) = i)
      /\ \A i \in 1 .. m : i \in 1 .. m + n /\ at[i] = a[i] /\ a[i] \in A
      /\ \A i \in 1 .. n : m + i \in 1 .. m + n /\ at[m + i] = l + b[i] /\ b[i] \in B
  <2>1. \A i \in 1 .. m + n : i \in 1 .. m \/ (i > m /\ i - m \in 1 .. n /\ m + (i - m) = i)
    BY <1>1
  <2>2. \A i \in 1 .. m : i \in 1 .. m + n /\ i <= m
    BY <1>1
  <2>3. \A i \in 1 .. n : m + i \in 1 .. m + n /\ ~(m + i <= m) /\ (m + i) - m = i
    BY <1>1
  <2>4. (\A i \in 1 .. m : a[i] \in A) /\ (\A i \in 1 .. n : b[i] \in B)
    BY <1>2, <1>3 DEF Places
  <2> QED BY <2>1, <2>2, <2>3, <2>4
<1>6. DOMAIN at = 1 .. m + n
  OBVIOUS
<1>7. at = [i \in 1 .. m + n |-> at[i]]
  OBVIOUS
<1> HIDE DEF at
<1>8. \A i \in 1 .. m + n : at[i] \in C
  BY <1>4, <1>5
<1>9. \A k \in C : \E i \in 1 .. m + n : at[i] = k
  <2>1. ASSUME NEW k \in A PROVE \E i \in 1 .. m + n : at[i] = k
    <3>1. PICK i \in 1 .. m : a[i] = k
      BY <1>2 DEF Places
    <3> QED BY <1>5, <3>1
  <2>2. ASSUME NEW k \in B PROVE \E i \in 1 .. m + n : at[i] = l + k
    <3>1. PICK i \in 1 .. n : b[i] = k
      BY <1>3 DEF Places
    <3> QED BY <1>5, <3>1
  <2> QED BY <1>4, <2>1, <2>2
<1>10. ASSUME NEW i \in 1 .. m + n, NEW j \in 1 .. m + n, i < j
       PROVE  at[i] < at[j]
  <2>1. CASE i \in 1 .. m /\ j \in 1 .. m
    <3>1. a[i] < a[j]
      BY <1>2, <1>10, <2>1 DEF Places
    <3> QED BY <1>5, <2>1, <3>1
  <2>2. CASE i \in 1 .. m /\ j > m
    <3>1. j - m \in 1 .. n /\ at[j] = l + b[j - m] /\ b[j - m] \in 1 .. Len(t)
      BY <1>1, <1>4, <1>5, <2>2
    <3>2. at[i] = a[i] /\ a[i] \in 1 .. l
      BY <1>4, <1>5, <2>2
    <3> QED BY ONLY <1>1, <3>1, <3>2, SMTT(30)
  <2>3. CASE i > m
    <3>1. i - m \in 1 .. n /\ j - m \in 1 .. n /\ i - m < j - m
      BY <1>1, <1>10, <2>3
    <3>2. b[i - m] < b[j - m] /\ b[i - m] \in 1 .. Len(t) /\ b[j - m] \in 1 .. Len(t)
      BY <1>3, <1>4, <1>5, <3>1 DEF Places
    <3>3. at[i] = l + b[i - m] /\ at[j] = l + b[j - m]
      BY <1>1, <1>5, <1>10, <2>3, SMTT(30)
    <3> QED BY ONLY <1>1, <3>2, <3>3, SMTT(30)
  <2> QED BY <1>1, <1>5, <1>10, <2>1, <2>2, <2>3
<1>11. Places(at, m + n, C)
  <2>1. \A k \in C : k \in 1 .. l + Len(t)
    BY <1>1 DEF C, Yielding
  <2>2. \A i \in 1 .. m + n : at[i] \in Int
    BY <1>1, <1>8, <2>1
  <2>3. \A i, j \in 1 .. m + n : i = j \/ i < j \/ j < i
    BY <1>1
  <2>4. \A i, j \in 1 .. m + n : i < j <=> at[i] < at[j]
    BY <1>10, <2>2, <2>3
  <2>5. \A i, j \in 1 .. m + n : at[i] = at[j] => i = j
    BY <1>10, <2>2, <2>3
  <2>6. at \in [1 .. m + n -> C] /\ m + n \in Nat
    BY <1>1, <1>7, <1>8
  <2> QED BY <1>9, <2>4, <2>5, <2>6 DEF Places
<1>12. ASSUME NEW i \in 1 .. m + n PROVE all[i] = F[u[at[i]]][1]
  <2>1. CASE i \in 1 .. m
    <3>1. all[i] = out[i] /\ out[i] = F[s[a[i]]][1]
      BY <1>1, <1>2, <2>1
    <3>2. at[i] = a[i] /\ u[a[i]] = s[a[i]]
      BY <1>4, <1>5, <2>1
    <3> QED BY <3>1, <3>2
  <2>2. CASE i > m
    <3>1. i - m \in 1 .. n /\ m + (i - m) = i
      BY <1>1, <2>2
    <3>2. all[m + (i - m)] = more[i - m] /\ more[i - m] = F[t[b[i - m]]][1]
      BY <1>1, <1>3, <3>1
    <3>3. at[m + (i - m)] = l + b[i - m] /\ u[l + b[i - m]] = t[b[i - m]]
      BY <1>4, <1>5, <3>1
    <3> QED BY <3>1, <3>2, <3>3
  <2> QED BY <1>5, <2>1, <2>2
<1>13. Covers(all, u, F, M)
  <2>1. \A i \in 1 .. Len(all) : all[i] = F[u[at[i]]][1]
    BY <1>1, <1>12
  <2>2. all \in Seq(M) /\ Places(at, Len(all), Yielding(u, F))
    BY <1>1, <1>11 DEF C
  <2> QED BY <2>1, <2>2 DEF Covers
<1> QED BY <1>13 DEF u, all

LEMMA FlattenCovers ==
  ASSUME NEW X, NEW M, NEW F, NEW outs \in Seq(Seq(M)), NEW parts \in Seq(Seq(X)),
         Len(outs) = Len(parts), \A i \in 1 .. Len(parts) : Covers(outs[i], parts[i], F, M)
  PROVE  Covers(FlattenSeq(outs), FlattenSeq(parts), F, M)
<1> DEFINE n == Len(parts)
<1>1. n \in Nat /\ (n = 0 <=> parts = <<>>) /\ (n = 0 <=> outs = <<>>)
  OBVIOUS
<1>2. CASE n = 0
  BY <1>1, <1>2, FlattenSeqIs, CoversNothing
<1>3. CASE n # 0
  <2>1. n \in 1 .. n /\ Len(outs) = n /\ parts # <<>> /\ outs # <<>>
    BY <1>1, <1>3
  <2>2. PICK f : Flattens(f, n, parts, X) /\ FlattenSeq(parts) = f[n]
    BY <2>1, FlattenSeqIs
  <2>3. PICK g : Flattens(g, n, outs, M) /\ FlattenSeq(outs) = g[n]
    BY <2>1, FlattenSeqIs
  <2> DEFINE H == {k \in 0 .. n : k = 0 \/ Covers(g[k], f[k], F, M)}
  <2> HIDE DEF n
  <2>4. ASSUME NEW k \in 1 .. n, k - 1 \in H PROVE k \in H
    <3>1. /\ f[k] = IF k = 1 THEN parts[k] ELSE f[k - 1] \o parts[k]
          /\ g[k] = IF k = 1 THEN outs[k] ELSE g[k - 1] \o outs[k]
      BY <2>2, <2>3 DEF Flattens
    <3>2. Covers(outs[k], parts[k], F, M)
      BY DEF n
    <3>3. CASE k = 1
      BY <1>1, <3>1, <3>2, <3>3
    <3>4. CASE k # 1
      <4>1. k - 1 \in 1 .. n /\ k - 1 # 0 /\ k \in 0 .. n
        BY <1>1, <3>4
      <4>2. Covers(g[k - 1], f[k - 1], F, M)
        BY <2>4, <4>1
      <4>3. f[k - 1] \in Seq(X) /\ parts[k] \in Seq(X)
        <5>1. f[k - 1] \in Seq(X)
          BY <2>2, <4>1 DEF Flattens
        <5>2. parts[k] \in Seq(X)
          <6>1. k \in 1 .. Len(parts)
            BY DEF n
          <6> QED BY <6>1
        <5> QED BY <5>1, <5>2
      <4>4. Covers(g[k - 1] \o outs[k], f[k - 1] \o parts[k], F, M)
        BY <3>2, <4>2, <4>3, CoversJoin
      <4> QED BY <3>1, <3>4, <4>1, <4>4
    <3> QED BY <3>3, <3>4
  <2>5. n \in H
    <3>1. 0 \in H
      BY <1>1
    <3> HIDE DEF H
    <3> QED BY <1>1, <2>4, <3>1, UpTo
  <2> QED BY <1>3, <2>2, <2>3, <2>5
<1> QED BY <1>2, <1>3

LEMMA FlattenSingles ==
  ASSUME NEW X, NEW s \in Seq(X)
  PROVE  FlattenSeq([i \in DOMAIN s |-> <<s[i]>>]) = s
<1> DEFINE n == Len(s)
           parts == [i \in DOMAIN s |-> <<s[i]>>]
<1>1. /\ n \in Nat /\ DOMAIN s = 1 .. n /\ parts \in Seq(Seq(X)) /\ Len(parts) = n
      /\ (n = 0 <=> parts = <<>>) /\ (n = 0 => s = <<>>)
      /\ \A i \in 1 .. n : parts[i] = <<s[i]>> /\ s[i] \in X
  <2>1. n \in Nat /\ DOMAIN s = 1 .. n /\ (n = 0 => s = <<>>) /\ \A i \in 1 .. n : s[i] \in X
    OBVIOUS
  <2>2. \A i \in 1 .. n : <<s[i]>> \in Seq(X)
    BY <2>1
  <2> DEFINE T == Seq(X)
  <2> HIDE DEF T, n
  <2>3. parts \in [1 .. n -> T] /\ \A i \in 1 .. n : parts[i] = <<s[i]>>
    BY <2>1, <2>2 DEF T
  <2> HIDE DEF parts
  <2>4. parts \in Seq(T) /\ Len(parts) = n /\ (n = 0 <=> parts = <<>>)
    BY <2>1, <2>3
  <2> QED BY <2>1, <2>3, <2>4 DEF T, n
<1> HIDE DEF parts
<1>2. CASE n = 0
  BY <1>1, <1>2, FlattenSeqIs DEF parts
<1>3. CASE n # 0
  <2>1. PICK f : Flattens(f, n, parts, X) /\ FlattenSeq(parts) = f[n]
    BY <1>1, <1>3, FlattenSeqIs
  <2> DEFINE H == {k \in 0 .. n : k = 0 \/ f[k] = SubSeq(s, 1, k)}
  <2>2. ASSUME NEW k \in 1 .. n, k - 1 \in H PROVE k \in H
    <3>1. f[k] = IF k = 1 THEN <<s[k]>> ELSE f[k - 1] \o <<s[k]>>
      BY <1>1, <2>1 DEF Flattens
    <3>2. CASE k = 1
      <4>1. SubSeq(s, 1, 1) = <<s[1]>>
        <5>1. 1 \in 1 .. n /\ s[1] \in X
          BY <1>1, <3>2
        <5>2. \A i \in 1 .. 1 : s[i] \in X
          BY <5>1
        <5>3. /\ SubSeq(s, 1, 1) \in Seq(X) /\ Len(SubSeq(s, 1, 1)) = 1
              /\ \A i \in 1 .. 1 : SubSeq(s, 1, 1)[i] = s[i]
          BY <5>2, SubSeqProperties
        <5> DEFINE u == SubSeq(s, 1, 1)
                   v == <<s[1]>>
        <5>4. v \in Seq(X) /\ Len(v) = 1 /\ v[1] = s[1]
          BY <5>1
        <5>5. u \in Seq(X) /\ Len(u) = 1 /\ u[1] = s[1]
          BY <5>3
        <5> HIDE DEF u, v
        <5>6. u = v
          BY <5>4, <5>5, SeqEqual
        <5> QED BY <5>6 DEF u, v
      <4> QED BY <1>1, <3>1, <3>2, <4>1
    <3>3. CASE k # 1
      <4>1. k - 1 \in 1 .. n /\ k - 1 # 0 /\ k \in 0 .. n
        BY <1>1, <3>3
      <4>2. f[k - 1] = SubSeq(s, 1, k - 1)
        BY <2>2, <4>1
      <4>3. SubSeq(s, 1, k - 1) \o <<s[k]>> = SubSeq(s, 1, k)
        BY <1>1, <4>1
      <4> QED BY <3>1, <3>3, <4>1, <4>2, <4>3
    <3> QED BY <3>2, <3>3
  <2>3. n \in H
    <3>1. 0 \in H
      BY <1>1
    <3> HIDE DEF H, n
    <3> QED BY <1>1, <2>2, <3>1, UpTo
  <2>4. SubSeq(s, 1, n) = s
    BY <1>1
  <2> QED BY <1>3, <2>1, <2>3, <2>4 DEF parts
<1> QED BY <1>2, <1>3

\* What one batch yields.
LEMMA EachCovers ==
  ASSUME NEW X, NEW M, NEW F \in [X -> Seq(M)], \A x \in X : Len(F[x]) <= 1, NEW s \in Seq(X)
  PROVE  Covers(FlattenSeq([i \in DOMAIN s |-> F[s[i]]]), s, F, M)
<1> DEFINE n == Len(s)
           outs == [i \in DOMAIN s |-> F[s[i]]]
           parts == [i \in DOMAIN s |-> <<s[i]>>]
           T == Seq(M)
           U == Seq(X)
<1>1. n \in Nat /\ DOMAIN s = 1 .. n /\ \A i \in 1 .. n : s[i] \in X /\ <<s[i]>> \in U /\ F[s[i]] \in T
  OBVIOUS
<1>2. \A i \in 1 .. n : Covers(F[s[i]], <<s[i]>>, F, M)
  BY <1>1, CoversOne
<1>3. FlattenSeq(parts) = s
  BY FlattenSingles
<1> HIDE DEF n, T, U
<1>4. outs \in [1 .. n -> T] /\ parts \in [1 .. n -> U]
  BY <1>1
<1>5. \A i \in 1 .. n : Covers(outs[i], parts[i], F, M)
  BY <1>1, <1>2
<1> HIDE DEF outs, parts
<1>6. outs \in Seq(T) /\ parts \in Seq(U) /\ Len(outs) = n /\ Len(parts) = n
  BY <1>1, <1>4
<1>7. Covers(FlattenSeq(outs), FlattenSeq(parts), F, M)
  BY <1>5, <1>6, FlattenCovers DEF T, U
<1> QED BY <1>3, <1>7 DEF outs

-----------------------------------------------------------------------------
(* Batches                                                                   *)

\* The accumulator after the places of s, for all s of the first k.
FillsOf(f, k, kept) ==
  f = [s \in SUBSET (1 .. k) |->
         IF s = {} THEN [full |-> <<>>, batch |-> <<>>] ELSE Fill(f[s \ {Max(s)}], kept[Max(s)])]

LEMMA FillsExist ==
  ASSUME NEW n \in Nat, NEW kept
  PROVE  \E f : FillsOf(f, n, kept)
<1> DEFINE none == [full |-> <<>>, batch |-> <<>>]
           H == {k \in 0 .. n : \E f : FillsOf(f, k, kept)}
<1>1. 0 \in H
  <2> DEFINE f == [s \in SUBSET (1 .. 0) |-> none]
  <2>1. SUBSET (1 .. 0) = {{}}
    OBVIOUS
  <2>2. FillsOf(f, 0, kept)
    BY <2>1 DEF FillsOf
  <2> QED BY <2>2
<1>2. ASSUME NEW k \in 1 .. n, k - 1 \in H PROVE k \in H
  <2>1. PICK e : FillsOf(e, k - 1, kept)
    BY <1>2
  <2>2. \A s \in SUBSET (1 .. k - 1) :
          e[s] = IF s = {} THEN none ELSE Fill(e[s \ {Max(s)}], kept[Max(s)])
    BY <2>1 DEF FillsOf
  <2> DEFINE f == [s \in SUBSET (1 .. k) |-> IF k \in s THEN Fill(e[s \ {k}], kept[k]) ELSE e[s]]
  <2>3. ASSUME NEW s \in SUBSET (1 .. k)
        PROVE  f[s] = IF s = {} THEN none ELSE Fill(f[s \ {Max(s)}], kept[Max(s)])
    <3>1. s # {} => Max(s) \in s /\ \A i \in s : i <= Max(s)
      BY LastThatIs
    <3>2. CASE k \in s
      <4>1. Max(s) = k
        <5>1. Max(s) \in 1 .. k /\ k <= Max(s)
          BY <3>1, <3>2
        <5> QED BY <5>1
      <4>2. s \ {k} \in SUBSET (1 .. k) /\ k \notin s \ {k} /\ s # {}
        BY <3>2
      <4>3. f[s \ {k}] = e[s \ {k}] /\ f[s] = Fill(e[s \ {k}], kept[k])
        BY <3>2, <4>2
      <4> HIDE DEF f
      <4> QED BY <4>1, <4>2, <4>3
    <3>3. CASE k \notin s
      <4>1. s \in SUBSET (1 .. k - 1)
        BY <3>3
      <4>2. f[s] = e[s] /\ f[s \ {Max(s)}] = e[s \ {Max(s)}]
        BY <3>3
      <4> HIDE DEF f
      <4> QED BY <2>2, <4>1, <4>2
    <3> QED BY <3>2, <3>3
  <2>4. FillsOf(f, k, kept)
    <3>1. f = [s \in SUBSET (1 .. k) |-> f[s]]
      OBVIOUS
    <3> HIDE DEF f
    <3> QED BY <2>3, <3>1 DEF FillsOf
  <2>5. k \in 0 .. n
    OBVIOUS
  <2> HIDE DEF f
  <2> QED BY <2>4, <2>5
<1> HIDE DEF H
<1>3. n \in H
  BY <1>1, <1>2, UpTo
<1> QED BY <1>3 DEF H

\* The full batches and the one that is being filled, one behind the other.
Holds(acc, u, X) ==
  acc.full \in Seq(Seq(X)) /\ acc.batch \in Seq(X) /\ FlattenSeq(acc.full) \o acc.batch = u

LEMMA AppendedIs ==
  ASSUME NEW T, NEW s \in Seq(T), NEW x \in T
  PROVE  Append(s, x) \in Seq(T) /\ Append(s, x) = s \o <<x>> /\ s \o <<>> = s
OBVIOUS

LEMMA FillHolds ==
  ASSUME NEW X, NEW acc, NEW u \in Seq(X), Holds(acc, u, X), NEW x \in X
  PROVE  Holds(Fill(acc, x), u \o <<x>>, X)
<1> DEFINE T == Seq(X)
           batch == Append(acc.batch, x)
           full == FlattenSeq(acc.full)
           one == <<x>>
<1>1. acc.full \in Seq(T) /\ acc.batch \in T /\ full \in T /\ full \o acc.batch = u /\ one \in T
  BY FlattenSeqIs DEF Holds
<1>2. batch \in T /\ batch = acc.batch \o one
  BY <1>1, AppendedIs
<1>3. full \o batch = u \o one
  <2> DEFINE v == acc.batch
  <2>1. full \in Seq(X) /\ v \in Seq(X) /\ one \in Seq(X) /\ batch = v \o one /\ full \o v = u
    BY <1>1, <1>2
  <2> HIDE DEF full, v, one, batch
  <2>2. full \o (v \o one) = (full \o v) \o one
    <3>1. \A a, b, c \in Seq(X) : (a \o b) \o c = a \o (b \o c)
      BY ConcatAssociative
    <3>2. full \in Seq(X) /\ v \in Seq(X) /\ one \in Seq(X)
      BY <2>1
    <3>3. (full \o v) \o one = full \o (v \o one)
      BY ONLY <3>1, <3>2, Zenon
    <3> QED BY ONLY <3>3
  <2> QED BY <2>1, <2>2
<1>4. CASE Len(batch) >= Chunk
  <2>1. Fill(acc, x) = [full |-> Append(acc.full, batch), batch |-> <<>>]
    BY <1>4 DEF Fill
  <2> HIDE DEF batch, one, full
  <2>2. Append(acc.full, batch) \in Seq(T)
    <3> HIDE DEF T
    <3> QED BY <1>1, <1>2, AppendedIs
  <2>3. FlattenSeq(Append(acc.full, batch)) = full \o batch
    BY <1>1, <1>2, FlattenAppend DEF full
  <2>4. u \o one \in T /\ (u \o one) \o <<>> = u \o one /\ <<>> \in T
    BY <1>1
  <2> DEFINE now == Fill(acc, x)
  <2>5. now.full = Append(acc.full, batch) /\ now.batch = <<>>
    BY <2>1
  <2> HIDE DEF now
  <2>6. now.full \in Seq(T) /\ now.batch \in T
    BY <2>2, <2>4, <2>5
  <2>7. FlattenSeq(now.full) \o now.batch = u \o one
    BY <1>3, <2>3, <2>4, <2>5
  <2> QED BY <2>6, <2>7 DEF Holds, one, now
<1>5. CASE ~(Len(batch) >= Chunk)
  <2>1. Fill(acc, x) = [acc EXCEPT !.batch = batch]
    BY <1>5 DEF Fill
  <2> HIDE DEF batch
  <2>2. Fill(acc, x).full = acc.full /\ Fill(acc, x).batch = batch
    BY <2>1
  <2> QED BY <1>1, <1>2, <1>3, <2>2 DEF Holds
<1> QED BY <1>4, <1>5

\* The batches, one behind the other, are what they were made of.
LEMMA BatchesAreAll ==
  ASSUME NEW X, NEW kept \in Seq(X)
  PROVE  Batches(kept) \in Seq(Seq(X)) /\ FlattenSeq(Batches(kept)) = kept
<1> DEFINE n == Len(kept)
           f == CHOOSE f : FillsOf(f, n, kept)
           H == {k \in 0 .. n : Holds(f[1 .. k], SubSeq(kept, 1, k), X)}
<1>1. n \in Nat /\ DOMAIN kept = 1 .. n /\ \A i \in 1 .. n : kept[i] \in X
  OBVIOUS
<1>2. Batched(kept) = f[1 .. n]
  BY <1>1 DEF Batched, FoldLeft, MapThenFoldSet, FillsOf
<1>3. FillsOf(f, n, kept)
  BY <1>1, FillsExist
<1> HIDE DEF f
<1>4. \A s \in SUBSET (1 .. n) : f[s] = IF s = {} THEN [full |-> <<>>, batch |-> <<>>]
                                        ELSE Fill(f[s \ {Max(s)}], kept[Max(s)])
  BY <1>3 DEF FillsOf
<1>5. 0 \in H
  <2>1. 1 .. 0 = {} /\ {} \in SUBSET (1 .. n)
    OBVIOUS
  <2>2. f[1 .. 0] = [full |-> <<>>, batch |-> <<>>]
    BY <1>4, <2>1
  <2>3. <<>> \in Seq(X) /\ <<>> \in Seq(Seq(X)) /\ SubSeq(kept, 1, 0) = <<>> /\ <<>> \o <<>> = <<>>
    <3>1. \A T : <<>> \in Seq(T)
      OBVIOUS
    <3>2. SubSeq(kept, 1, 0) = <<>> /\ <<>> \o <<>> = <<>>
      BY <1>1
    <3> QED BY <3>1, <3>2
  <2>4. FlattenSeq(<<>>) = <<>>
    BY <2>3, FlattenSeqIs
  <2> DEFINE acc == f[1 .. 0]
             u == SubSeq(kept, 1, 0)
  <2>7. acc.full = <<>> /\ acc.batch = <<>>
    BY <2>2
  <2> HIDE DEF acc, u
  <2>8. u = <<>>
    BY <2>3 DEF u
  <2>9. Holds(acc, u, X)
    BY <2>3, <2>4, <2>7, <2>8 DEF Holds
  <2>5. Holds(f[1 .. 0], SubSeq(kept, 1, 0), X)
    BY <2>9 DEF acc, u
  <2>6. 0 \in 0 .. n
    BY <1>1
  <2> QED BY <2>5, <2>6
<1>6. ASSUME NEW k \in 1 .. n, k - 1 \in H PROVE k \in H
  <2> DEFINE t == 1 .. k
             u == SubSeq(kept, 1, k - 1)
  <2>1. k \in Nat \ {0} /\ k \in 0 .. n /\ k \in t /\ \A i \in t : i \in 1 .. n
    BY <1>1
  <2>2. Max(t) = k /\ t \ {Max(t)} = 1 .. k - 1
    BY <2>1, LastOfAll
  <2> HIDE DEF t
  <2>3. f[t] = Fill(f[1 .. k - 1], kept[k])
    <3>1. t \in SUBSET (1 .. n) /\ t # {}
      BY <2>1
    <3> QED BY <1>4, <2>2, <3>1
  <2>4. u \in Seq(X) /\ u \o <<kept[k]>> = SubSeq(kept, 1, k) /\ kept[k] \in X
    BY <1>1, <2>1
  <2>5. Holds(f[1 .. k - 1], u, X)
    BY <1>6
  <2> HIDE DEF u
  <2>6. Holds(f[t], SubSeq(kept, 1, k), X)
    BY <2>3, <2>4, <2>5, FillHolds
  <2> QED BY <2>1, <2>6 DEF t
<1>7. n \in H
  <2> HIDE DEF H, n
  <2> QED BY <1>1, <1>5, <1>6, UpTo
<1> DEFINE acc == f[1 .. n]
<1>8. Holds(acc, kept, X)
  <2>1. SubSeq(kept, 1, n) = kept
    BY <1>1
  <2> QED BY <1>7, <2>1
<1> HIDE DEF acc
<1>9. Batches(kept) = Append(acc.full, acc.batch)
  BY <1>2 DEF Batches, acc
<1>10. Append(acc.full, acc.batch) \in Seq(Seq(X))
  <2> DEFINE T == Seq(X)
  <2>1. acc.full \in Seq(T) /\ acc.batch \in T
    BY <1>8 DEF Holds
  <2> HIDE DEF T
  <2>2. Append(acc.full, acc.batch) \in Seq(T)
    BY <2>1, AppendedIs
  <2> QED BY <2>2 DEF T
<1>11. FlattenSeq(Append(acc.full, acc.batch)) = FlattenSeq(acc.full) \o acc.batch
  BY <1>8, FlattenAppend DEF Holds
<1> QED BY <1>8, <1>9, <1>10, <1>11 DEF Holds

-----------------------------------------------------------------------------
(* What a snapshot yields                                                    *)

\* Some places of a list that is in order, in that order.
LEMMA PlacesListing ==
  ASSUME NEW list, NEW S, NEW W, Listing(list, S, W), NEW P \in SUBSET S,
         NEW I \in SUBSET DOMAIN list, \A i \in DOMAIN list : i \in I <=> list[i] \in P,
         NEW n \in Nat, NEW at, Places(at, n, I)
  PROVE  Listing([k \in 1 .. n |-> list[at[k]]], P, W)
<1> DEFINE out == [k \in 1 .. n |-> list[at[k]]]
<1>1. /\ list \in Seq(S) /\ DOMAIN list = 1 .. Len(list) /\ ToSet(list) = S
      /\ \A i, j \in DOMAIN list : list[i] = list[j] => i = j
      /\ \A i, j \in DOMAIN list : i < j => <<list[j], list[i]>> \notin W
  BY DEF Listing
<1>2. \A k \in 1 .. n : at[k] \in I /\ at[k] \in DOMAIN list /\ out[k] = list[at[k]] /\ out[k] \in P
  <2>1. \A k \in 1 .. n : at[k] \in I /\ at[k] \in DOMAIN list /\ out[k] = list[at[k]]
    BY DEF Places
  <2> HIDE DEF out
  <2> QED BY <2>1
<1>3. DOMAIN out = 1 .. n /\ out \in Seq(P)
  <2>1. out = [k \in 1 .. n |-> out[k]]
    OBVIOUS
  <2> HIDE DEF out
  <2> QED BY <1>2, <2>1
<1> HIDE DEF out
<1>4. ToSet(out) = P
  <2>1. ToSet(out) \subseteq P
    BY <1>2, <1>3 DEF ToSet
  <2>2. ASSUME NEW x \in P PROVE x \in ToSet(out)
    <3>1. PICK i \in DOMAIN list : list[i] = x
      BY <1>1 DEF ToSet
    <3>2. PICK k \in 1 .. n : at[k] = i
      BY <3>1 DEF Places
    <3> QED BY <1>2, <1>3, <3>1, <3>2 DEF ToSet
  <2> QED BY <2>1, <2>2
<1>5. ASSUME NEW i \in DOMAIN out, NEW j \in DOMAIN out
      PROVE  /\ out[i] = out[j] => i = j
             /\ i < j => <<out[j], out[i]>> \notin W
  <2>1. /\ i \in 1 .. n /\ j \in 1 .. n /\ out[i] = list[at[i]] /\ out[j] = list[at[j]]
        /\ at[i] \in DOMAIN list /\ at[j] \in DOMAIN list
    BY <1>2, <1>3
  <2>2. (i < j => at[i] < at[j]) /\ (at[i] = at[j] => i = j)
    BY <2>1 DEF Places
  <2> QED BY <1>1, <2>1, <2>2
<1>6. Listing(out, P, W)
  BY <1>3, <1>4, <1>5 DEF Listing
<1> QED BY <1>6 DEF out

LEMMA TakenListing ==
  ASSUME NEW list, NEW S, NEW W, Listing(list, S, W), NEW P \in SUBSET S,
         NEW I \in SUBSET DOMAIN list, \A i \in DOMAIN list : i \in I <=> list[i] \in P
  PROVE  Listing(Taken(list, I), P, W)
<1> DEFINE out == Taken(list, I)
<1>1. list \in Seq(S)
  BY DEF Listing
<1>2. out \in Seq(S) /\ Len(out) \in Nat /\ DOMAIN out = 1 .. Len(out)
  BY <1>1, TakenIs
<1>3. PICK at : Places(at, Len(out), I) /\ \A k \in 1 .. Len(out) : out[k] = list[at[k]]
  BY <1>1, TakenIs
<1> HIDE DEF out
<1>4. Listing([k \in 1 .. Len(out) |-> list[at[k]]], P, W)
  BY <1>2, <1>3, PlacesListing
<1>5. out = [k \in 1 .. Len(out) |-> list[at[k]]]
  BY <1>2, <1>3
<1>6. Listing(out, P, W)
  BY <1>4, <1>5
<1> QED BY <1>6 DEF out

Pairs(rows) == UNION {{<<i, c>> : c \in rows[i].chats} : i \in DOMAIN rows}
Picked(rows, params) ==
  {p \in Pairs(rows) :
     /\ params.chat \in {NoOne, p[2]}
     /\ params.since = 0 \/ rows[p[1]].date >= params.since
     /\ params.until = 0 \/ rows[p[1]].date < params.until}
ByDate(rows, params) ==
  {z \in Picked(rows, params) \X Picked(rows, params) :
     \/ rows[z[1][1]].date < rows[z[2][1]].date
     \/ rows[z[1][1]].date = rows[z[2][1]].date /\ z[1][1] < z[2][1]}

LEMMA RowsAre ==
  ASSUME NEW rows, Stored(rows)
  PROVE  /\ DOMAIN rows = 1 .. Len(rows) /\ Len(rows) \in Nat
         /\ \A i \in DOMAIN rows : /\ rows[i].guid \in Guids /\ rows[i].date \in Nat
                                   /\ rows[i].assoc \in Nat /\ rows[i].item \in Nat
                                   /\ rows[i].hasText \in BOOLEAN
                                   /\ IsFiniteSet(rows[i].chats)
                                   /\ rows[i].chats \in SUBSET STRING
         /\ \A i, j \in DOMAIN rows : rows[i].guid = rows[j].guid => i = j
<1>1. rows \in Seq(MessageRow) /\ \A i, j \in DOMAIN rows : rows[i].guid = rows[j].guid => i = j
  BY DEF Stored, Table
<1>2. DOMAIN rows = 1 .. Len(rows) /\ Len(rows) \in Nat /\ \A i \in DOMAIN rows : rows[i] \in MessageRow
  BY <1>1
<1>3. \A i \in DOMAIN rows : IsFiniteSet(rows[i].chats)
  BY DEF Stored
<1> QED BY <1>1, <1>2, <1>3 DEF MessageRow

LEMMA PairsAre ==
  ASSUME NEW rows, Stored(rows)
  PROVE  /\ IsFiniteSet(Pairs(rows))
         /\ \A p \in Pairs(rows) :
              p = <<p[1], p[2]>> /\ p[1] \in DOMAIN rows /\ p[2] \in rows[p[1]].chats
         /\ \A i \in DOMAIN rows : \A c \in rows[i].chats : <<i, c>> \in Pairs(rows)
<1> DEFINE Of(i) == {<<i, c>> : c \in rows[i].chats}
           D == DOMAIN rows
           all == {Of(i) : i \in D}
<1>1. \A i \in D : IsFiniteSet(Of(i))
  <2>1. ASSUME NEW i \in D PROVE IsFiniteSet(Of(i))
    <3> DEFINE f == [c \in rows[i].chats |-> <<i, c>>]
    <3>1. f \in Surjection(rows[i].chats, Of(i))
      BY DEF Surjection
    <3>2. IsFiniteSet(rows[i].chats)
      BY RowsAre
    <3> HIDE DEF f
    <3> QED BY <3>1, <3>2, FS_Surjection
  <2> QED BY <2>1
<1>2. IsFiniteSet(all)
  <2> DEFINE f == [i \in D |-> Of(i)]
  <2>1. f \in Surjection(D, all)
    BY DEF Surjection
  <2>2. IsFiniteSet(D)
    BY RowsAre, FS_Interval
  <2> HIDE DEF f, D
  <2> QED BY <2>1, <2>2, FS_Surjection
<1>3. Pairs(rows) = UNION all
  BY DEF Pairs
<1>4. IsFiniteSet(UNION all)
  <2>1. \A T \in all : IsFiniteSet(T)
    BY <1>1
  <2> HIDE DEF all
  <2> QED BY <1>2, <2>1, FS_UNION
<1>5. ASSUME NEW p \in Pairs(rows)
      PROVE  p = <<p[1], p[2]>> /\ p[1] \in DOMAIN rows /\ p[2] \in rows[p[1]].chats
  <2>1. PICK i \in D : p \in Of(i)
    BY <1>3
  <2>2. PICK c \in rows[i].chats : p = <<i, c>>
    BY <2>1
  <2> QED BY <2>2
<1>6. \A i \in DOMAIN rows : \A c \in rows[i].chats : <<i, c>> \in Pairs(rows)
  BY DEF Pairs
<1> QED BY <1>3, <1>4, <1>5, <1>6

\* The selection: the pairs of the window by date and ROWID.
LEMMA SelectedIs ==
  ASSUME NEW rows, Stored(rows), NEW params
  PROVE  Listing(Selected(rows, params), Picked(rows, params), ByDate(rows, params))
<1> DEFINE S == Picked(rows, params)
           W == ByDate(rows, params)
           list == SetToSeq(S)
           places == DOMAIN list
           R == {z \in places \X places :
                   \/ rows[list[z[1]][1]].date < rows[list[z[2]][1]].date
                   \/ /\ rows[list[z[1]][1]].date = rows[list[z[2]][1]].date
                      /\ list[z[1]][1] < list[z[2]][1]}
<1>1. Selected(rows, params) = Stably(list, R)
  BY DEF Selected, Sorted, Picked, Pairs
<1>2. IsFiniteSet(S)
  <2>1. S \in SUBSET Pairs(rows)
    BY DEF Picked
  <2> HIDE DEF S
  <2> QED BY <2>1, PairsAre, FS_Subset
<1>3. \A p \in S : p[1] \in DOMAIN rows /\ p[1] \in Nat /\ rows[p[1]].date \in Nat
  <2>1. \A p \in S : p \in Pairs(rows)
    BY DEF Picked
  <2> QED BY <2>1, PairsAre, RowsAre
<1>4. \A p, q \in S : <<p, q>> \in W <=> \/ rows[p[1]].date < rows[q[1]].date
                                         \/ rows[p[1]].date = rows[q[1]].date /\ p[1] < q[1]
  BY DEF ByDate
<1>5. \A i, j \in places : <<i, j>> \in R <=>
        \/ rows[list[i][1]].date < rows[list[j][1]].date
        \/ rows[list[i][1]].date = rows[list[j][1]].date /\ list[i][1] < list[j][1]
  OBVIOUS
<1> HIDE DEF S, W, R, list
<1>6. /\ list \in Seq(S) /\ ToSet(list) = S /\ \A i \in places : list[i] \in S
      /\ \A i, j \in places : list[i] = list[j] => i = j
  BY <1>2, SetToSeqIs DEF list
<1>7. \A i, j \in DOMAIN list : <<i, j>> \in R <=> <<list[i], list[j]>> \in W
  BY <1>4, <1>5, <1>6
<1>8. IsWeakOrder(W, S)
  <2>1. ASSUME NEW a \in S, NEW b \in S, NEW c \in S
        PROVE  /\ <<a, a>> \notin W
               /\ <<a, b>> \in W /\ <<b, c>> \in W => <<a, c>> \in W
               /\ <<a, b>> \notin W /\ <<b, c>> \notin W => <<a, c>> \notin W
    <3> DEFINE da == rows[a[1]].date
               db == rows[b[1]].date
               dc == rows[c[1]].date
               ia == a[1]
               ib == b[1]
               ic == c[1]
    <3>1. da \in Nat /\ db \in Nat /\ dc \in Nat /\ ia \in Nat /\ ib \in Nat /\ ic \in Nat
      BY <1>3
    <3>2. /\ <<a, a>> \in W <=> da < da \/ (da = da /\ ia < ia)
          /\ <<a, b>> \in W <=> da < db \/ (da = db /\ ia < ib)
          /\ <<b, c>> \in W <=> db < dc \/ (db = dc /\ ib < ic)
          /\ <<a, c>> \in W <=> da < dc \/ (da = dc /\ ia < ic)
      BY <1>4
    <3> HIDE DEF da, db, dc, ia, ib, ic
    <3> QED BY <3>1, <3>2
  <2> QED BY <2>1 DEF IsWeakOrder
<1>9. Listing(Stably(list, R), S, W)
  BY <1>6, <1>7, <1>8, SortedIsListing
<1> QED BY <1>1, <1>9 DEF S, W

\* The two definitions of a tapback agree.
LEMMA TapbacksAgree ==
  ASSUME NEW t \in Nat
  PROVE  IsTapbackType(t) <=> FromRaw(t) # 0
<1> DEFINE base == IF t >= 3000 THEN t - 1000 ELSE t
<1>1. base \in Int /\ (t = 0 => base = 0)
  OBVIOUS
<1>2. IsTapbackType(t) <=> t # 0 /\ base \in 2000 .. 2006
  BY DEF IsTapbackType, TapbackAdd
<1>3. FromRaw(t) = IF base \in 2000 .. 2006 THEN base ELSE 0
  BY DEF FromRaw, TapbackAdd
<1> HIDE DEF base
<1> QED BY <1>1, <1>2, <1>3

Reacting(rows, params) ==
  {p \in Picked(rows, params) :
     /\ FromRaw(rows[p[1]].assoc) # 0 /\ rows[p[1]].target # NoOne /\ rows[p[1]].date # 0}
Keeping(rows, params, events) ==
  {p \in Picked(rows, params) :
     FromRaw(rows[p[1]].assoc) = 0 /\ (rows[p[1]].item = 0 \/ events)}

LEMMA ReactionsAre ==
  ASSUME NEW rows, Stored(rows), NEW params
  PROVE  Listing(CollectReactions(rows, Selected(rows, params)), Reacting(rows, params),
                 ByDate(rows, params))
<1> DEFINE list == Selected(rows, params)
           S == Picked(rows, params)
           P == Reacting(rows, params)
           W == ByDate(rows, params)
           I == {i \in DOMAIN list :
                   /\ IsTapbackType(rows[list[i][1]].assoc) /\ rows[list[i][1]].target # NoOne
                   /\ FromRaw(rows[list[i][1]].assoc) # 0 /\ rows[list[i][1]].date # 0}
<1>1. CollectReactions(rows, list) = Taken(list, I)
  BY DEF CollectReactions, Filtered
<1>2. Listing(list, S, W)
  BY SelectedIs
<1>3. \A i \in DOMAIN list : list[i] \in S
  BY <1>2 DEF Listing
<1>4. \A p \in S : rows[p[1]].assoc \in Nat
  <2>1. \A p \in S : p \in Pairs(rows)
    BY DEF Picked
  <2> QED BY <2>1, PairsAre, RowsAre
<1>5. P \in SUBSET S /\ I \in SUBSET DOMAIN list
  BY DEF Reacting
<1>6. \A i \in DOMAIN list : i \in I <=> list[i] \in P
  BY <1>3, <1>4, TapbacksAgree DEF Reacting
<1> HIDE DEF list, S, P, W, I
<1>7. Listing(Taken(list, I), P, W)
  BY <1>2, <1>5, <1>6, TakenListing
<1> QED BY <1>1, <1>7 DEF list, P, W

LEMMA KeptAre ==
  ASSUME NEW rows, Stored(rows), NEW params, NEW events
  PROVE  Listing(Kept(rows, Selected(rows, params), events), Keeping(rows, params, events),
                 ByDate(rows, params))
<1> DEFINE list == Selected(rows, params)
           S == Picked(rows, params)
           P == Keeping(rows, params, events)
           W == ByDate(rows, params)
           I == {i \in DOMAIN list : /\ ~IsTapbackType(rows[list[i][1]].assoc)
                                     /\ (rows[list[i][1]].item = 0 \/ events)}
<1>1. Kept(rows, list, events) = Taken(list, I)
  BY DEF Kept, Filtered
<1>2. Listing(list, S, W)
  BY SelectedIs
<1>3. \A i \in DOMAIN list : list[i] \in S
  BY <1>2 DEF Listing
<1>4. \A p \in S : rows[p[1]].assoc \in Nat
  <2>1. \A p \in S : p \in Pairs(rows)
    BY DEF Picked
  <2> QED BY <2>1, PairsAre, RowsAre
<1>5. P \in SUBSET S /\ I \in SUBSET DOMAIN list
  BY DEF Keeping
<1>6. \A i \in DOMAIN list : i \in I <=> list[i] \in P
  BY <1>3, <1>4, TapbacksAgree DEF Keeping
<1> HIDE DEF list, S, P, W, I
<1>7. Listing(Taken(list, I), P, W)
  BY <1>2, <1>5, <1>6, TakenListing
<1> QED BY <1>1, <1>7 DEF list, P, W

\* The tapbacks on a message, the message that a pair of a row and a chat comes out as, and the
\* pairs that do.
On(rows, reactions, g) == Filtered(reactions, LAMBDA q : rows[q[1]].target = g)
MessageOf(rows, reactions, p) ==
  LET its == On(rows, reactions, rows[p[1]].guid)
  IN  [guid |-> rows[p[1]].guid, chat |-> p[2],
       reactions |-> [n \in DOMAIN its |-> rows[its[n][1]].guid]]
Streaming(rows, params, events) ==
  {p \in Keeping(rows, params, events) : rows[p[1]].date # 0}

LEMMA YieldIs ==
  ASSUME NEW rows, NEW reactions, NEW p
  PROVE  RowToMessage(rows, reactions, p) =
           IF rows[p[1]].date = 0 THEN <<>> ELSE <<MessageOf(rows, reactions, p)>>
BY DEF RowToMessage, MessageOf, On

\* Batch by batch, every pair that is kept yields its message, or none, where it stands.
LEMMA MessagesCover ==
  ASSUME NEW rows, NEW params, NEW events, NEW X, NEW kept \in Seq(X), NEW reactions,
         reactions = CollectReactions(rows, Selected(rows, params)),
         kept = Kept(rows, Selected(rows, params), events)
  PROVE  Covers(Messages(rows, params, events), kept,
                [p \in X |-> RowToMessage(rows, reactions, p)],
                {MessageOf(rows, reactions, p) : p \in X})
<1> DEFINE M == {MessageOf(rows, reactions, p) : p \in X}
           F == [p \in X |-> RowToMessage(rows, reactions, p)]
           batches == Batches(kept)
           outs == [n \in DOMAIN batches |-> YieldBatch(rows, reactions, batches[n])]
           T == Seq(M)
           U == Seq(X)
<1>1. Messages(rows, params, events) = FlattenSeq(outs)
  BY DEF Messages
<1>2. F \in [X -> T] /\ \A p \in X : Len(F[p]) <= 1
  <2>1. ASSUME NEW p \in X PROVE F[p] \in T /\ Len(F[p]) <= 1
    <3> DEFINE x == MessageOf(rows, reactions, p)
    <3>1. x \in M /\ F[p] = IF rows[p[1]].date = 0 THEN <<>> ELSE <<x>>
      BY YieldIs
    <3> HIDE DEF x, M, F
    <3> QED BY <3>1
  <2> QED BY <2>1
<1>3. batches \in Seq(U) /\ FlattenSeq(batches) = kept
  BY BatchesAreAll
<1>4. \A s \in U : YieldBatch(rows, reactions, s) = FlattenSeq([i \in DOMAIN s |-> F[s[i]]])
  <2>1. ASSUME NEW s \in U
        PROVE  YieldBatch(rows, reactions, s) = FlattenSeq([i \in DOMAIN s |-> F[s[i]]])
    <3>1. \A i \in DOMAIN s : F[s[i]] = RowToMessage(rows, reactions, s[i])
      OBVIOUS
    <3> HIDE DEF F
    <3>2. [i \in DOMAIN s |-> F[s[i]]] = [n \in DOMAIN s |-> RowToMessage(rows, reactions, s[n])]
      BY <3>1
    <3> QED BY <3>2 DEF YieldBatch
  <2> QED BY <2>1
<1> HIDE DEF M, F
<1>5. \A s \in U : Covers(YieldBatch(rows, reactions, s), s, F, M)
  BY <1>2, <1>4, EachCovers
<1>6. \A s \in U : YieldBatch(rows, reactions, s) \in T
  BY <1>5 DEF Covers
<1>7. /\ Len(outs) = Len(batches) /\ outs \in Seq(T)
      /\ \A n \in 1 .. Len(batches) : Covers(outs[n], batches[n], F, M)
  <2>1. DOMAIN batches = 1 .. Len(batches) /\ Len(batches) \in Nat
        /\ \A n \in 1 .. Len(batches) : batches[n] \in U
    <3> HIDE DEF batches, U
    <3> QED BY <1>3
  <2> HIDE DEF batches, U, T
  <2>2. \A n \in 1 .. Len(batches) : outs[n] = YieldBatch(rows, reactions, batches[n])
    BY <2>1
  <2>3. outs \in [1 .. Len(batches) -> T]
    BY <1>6, <2>1
  <2> HIDE DEF outs
  <2> QED BY <1>5, <2>1, <2>2, <2>3
<1> HIDE DEF outs, batches
<1>8. Covers(FlattenSeq(outs), FlattenSeq(batches), F, M)
  BY <1>3, <1>7, FlattenCovers
<1> QED BY <1>1, <1>3, <1>8 DEF F, M

\* What comes out are the dated pairs that are kept, by date, each as its message.
ComesOut(list, out, rows, params, events) ==
  /\ Listing(list, Streaming(rows, params, events), ByDate(rows, params))
  /\ DOMAIN out = DOMAIN list
  /\ \A m \in DOMAIN out :
       out[m] = MessageOf(rows, CollectReactions(rows, Selected(rows, params)), list[m])

LEMMA StreamIsListing ==
  ASSUME NEW rows, Stored(rows), NEW params, NEW events, NEW out,
         out = Messages(rows, params, events)
  PROVE  \E list : ComesOut(list, out, rows, params, events)
<1> DEFINE reactions == CollectReactions(rows, Selected(rows, params))
           kept == Kept(rows, Selected(rows, params), events)
           X == Keeping(rows, params, events)
           P == Streaming(rows, params, events)
           W == ByDate(rows, params)
           F == [p \in X |-> RowToMessage(rows, reactions, p)]
           M == {MessageOf(rows, reactions, p) : p \in X}
           I == Yielding(kept, F)
           n == Len(out)
<1>1. Listing(kept, X, W)
  BY KeptAre
<1>2. kept \in Seq(X) /\ \A i \in DOMAIN kept : kept[i] \in X
  <2> HIDE DEF kept, X, W
  <2> QED BY <1>1 DEF Listing
<1>3. Covers(out, kept, F, M)
  <2> HIDE DEF X
  <2> QED BY <1>2, MessagesCover
<1>4. \A p \in X : F[p] = IF rows[p[1]].date = 0 THEN <<>> ELSE <<MessageOf(rows, reactions, p)>>
  BY YieldIs
<1>5. P \in SUBSET X /\ \A p \in X : p \in P <=> rows[p[1]].date # 0
  BY DEF Streaming
<1> HIDE DEF reactions, kept, X, P, W, F, M
<1>6. PICK at : Places(at, n, I) /\ \A m \in 1 .. n : out[m] = F[kept[at[m]]][1]
  BY <1>3 DEF Covers
<1>7. DOMAIN out = 1 .. n /\ n \in Nat
  BY <1>3 DEF Covers
<1>8. I \in SUBSET DOMAIN kept /\ \A i \in DOMAIN kept : i \in I <=> kept[i] \in P
  <2>1. ASSUME NEW p \in X PROVE F[p] # <<>> <=> rows[p[1]].date # 0
    <3> DEFINE x == MessageOf(rows, reactions, p)
    <3>1. <<x>> # <<>>
      OBVIOUS
    <3>2. F[p] = IF rows[p[1]].date = 0 THEN <<>> ELSE <<x>>
      BY <1>4
    <3> HIDE DEF x
    <3> QED BY <3>1, <3>2
  <2> QED BY <1>2, <1>5, <2>1 DEF Yielding
<1> DEFINE list == [k \in 1 .. n |-> kept[at[k]]]
<1>9. Listing(list, P, W)
  <2> HIDE DEF I, n
  <2> QED BY <1>1, <1>2, <1>5, <1>6, <1>7, <1>8, PlacesListing
<1>10. ASSUME NEW m \in 1 .. n
       PROVE  out[m] = MessageOf(rows, reactions, list[m])
  <2>1. at[m] \in I
    BY <1>6 DEF Places
  <2>2. kept[at[m]] \in X /\ rows[kept[at[m]][1]].date # 0
    BY <1>2, <1>5, <1>8, <2>1
  <2> DEFINE p == kept[at[m]]
             x == MessageOf(rows, reactions, p)
  <2>3. list[m] = p /\ out[m] = F[p][1]
    BY <1>6
  <2>4. F[p] = <<x>>
    BY <1>4, <2>2
  <2>5. <<x>>[1] = x
    OBVIOUS
  <2> HIDE DEF p, list, n
  <2> QED BY ONLY <2>3, <2>4, <2>5 DEF x
<1>11. DOMAIN list = 1 .. n
  OBVIOUS
<1> HIDE DEF list, n
<1>12. ComesOut(list, out, rows, params, events)
  BY <1>7, <1>9, <1>10, <1>11 DEF ComesOut, reactions, P, W
<1> QED BY <1>12

\* A pair is picked if the row is of the window and the chat of those asked for.
LEMMA PickedIs ==
  ASSUME NEW rows, NEW params, NEW i \in DOMAIN rows, NEW c
  PROVE  <<i, c>> \in Picked(rows, params) <=>
           c \in ChatsOf(rows[i], params) /\ InRange(rows[i], params)
<1>1. <<i, c>> \in Pairs(rows) <=> c \in rows[i].chats
  BY DEF Pairs
<1>2. <<i, c>>[1] = i /\ <<i, c>>[2] = c
  OBVIOUS
<1> QED BY <1>1, <1>2 DEF Picked, ChatsOf, InRange

LEMMA PickedAre ==
  ASSUME NEW rows, Stored(rows), NEW params, NEW p \in Picked(rows, params)
  PROVE  p = <<p[1], p[2]>> /\ p[1] \in DOMAIN rows /\ p[2] \in rows[p[1]].chats
<1>1. p \in Pairs(rows)
  BY DEF Picked
<1> QED BY <1>1, PairsAre

\* A pair comes out in one place, or in none.
LEMMA PlacesOfPair ==
  ASSUME NEW list, NEW S, NEW W, Listing(list, S, W), NEW x
  PROVE  Cardinality({n \in DOMAIN list : list[n] = x}) = IF x \in S THEN 1 ELSE 0
<1> DEFINE N == {n \in DOMAIN list : list[n] = x}
<1>1. /\ ToSet(list) = S
      /\ \A i, j \in DOMAIN list : list[i] = list[j] => i = j
  BY DEF Listing
<1>2. CASE x \in S
  <2>1. PICK n \in DOMAIN list : list[n] = x
    BY <1>1, <1>2 DEF ToSet
  <2>2. N = {n}
    BY <1>1, <2>1
  <2> HIDE DEF N
  <2> QED BY <1>2, <2>2, FS_Singleton DEF N
<1>3. CASE x \notin S
  <2>1. N = {}
    BY <1>1, <1>3 DEF ToSet
  <2> HIDE DEF N
  <2> QED BY <1>3, <2>1, FS_EmptySet DEF N
<1> QED BY <1>2, <1>3

\* A row is among the tapbacks of a message once for each of its chats, or not at all.
ChatsAt(C, S, i) ==
  (\A q \in S : q = <<q[1], q[2]>>) /\ \A c : <<i, c>> \in S <=> c \in C

LEMMA PlacesOfRow ==
  ASSUME NEW its, NEW S, NEW W, Listing(its, S, W), NEW i, NEW C, IsFiniteSet(C), ChatsAt(C, S, i)
  PROVE  Cardinality({k \in DOMAIN its : its[k][1] = i}) = Cardinality(C)
<1> DEFINE K == {k \in DOMAIN its : its[k][1] = i}
           f == [k \in K |-> its[k][2]]
<1> USE DEF ChatsAt
<1>1. /\ ToSet(its) = S /\ \A k \in DOMAIN its : its[k] \in S
      /\ \A j, k \in DOMAIN its : its[j] = its[k] => j = k
  BY DEF Listing, ToSet
<1>2. \A k \in K : its[k] = <<i, f[k]>> /\ f[k] \in C
  <2>1. ASSUME NEW k \in K PROVE its[k] = <<i, f[k]>> /\ f[k] \in C
    <3>1. its[k] \in S /\ its[k][1] = i /\ f[k] = its[k][2]
      BY <1>1
    <3> HIDE DEF f
    <3>2. its[k] = <<i, f[k]>>
      BY <3>1
    <3> QED BY <3>1, <3>2
  <2> QED BY <2>1
<1>3. \A c \in C : \E k \in K : f[k] = c
  <2>1. ASSUME NEW c \in C PROVE \E k \in K : f[k] = c
    <3>1. <<i, c>> \in S /\ <<i, c>>[1] = i /\ <<i, c>>[2] = c
      OBVIOUS
    <3>2. PICK k \in DOMAIN its : its[k] = <<i, c>>
      BY <1>1, <3>1 DEF ToSet
    <3>3. k \in K /\ f[k] = c
      BY <3>1, <3>2
    <3> QED BY <3>3
  <2> QED BY <2>1
<1>4. f = [k \in K |-> f[k]] /\ K \in SUBSET DOMAIN its
  OBVIOUS
<1> HIDE DEF f, K
<1>5. f \in Bijection(K, C)
  <2>1. \A j, k \in K : f[j] = f[k] => j = k
    BY <1>1, <1>2, <1>4
  <2>2. f \in [K -> C]
    BY <1>2, <1>4
  <2> QED BY <1>3, <2>1, <2>2 DEF Bijection, Injection, Surjection, IsInjective
<1>6. IsFiniteSet(K)
  <2>1. IsFiniteSet(DOMAIN its)
    <3>1. DOMAIN its = 1 .. Len(its) /\ Len(its) \in Nat
      BY DEF Listing
    <3> DEFINE n == Len(its)
    <3> HIDE DEF n
    <3>2. n \in Nat => IsFiniteSet(1 .. n)
      BY FS_Interval
    <3> QED BY <3>1, <3>2 DEF n
  <2> QED BY <1>4, <2>1, FS_Subset
<1>7. ExistsBijection(K, C)
  BY <1>5 DEF ExistsBijection
<1>8. Cardinality(C) = Cardinality(K)
  BY <1>6, <1>7, FS_Bijection
<1> QED BY <1>8 DEF K

\* The tapbacks of a message are those of the selection whose target it is.
LEMMA ReactionTimes ==
  ASSUME NEW rows, Stored(rows), NEW params, NEW g \in Guids, NEW i \in DOMAIN rows
  PROVE  LET its == On(rows, CollectReactions(rows, Selected(rows, params)), g)
         IN  /\ \A k \in DOMAIN its : its[k][1] \in DOMAIN rows
             /\ Cardinality({k \in DOMAIN its : its[k][1] = i}) =
                  IF FromRaw(rows[i].assoc) # 0 /\ rows[i].target = g /\ rows[i].date # 0
                       /\ InRange(rows[i], params)
                    THEN Cardinality(ChatsOf(rows[i], params)) ELSE 0
<1> DEFINE reactions == CollectReactions(rows, Selected(rows, params))
           W == ByDate(rows, params)
           R == Reacting(rows, params)
           Q == {q \in R : rows[q[1]].target = g}
           I == {k \in DOMAIN reactions : rows[reactions[k][1]].target = g}
           its == Taken(reactions, I)
           counts == /\ FromRaw(rows[i].assoc) # 0 /\ rows[i].target = g /\ rows[i].date # 0
                     /\ InRange(rows[i], params)
           C == IF counts THEN ChatsOf(rows[i], params) ELSE {}
<1>1. On(rows, reactions, g) = its
  BY DEF On, Filtered
<1>2. Listing(reactions, R, W)
  BY ReactionsAre
<1>3. Listing(its, Q, W)
  <2>1. Q \in SUBSET R /\ I \in SUBSET DOMAIN reactions
    OBVIOUS
  <2>2. \A k \in DOMAIN reactions : reactions[k] \in R
    BY <1>2 DEF Listing
  <2> HIDE DEF reactions, R, W
  <2>3. \A k \in DOMAIN reactions : k \in I <=> reactions[k] \in Q
    BY <2>2
  <2> HIDE DEF I, Q
  <2> QED BY <1>2, <2>1, <2>3, TakenListing
<1>4. \A q \in Q : q = <<q[1], q[2]>> /\ q[1] \in DOMAIN rows
  <2>1. \A q \in Q : q \in Picked(rows, params)
    BY DEF Reacting
  <2> HIDE DEF Q
  <2> QED BY <2>1, PickedAre
<1>5. \A c : <<i, c>> \in Q <=> c \in C
  <2>1. ASSUME NEW c PROVE <<i, c>> \in Q <=> c \in C
    <3>1. <<i, c>> \in Picked(rows, params) <=>
            c \in ChatsOf(rows[i], params) /\ InRange(rows[i], params)
      BY PickedIs
    <3>2. <<i, c>>[1] = i
      OBVIOUS
    <3>3. g # NoOne
      BY DEF Guids
    <3>4. <<i, c>> \in Q <=> /\ <<i, c>> \in Picked(rows, params)
                             /\ FromRaw(rows[i].assoc) # 0 /\ rows[i].target # NoOne
                             /\ rows[i].date # 0 /\ rows[i].target = g
      BY <3>2 DEF Reacting
    <3> QED BY <3>1, <3>3, <3>4
  <2> QED BY <2>1
<1>6. IsFiniteSet(C)
  <2>1. IsFiniteSet(rows[i].chats) /\ ChatsOf(rows[i], params) \in SUBSET rows[i].chats
    BY RowsAre DEF ChatsOf
  <2>2. IsFiniteSet(ChatsOf(rows[i], params))
    BY <2>1, FS_Subset
  <2> QED BY <2>2, FS_EmptySet
<1>7. Cardinality(C) = IF counts THEN Cardinality(ChatsOf(rows[i], params)) ELSE 0
  BY FS_EmptySet
<1>8. \A k \in DOMAIN its : its[k] \in Q
  <2> HIDE DEF its, Q, W
  <2> QED BY <1>3 DEF Listing
<1> HIDE DEF its, Q, W, C, counts
<1>9. Cardinality({k \in DOMAIN its : its[k][1] = i}) = Cardinality(C)
  <2>1. \A q \in Q : q = <<q[1], q[2]>>
    BY <1>4
  <2>2. ChatsAt(C, Q, i)
    BY <1>5, <2>1 DEF ChatsAt
  <2> QED BY ONLY <1>3, <1>6, <2>2, PlacesOfRow
<1>10. \A k \in DOMAIN its : its[k][1] \in DOMAIN rows
  BY <1>4, <1>8
<1> QED BY <1>1, <1>7, <1>9, <1>10 DEF counts

\* What the list of the stream says of each message.
LEMMA OutIs ==
  ASSUME NEW rows, Stored(rows), NEW params, NEW events, NEW list, NEW out,
         ComesOut(list, out, rows, params, events)
  PROVE  \A m \in DOMAIN out :
           /\ list[m] = <<list[m][1], list[m][2]>> /\ list[m] \in Streaming(rows, params, events)
           /\ list[m][1] \in DOMAIN rows
           /\ out[m].guid = rows[list[m][1]].guid /\ out[m].guid \in Guids
           /\ out[m].chat = list[m][2]
           /\ \A i \in DOMAIN rows : out[m].guid = rows[i].guid <=> list[m][1] = i
<1> SUFFICES ASSUME NEW m \in DOMAIN out
             PROVE  /\ list[m] = <<list[m][1], list[m][2]>> /\ list[m] \in Streaming(rows, params, events)
                    /\ list[m][1] \in DOMAIN rows
                    /\ out[m].guid = rows[list[m][1]].guid /\ out[m].guid \in Guids
                    /\ out[m].chat = list[m][2]
                    /\ \A i \in DOMAIN rows : out[m].guid = rows[i].guid <=> list[m][1] = i
  OBVIOUS
<1>1. list[m] \in Streaming(rows, params, events)
  <2>1. Listing(list, Streaming(rows, params, events), ByDate(rows, params)) /\ DOMAIN out = DOMAIN list
    BY DEF ComesOut
  <2> QED BY <2>1 DEF Listing
<1>2. list[m] \in Picked(rows, params)
  BY <1>1 DEF Streaming, Keeping
<1>3. list[m] = <<list[m][1], list[m][2]>> /\ list[m][1] \in DOMAIN rows
  BY <1>2, PickedAre
<1>4. out[m].guid = rows[list[m][1]].guid /\ out[m].chat = list[m][2]
  <2> DEFINE x == MessageOf(rows, CollectReactions(rows, Selected(rows, params)), list[m])
  <2>1. out[m] = x
    BY DEF ComesOut
  <2>2. x.guid = rows[list[m][1]].guid /\ x.chat = list[m][2]
    BY DEF MessageOf
  <2> QED BY <2>1, <2>2
<1>5. rows[list[m][1]].guid \in Guids /\ \A i \in DOMAIN rows : rows[list[m][1]].guid = rows[i].guid <=> list[m][1] = i
  BY <1>3, RowsAre
<1> QED BY <1>1, <1>3, <1>4, <1>5

LEMMA MessagesAreExact ==
  ASSUME NEW rows, Stored(rows), NEW params, NEW events, NEW out,
         out = Messages(rows, params, events)
  PROVE  StreamsExactly(out, rows, params, events)
<1> DEFINE P == Streaming(rows, params, events)
           W == ByDate(rows, params)
           reactions == CollectReactions(rows, Selected(rows, params))
           tapbacks == {i \in DOMAIN rows : FromRaw(rows[i].assoc) # 0}
           RowOf(guid) == CHOOSE i \in DOMAIN rows : rows[i].guid = guid
           Times(r, m) == Cardinality({n \in DOMAIN m.reactions : m.reactions[n] = r.guid})
<1>1. PICK list : ComesOut(list, out, rows, params, events)
  BY StreamIsListing
<1>2. /\ Listing(list, P, W) /\ DOMAIN out = DOMAIN list
      /\ \A m \in DOMAIN out : out[m] = MessageOf(rows, reactions, list[m])
  BY <1>1 DEF ComesOut
<1>3. \A m \in DOMAIN out :
        /\ list[m] = <<list[m][1], list[m][2]>> /\ list[m] \in P /\ list[m][1] \in DOMAIN rows
        /\ out[m].guid = rows[list[m][1]].guid /\ out[m].guid \in Guids
        /\ out[m].chat = list[m][2]
        /\ \A i \in DOMAIN rows : out[m].guid = rows[i].guid <=> list[m][1] = i
  BY <1>1, OutIs
<1>4. ASSUME NEW i \in DOMAIN rows, NEW c \in UNION {rows[j].chats : j \in DOMAIN rows}
      PROVE  Cardinality({n \in DOMAIN out : out[n].guid = rows[i].guid /\ out[n].chat = c}) =
               IF /\ c \in ChatsOf(rows[i], params) /\ InRange(rows[i], params)
                  /\ rows[i].date # 0 /\ i \notin tapbacks
                  /\ (rows[i].item = 0 \/ events)
                 THEN 1 ELSE 0
  <2> DEFINE x == <<i, c>>
  <2>1. x[1] = i /\ x[2] = c
    OBVIOUS
  <2>2. \A n \in DOMAIN out : out[n].guid = rows[i].guid /\ out[n].chat = c <=> list[n] = x
    <3> HIDE DEF P
    <3> QED BY <1>3, <2>1
  <2>3. x \in P <=> /\ c \in ChatsOf(rows[i], params) /\ InRange(rows[i], params)
                    /\ rows[i].date # 0 /\ i \notin tapbacks
                    /\ (rows[i].item = 0 \/ events)
    <3>1. x \in Picked(rows, params) <=>
            c \in ChatsOf(rows[i], params) /\ InRange(rows[i], params)
      BY PickedIs
    <3> HIDE DEF x
    <3> QED BY <2>1, <3>1 DEF Streaming, Keeping
  <2> HIDE DEF x, P, W
  <2>4. Cardinality({n \in DOMAIN list : list[n] = x}) = IF x \in P THEN 1 ELSE 0
    BY <1>2, PlacesOfPair
  <2>5. {n \in DOMAIN out : out[n].guid = rows[i].guid /\ out[n].chat = c} = {n \in DOMAIN list : list[n] = x}
    BY <1>2, <2>2
  <2> QED BY <2>3, <2>4, <2>5
<1>5. ASSUME NEW m \in DOMAIN out, NEW n \in DOMAIN out, m < n
      PROVE  rows[RowOf(out[m].guid)].date <= rows[RowOf(out[n].guid)].date
  <2>1. RowOf(out[m].guid) = list[m][1] /\ RowOf(out[n].guid) = list[n][1]
    <3> HIDE DEF P
    <3> QED BY <1>3
  <2> DEFINE p == list[m]
             q == list[n]
  <2>2. <<q, p>> \notin W
    <3> HIDE DEF P, W
    <3> QED BY <1>2, <1>5 DEF Listing
  <2>3. p \in Picked(rows, params) /\ q \in Picked(rows, params)
    BY <1>3 DEF Streaming, Keeping
  <2>4. rows[p[1]].date \in Nat /\ rows[q[1]].date \in Nat
    BY <1>3, RowsAre
  <2>5. ~(rows[q[1]].date < rows[p[1]].date)
    <3> HIDE DEF p, q
    <3>1. <<q, p>>[1] = q /\ <<q, p>>[2] = p
      OBVIOUS
    <3> QED BY <2>2, <2>3, <3>1 DEF ByDate
  <2> HIDE DEF p, q, RowOf
  <2>6. rows[p[1]].date <= rows[q[1]].date
    BY <2>4, <2>5
  <2> QED BY <2>1, <2>6 DEF p, q
<1>6. ASSUME NEW n \in DOMAIN out, NEW i \in DOMAIN rows
      PROVE  Times(rows[i], out[n]) =
               IF i \in tapbacks /\ rows[i].target = out[n].guid /\ rows[i].date # 0
                    /\ InRange(rows[i], params)
                 THEN Cardinality(ChatsOf(rows[i], params)) ELSE 0
  <2> DEFINE g == out[n].guid
             its == On(rows, reactions, g)
  <2>1. g \in Guids /\ g = rows[list[n][1]].guid
    BY <1>3
  <2>2. out[n].reactions = [k \in DOMAIN its |-> rows[its[k][1]].guid]
    <3>1. out[n] = MessageOf(rows, reactions, list[n])
      BY <1>2
    <3>2. MessageOf(rows, reactions, list[n]).reactions =
            LET is == On(rows, reactions, rows[list[n][1]].guid)
            IN  [k \in DOMAIN is |-> rows[is[k][1]].guid]
      BY DEF MessageOf
    <3> QED BY <2>1, <3>1, <3>2
  <2>3. /\ \A k \in DOMAIN its : its[k][1] \in DOMAIN rows
        /\ Cardinality({k \in DOMAIN its : its[k][1] = i}) =
             IF FromRaw(rows[i].assoc) # 0 /\ rows[i].target = g /\ rows[i].date # 0
                  /\ InRange(rows[i], params)
               THEN Cardinality(ChatsOf(rows[i], params)) ELSE 0
    BY <2>1, ReactionTimes
  <2> HIDE DEF its, reactions
  <2>4. {k \in DOMAIN out[n].reactions : out[n].reactions[k] = rows[i].guid} = {k \in DOMAIN its : its[k][1] = i}
    <3>1. \A k \in DOMAIN its : rows[its[k][1]].guid = rows[i].guid <=> its[k][1] = i
      BY <2>3, RowsAre
    <3> QED BY <2>2, <3>1
  <2> QED BY <2>3, <2>4
<1>7. \A n \in DOMAIN out : \E i \in DOMAIN rows : out[n].guid = rows[i].guid
  BY <1>3
<1> HIDE DEF P, W, reactions
<1> QED BY <1>4, <1>5, <1>6, <1>7 DEF StreamsExactly

\* queries.py:77-226.  Whatever the snapshot holds, whichever window and chat are asked for and
\* however the rows fall into batches, each dated row that is no tapback comes out once for
\* each of its chats, by date, with exactly its tapbacks.
THEOREM StreamTheorem == LibrarySpec => []StreamIsExact
<1>1. LibraryInit => StreamIsExact
  BY DEF LibraryInit, StreamIsExact, Answered
<1>2. question \in Questions /\ StreamIsExact /\ [LibraryNext]_libraryVars => StreamIsExact'
  <2> SUFFICES ASSUME question \in Questions, StreamIsExact, [LibraryNext]_libraryVars
               PROVE  StreamIsExact'
    OBVIOUS
  <2>1. CASE Stream
    <3>1. /\ question' = question /\ question.of = "stream"
          /\ Reply' = Messages(question.rows, question.params, question.events)
      BY <2>1 DEF Stream, Asked, Answers, Reply
    <3>2. Stored(question.rows)
      BY <3>1, QuestionAssumption DEF QuestionAssumption
    <3>3. StreamsExactly(Reply', question.rows, question.params, question.events)
      BY <3>1, <3>2, MessagesAreExact
    <3> QED BY <3>1, <3>3 DEF StreamIsExact, Answered
  <2>2. CASE ConvertTime \/ RankChats \/ ListAll \/ LookUp \/ FindContacts \/ Resolve \/ Count \/ ReadText
    <3>1. question'.of # "stream"
      BY <2>2 DEF ConvertTime, RankChats, ListAll, LookUp, FindContacts, Resolve, Count, ReadText,
                  Asked, Answers
    <3> QED BY <3>1 DEF StreamIsExact, Answered
  <2>3. CASE UNCHANGED libraryVars
    BY <2>3 DEF libraryVars, StreamIsExact, Answered, Reply
  <2> QED BY <2>1, <2>2, <2>3 DEF LibraryNext
<1> QED BY <1>1, <1>2, QuestionsStay, PTL DEF LibrarySpec

-----------------------------------------------------------------------------
(* The count of a chat                                                       *)

InStream(out, rows, i) == \E n \in DOMAIN out : out[n].guid = rows[i].guid
IsStreamed(rows, c, i) ==
  /\ c \in rows[i].chats /\ rows[i].date # 0
  /\ FromRaw(rows[i].assoc) = 0 /\ rows[i].item = 0

\* The rows that the stream of one chat has, of all times and without the group events.
LEMMA StreamedAre ==
  ASSUME NEW rows, Stored(rows), NEW c \in Guids, NEW out,
         out = Messages(rows, [chat |-> c, since |-> 0, until |-> 0], FALSE), NEW i \in DOMAIN rows
  PROVE  InStream(out, rows, i) <=> IsStreamed(rows, c, i)
<1> DEFINE params == [chat |-> c, since |-> 0, until |-> 0]
           P == Streaming(rows, params, FALSE)
<1>1. PICK list : ComesOut(list, out, rows, params, FALSE)
  BY StreamIsListing
<1>2. Listing(list, P, ByDate(rows, params)) /\ DOMAIN out = DOMAIN list
  BY <1>1 DEF ComesOut
<1>3. \A n \in DOMAIN out : list[n] \in P /\ (out[n].guid = rows[i].guid <=> list[n][1] = i)
  <2> DEFINE no == FALSE
  <2>1. ComesOut(list, out, rows, params, no)
    BY <1>1
  <2> HIDE DEF params, no
  <2>2. \A n \in DOMAIN out :
          /\ list[n] = <<list[n][1], list[n][2]>> /\ list[n] \in Streaming(rows, params, no)
          /\ list[n][1] \in DOMAIN rows
          /\ out[n].guid = rows[list[n][1]].guid /\ out[n].guid \in Guids
          /\ out[n].chat = list[n][2]
          /\ \A j \in DOMAIN rows : out[n].guid = rows[j].guid <=> list[n][1] = j
    BY ONLY <2>1, Stored(rows), OutIs
  <2>3. \A n \in DOMAIN out :
          list[n] \in Streaming(rows, params, no) /\ (out[n].guid = rows[i].guid <=> list[n][1] = i)
    BY <2>2
  <2> QED BY <2>3 DEF no
<1>4. \A d : <<i, d>> \in Picked(rows, params) <=> d = c /\ c \in rows[i].chats
  <2>1. ASSUME NEW d PROVE <<i, d>> \in Picked(rows, params) <=> d = c /\ c \in rows[i].chats
    <3>1. params.chat = c /\ params.since = 0 /\ params.until = 0 /\ c # NoOne
      BY DEF Guids
    <3> HIDE DEF params
    <3> QED BY <3>1, PickedIs DEF ChatsOf, InRange
  <2> QED BY <2>1
<1>5. <<i, c>> \in P <=> /\ c \in rows[i].chats /\ rows[i].date # 0
                         /\ FromRaw(rows[i].assoc) = 0 /\ rows[i].item = 0
  <2>1. <<i, c>>[1] = i
    OBVIOUS
  <2> HIDE DEF params
  <2> QED BY <1>4, <2>1 DEF Streaming, Keeping
<1>6. ASSUME NEW n \in DOMAIN out, out[n].guid = rows[i].guid PROVE <<i, c>> \in P
  <2>1. list[n] \in P /\ list[n][1] = i
    BY <1>3, <1>6
  <2>2. list[n] \in Picked(rows, params)
    BY <2>1 DEF Streaming, Keeping
  <2>3. list[n] = <<i, list[n][2]>>
    BY <2>1, <2>2, PickedAre
  <2> HIDE DEF params
  <2>4. list[n][2] = c
    BY <1>4, <2>2, <2>3
  <2> QED BY <2>1, <2>3, <2>4
<1>7. ASSUME <<i, c>> \in P PROVE \E n \in DOMAIN out : out[n].guid = rows[i].guid
  <2> HIDE DEF P
  <2>1. PICK n \in DOMAIN list : list[n] = <<i, c>>
    BY <1>2, <1>7 DEF Listing, ToSet
  <2>2. list[n][1] = i
    BY <2>1
  <2> QED BY <1>2, <1>3, <2>2
<1> HIDE DEF P
<1> QED BY <1>5, <1>6, <1>7 DEF InStream, IsStreamed

LEMMA CountIsStreamed ==
  ASSUME NEW rows, Stored(rows), NEW c \in Guids, NEW out,
         out = Messages(rows, [chat |-> c, since |-> 0, until |-> 0], FALSE)
  PROVE  CountsStreamed(MessageCount(rows, c), out, rows, c)
<1> DEFINE streamed == {i \in DOMAIN rows : \E n \in DOMAIN out : out[n].guid = rows[i].guid}
           associated == {i \in DOMAIN rows : rows[i].assoc # 0}
           undated == {i \in DOMAIN rows : rows[i].date = 0 /\ rows[i].assoc = 0 /\ rows[i].item = 0
                                           /\ rows[i].hasText /\ c \in rows[i].chats}
           silent == {i \in DOMAIN rows : ~rows[i].hasText}
           counted == {i \in DOMAIN rows : c \in rows[i].chats /\ IsReal(rows[i]) /\ rows[i].hasText}
           remaining == (streamed \ (associated \cup silent)) \cup undated
<1>1. ASSUME NEW i \in DOMAIN rows
      PROVE  i \in streamed <=> /\ c \in rows[i].chats /\ rows[i].date # 0
                                /\ FromRaw(rows[i].assoc) = 0 /\ rows[i].item = 0
  <2>1. InStream(out, rows, i) <=> IsStreamed(rows, c, i)
    BY StreamedAre
  <2> QED BY <2>1 DEF InStream, IsStreamed
<1>2. FromRaw(0) = 0
  BY DEF FromRaw, TapbackAdd
<1>3. streamed \in SUBSET DOMAIN rows
  OBVIOUS
<1> HIDE DEF streamed
<1>4. ASSUME NEW i \in DOMAIN rows PROVE i \in remaining <=> i \in counted
  BY <1>1, <1>2 DEF IsReal
<1>5. remaining \in SUBSET DOMAIN rows /\ counted \in SUBSET DOMAIN rows
  BY <1>3
<1> HIDE DEF remaining, counted
<1>6. remaining = counted
  BY <1>4, <1>5
<1>7. MessageCount(rows, c) = Cardinality(remaining)
  BY <1>6 DEF MessageCount, counted
<1> QED BY <1>7 DEF CountsStreamed, remaining, streamed

\* snapshot_queries.py:96-104 and queries.py:77-226.  Whatever the snapshot holds, the messages
\* that are counted for a chat are those of its stream, but for the associated rows that are
\* no tapbacks, the undated and the silent.
THEOREM CountTheorem == LibrarySpec => []CountedAreStreamed
<1>1. LibraryInit => CountedAreStreamed
  BY DEF LibraryInit, CountedAreStreamed, Answered
<1>2. question \in Questions /\ CountedAreStreamed /\ [LibraryNext]_libraryVars => CountedAreStreamed'
  <2> SUFFICES ASSUME question \in Questions, CountedAreStreamed, [LibraryNext]_libraryVars
               PROVE  CountedAreStreamed'
    OBVIOUS
  <2>1. CASE Count
    <3> DEFINE out == Messages(question.rows, [chat |-> question.chat, since |-> 0, until |-> 0], FALSE)
    <3>1. /\ question' = question /\ question.of = "count"
          /\ Reply' = [count |-> MessageCount(question.rows, question.chat), stream |-> out]
      BY <2>1 DEF Count, Asked, Answers, Reply
    <3>2. Stored(question.rows) /\ question.chat \in Guids
      BY <3>1, QuestionAssumption DEF QuestionAssumption
    <3>3. CountsStreamed(MessageCount(question.rows, question.chat), out, question.rows, question.chat)
      BY <3>2, CountIsStreamed
    <3> HIDE DEF out
    <3>4. Reply'.count = MessageCount(question.rows, question.chat) /\ Reply'.stream = out
      BY <3>1
    <3> QED BY <3>1, <3>3, <3>4 DEF CountedAreStreamed, Answered
  <2>2. CASE ConvertTime \/ RankChats \/ ListAll \/ LookUp \/ FindContacts \/ Resolve \/ Stream \/ ReadText
    <3>1. question'.of # "count"
      BY <2>2 DEF ConvertTime, RankChats, ListAll, LookUp, FindContacts, Resolve, Stream, ReadText,
                  Asked, Answers
    <3> QED BY <3>1 DEF CountedAreStreamed, Answered
  <2>3. CASE UNCHANGED libraryVars
    BY <2>3 DEF libraryVars, CountedAreStreamed, Answered, Reply
  <2> QED BY <2>1, <2>2, <2>3 DEF LibraryNext
<1> QED BY <1>1, <1>2, QuestionsStay, PTL DEF LibrarySpec
=============================================================================
