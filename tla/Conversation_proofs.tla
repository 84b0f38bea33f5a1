------------------------ MODULE Conversation_proofs ------------------------
(* Theorems about the turns of Conversation.tla.                           *)
EXTENDS Conversation, FiniteSetTheorems, SequenceTheorems, TLAPS

\* What distance promises: likeness is symmetric, and each question is like itself.
LEMMA AlikeIsSymmetric ==
  ASSUME NEW u \in Updates, NEW v \in Updates
  PROVE  Alike(u, u) /\ (Alike(u, v) => Alike(v, u))
BY ConversationAssumption DEF ConversationAssumption, Alike

\* Dropping turns leaves the tables alone and the other turns as they are.
LEMMA DropsKeepsInv ==
  ASSUME ConvInv, NEW T \in SUBSET Threads, Drops(T)
  PROVE  ConvInv'
<1> USE DEF ConvInv, Drops
<1>1. ConvTypeOK'
  BY DEF ConvTypeOK
<1>2. ExactSearch => OwnRowsApart'
  BY DEF OwnRowsApart, ConvTypeOK
<1>3. RecordedOwnAnswer'
  BY DEF RecordedOwnAnswer, Exchange, ConvTypeOK
<1>4. (\A t \in Threads :
         pc[t] \in {"store", "persist", "return"} => Alike(answer[t], asked[t]))'
  BY DEF ConvTypeOK
<1> QED BY <1>1, <1>2, <1>3, <1>4

\* A step of a turn preserves the invariant.
LEMMA TurnKeepsInv ==
  ASSUME ConvInv, NEW t \in Threads, TurnStep(t)
  PROVE  ConvInv'
<1> USE DEF ConvInv
<1>1. CASE HitCache(t)
  <2>1. PICK e \in cache : Finds(asked[t], e) /\ answer' = [answer EXCEPT ![t] = e.of]
    BY <1>1 DEF HitCache
  <2>2. e \in Entries /\ Alike(e.of, asked[t])
    BY <2>1 DEF Finds, Nearest, Similar, ConvTypeOK
  <2> USE <1>1, <2>1, <2>2 DEF HitCache
  <2>3. ConvTypeOK' BY DEF ConvTypeOK, Entries
  <2>4. ExactSearch => OwnRowsApart' BY DEF OwnRowsApart, ConvTypeOK
  <2>5. RecordedOwnAnswer' BY DEF RecordedOwnAnswer, Exchange, ConvTypeOK
  <2>6. (\A s \in Threads :
           pc[s] \in {"store", "persist", "return"} => Alike(answer[s], asked[s]))'
    BY DEF ConvTypeOK
  <2> QED BY <2>3, <2>4, <2>5, <2>6
<1>2. CASE MissCache(t)
  <2> USE <1>2 DEF MissCache
  <2>1. ConvTypeOK' BY DEF ConvTypeOK
  <2>2. ExactSearch => \A e \in cache : ~Alike(e.of, asked[t])
    BY DEF FindsNone, Similar
  <2>3. ExactSearch => OwnRowsApart' BY <2>2 DEF OwnRowsApart, ConvTypeOK
  <2>4. RecordedOwnAnswer' BY DEF RecordedOwnAnswer, Exchange, ConvTypeOK
  <2>5. (\A s \in Threads :
           pc[s] \in {"store", "persist", "return"} => Alike(answer[s], asked[s]))'
    BY DEF ConvTypeOK
  <2> QED BY <2>1, <2>3, <2>4, <2>5
<1>3. CASE Generate(t)
  <2> USE <1>3 DEF Generate
  <2>1. ConvTypeOK' BY DEF ConvTypeOK
  <2>2. ExactSearch => OwnRowsApart' BY DEF OwnRowsApart, ConvTypeOK
  <2>3. RecordedOwnAnswer' BY DEF RecordedOwnAnswer, Exchange, ConvTypeOK
  <2>4. asked[t] \in Updates BY DEF ConvTypeOK
  <2>5. (\A s \in Threads :
           pc[s] \in {"store", "persist", "return"} => Alike(answer[s], asked[s]))'
    BY <2>4, AlikeIsSymmetric DEF ConvTypeOK
  <2> QED BY <2>1, <2>2, <2>3, <2>5
<1>4. CASE Store(t)
  <2> DEFINE new == [by |-> t, of |-> asked[t]]
  <2> USE <1>4 DEF Store
  <2>1. asked[t] \in Updates /\ new \in Entries /\ cache' = cache \cup {new}
    BY DEF ConvTypeOK, Entries
  <2>2. ConvTypeOK'
    BY <2>1 DEF ConvTypeOK
  <2>3. ExactSearch => \A e \in cache : e.by = t => ~Alike(e.of, asked[t]) /\ ~Alike(asked[t], e.of)
    BY <2>1, AlikeIsSymmetric DEF OwnRowsApart, ConvTypeOK, Entries
  <2>4. new.by = t /\ new.of = asked[t]
    OBVIOUS
  <2> HIDE DEF new
  <2>5. ASSUME ExactSearch, NEW e \in cache', NEW f \in cache', e.by = f.by, Alike(e.of, f.of)
        PROVE  e = f
    BY <2>1, <2>3, <2>4, <2>5 DEF OwnRowsApart
  <2>6. ASSUME ExactSearch, NEW s \in Threads, NEW e \in cache', pc'[s] \in {"generate", "store"}, e.by = s
        PROVE  ~Alike(e.of, asked'[s])
    BY <2>1, <2>4, <2>6 DEF OwnRowsApart, ConvTypeOK
  <2>7. ExactSearch => OwnRowsApart'
    BY <2>5, <2>6 DEF OwnRowsApart
  <2>8. RecordedOwnAnswer' BY DEF RecordedOwnAnswer, Exchange, ConvTypeOK
  <2>9. (\A s \in Threads :
           pc[s] \in {"store", "persist", "return"} => Alike(answer[s], asked[s]))'
    BY DEF ConvTypeOK
  <2> QED BY <2>2, <2>7, <2>8, <2>9
<1>5. CASE Persist(t)
  <2> USE <1>5 DEF Persist
  <2>1. Exchange(t) \in Exchanges
    BY DEF ConvTypeOK, Exchange, Exchanges
  <2>2. ConvTypeOK' BY <2>1 DEF ConvTypeOK
  <2>3. ExactSearch => OwnRowsApart' BY DEF OwnRowsApart, ConvTypeOK
  <2>4. Alike(Exchange(t).reply, Exchange(t).ask)
    BY DEF Exchange
  <2>5. (\A m \in messages : Alike(m.reply, m.ask))'
    BY <2>4 DEF RecordedOwnAnswer
  <2>6. (\A s \in Threads : pc[s] = "return" => Exchange(s) \in messages)'
    BY DEF RecordedOwnAnswer, Exchange, ConvTypeOK
  <2>7. RecordedOwnAnswer' BY <2>5, <2>6 DEF RecordedOwnAnswer
  <2>8. (\A s \in Threads :
           pc[s] \in {"store", "persist", "return"} => Alike(answer[s], asked[s]))'
    BY DEF ConvTypeOK
  <2> QED BY <2>2, <2>3, <2>7, <2>8
<1> QED BY <1>1, <1>2, <1>3, <1>4, <1>5 DEF TurnStep

\* Starting a turn, and the expiry of a row, preserve it too.
LEMMA TakeKeepsInv ==
  ASSUME ConvInv, NEW t \in Threads, NEW u \in Updates, Take(t, u)
  PROVE  ConvInv'
<1> USE DEF ConvInv, Take
<1>1. ConvTypeOK' BY DEF ConvTypeOK
<1>2. ExactSearch => OwnRowsApart' BY DEF OwnRowsApart, ConvTypeOK
<1>3. RecordedOwnAnswer' BY DEF RecordedOwnAnswer, Exchange, ConvTypeOK
<1>4. (\A s \in Threads :
         pc[s] \in {"store", "persist", "return"} => Alike(answer[s], asked[s]))'
  BY DEF ConvTypeOK
<1> QED BY <1>1, <1>2, <1>3, <1>4

\* A row that expires takes its claims with it.
LEMMA ExpireKeepsInv ==
  ASSUME ConvInv, NEW e \in cache, Expire(e)
  PROVE  ConvInv'
BY DEF ConvInv, Expire, turnVars, ConvTypeOK, OwnRowsApart, RecordedOwnAnswer, Exchange

\* Every reachable state of the turns, however they interleave, fail and die, is
\* well typed, keeps each thread's own cache rows apart, and has recorded an own
\* answer for whatever is returned.
THEOREM ConvInvariant == ConvSpec => []ConvInv
<1>1. ConvInit => ConvInv
  BY DEF ConvInit, ConvInv, ConvTypeOK, OwnRowsApart, RecordedOwnAnswer
<1>2. ConvInv /\ [ConvNext]_convVars => ConvInv'
  <2> SUFFICES ASSUME ConvInv, [ConvNext]_convVars PROVE ConvInv'
    OBVIOUS
  <2>1. ASSUME NEW t \in Threads, NEW u \in Updates, Take(t, u) PROVE ConvInv'
    BY <2>1, TakeKeepsInv
  <2>2. ASSUME NEW t \in Threads, TurnStep(t) PROVE ConvInv'
    BY <2>2, TurnKeepsInv
  <2>3. ASSUME NEW t \in Threads, Returns(t) \/ Raises(t) PROVE ConvInv'
    BY <2>3, DropsKeepsInv DEF Returns, Raises
  <2>4. ASSUME NEW e \in cache, Expire(e) PROVE ConvInv'
    BY <2>4, ExpireKeepsInv
  <2>5. CASE Dies
    BY <2>5, DropsKeepsInv DEF Dies
  <2>6. CASE UNCHANGED convVars
    BY <2>6 DEF convVars, turnVars, ConvInv, ConvTypeOK, OwnRowsApart, RecordedOwnAnswer,
                Exchange
  <2> QED BY <2>1, <2>2, <2>3, <2>4, <2>5, <2>6 DEF ConvNext
<1> QED BY <1>1, <1>2, PTL DEF ConvSpec

\* ConversationService.java:36-52.  What a turn returns is recorded first, and is
\* an answer to a like question of the same user, for all threads and users.
THEOREM OwnAnswerTheorem == ConvSpec => []RecordedOwnAnswer
<1>1. ConvInv => RecordedOwnAnswer
  BY DEF ConvInv
<1> QED BY <1>1, ConvInvariant, PTL

\* Rows that are all alike have different writers.
LEMMA WritersDiffer ==
  ASSUME ConvInv, ExactSearch, NEW S \in SUBSET cache, \A e, f \in S : Alike(e.of, f.of)
  PROVE  Cardinality(S) <= Cardinality(Threads)
<1> DEFINE writer == [e \in S |-> e.by]
<1>1. writer \in [S -> Threads]
  BY DEF ConvInv, ConvTypeOK, Entries
<1>2. \A e, f \in S : writer[e] = writer[f] => e = f
  BY DEF ConvInv, OwnRowsApart
<1> HIDE DEF writer
<1>3. writer \in Injection(S, Threads)
  BY <1>1, <1>2 DEF Injection, IsInjective
<1>4. IsFiniteSet(Threads)
  BY ConversationAssumption DEF ConversationAssumption
<1> QED BY <1>3, <1>4, FS_Injection

\* QuestionCacheSqlRepository.java:22-31, 49-63.  Though nothing locks a question
\* between its lookup and its insert, live rows whose questions are all alike to one
\* another are never more than the threads, for every pool size and every distance.
\* The rows that a question in between is like to can be more.
THEOREM StampedeTheorem ==
  ASSUME ExactSearch
  PROVE  ConvSpec => []StampedeIsBounded
<1>1. ConvInv => StampedeIsBounded
  BY WritersDiffer DEF StampedeIsBounded
<1> QED BY <1>1, ConvInvariant, PTL
-----------------------------------------------------------------------------
(* Counting, for the two ways a turn is started                              *)

\* At most t joined a finite set.
LEMMA OneMore ==
  ASSUME NEW A, IsFiniteSet(A), NEW t, NEW B \in SUBSET (A \cup {t})
  PROVE  IsFiniteSet(B) /\ Cardinality(B) <= Cardinality(A) + 1
<1>0. /\ IsFiniteSet(A \cup {t})
      /\ Cardinality(A \cup {t}) = IF t \in A THEN Cardinality(A) ELSE Cardinality(A) + 1
  BY FS_AddElement
<1>1. IsFiniteSet(A \cup {t}) /\ Cardinality(A \cup {t}) <= Cardinality(A) + 1
  <2>1. Cardinality(A) \in Nat
    BY FS_CardinalityType
  <2> QED BY <1>0, <2>1
<1>2. IsFiniteSet(B) /\ Cardinality(B) <= Cardinality(A \cup {t})
  BY <1>1, FS_Subset
<1>3. Cardinality(A) \in Nat /\ Cardinality(B) \in Nat /\ Cardinality(A \cup {t}) \in Nat
  BY <1>1, <1>2, FS_CardinalityType
<1> QED BY <1>1, <1>2, <1>3

\* At least t left a finite set.
LEMMA OneLess ==
  ASSUME NEW A, IsFiniteSet(A), NEW t \in A, NEW B \in SUBSET (A \ {t})
  PROVE  IsFiniteSet(B) /\ Cardinality(B) + 1 <= Cardinality(A)
<1>1. IsFiniteSet(A \ {t}) /\ Cardinality(A \ {t}) = Cardinality(A) - 1
  BY FS_RemoveElement
<1>2. IsFiniteSet(B) /\ Cardinality(B) <= Cardinality(A \ {t})
  BY <1>1, FS_Subset
<1>3. Cardinality(A) \in Nat /\ Cardinality(B) \in Nat /\ Cardinality(A \ {t}) \in Nat
  BY <1>1, <1>2, FS_CardinalityType
<1> QED BY <1>1, <1>2, <1>3

\* The positions at which a sequence holds u.
Places(q, u) == {i \in DOMAIN q : q[i] = u}

LEMMA PlacesAreFinite ==
  ASSUME NEW S, NEW q \in Seq(S), NEW u
  PROVE  IsFiniteSet(Places(q, u)) /\ Cardinality(Places(q, u)) \in Nat
<1>1. DOMAIN q = 1..Len(q) /\ Len(q) \in Int /\ 1 \in Int
  OBVIOUS
<1>2. IsFiniteSet(DOMAIN q)
  BY <1>1, FS_Interval
<1> QED BY <1>2, FS_Subset, FS_CardinalityType DEF Places

LEMMA PlacesInAppend ==
  ASSUME NEW S, NEW q \in Seq(S), NEW e \in S, NEW u
  PROVE  /\ Cardinality(Places(Append(q, e), u)) <= Cardinality(Places(q, u)) + 1
         /\ e # u => Places(Append(q, e), u) = Places(q, u)
<1>1. Append(q, e) \in Seq(S) /\ Len(Append(q, e)) = Len(q) + 1 /\ Len(q) \in Nat
      /\ (\A i \in 1..Len(q) : Append(q, e)[i] = q[i]) /\ Append(q, e)[Len(q) + 1] = e
  BY AppendProperties
<1>2. DOMAIN q = 1..Len(q) /\ DOMAIN Append(q, e) = 1..(Len(q) + 1)
  BY <1>1
<1>3. Places(Append(q, e), u) \subseteq Places(q, u) \cup {Len(q) + 1}
  BY <1>1, <1>2 DEF Places
<1>4. e # u => Places(Append(q, e), u) = Places(q, u)
  BY <1>1, <1>2 DEF Places
<1> QED BY <1>3, <1>4, PlacesAreFinite, OneMore

\* Taking the head of a sequence away takes one place of its value away, and
\* moves the others.
LEMMA PlacesInTail ==
  ASSUME NEW S, NEW q \in Seq(S), q # <<>>, NEW u
  PROVE  /\ Cardinality(Places(Tail(q), u)) <= Cardinality(Places(q, u))
         /\ Head(q) = u => Cardinality(Places(Tail(q), u)) + 1 <= Cardinality(Places(q, u))
<1> DEFINE rest == Places(q, u) \ {1}
           shift == [i \in Places(Tail(q), u) |-> i + 1]
<1>1. Tail(q) \in Seq(S) /\ Len(Tail(q)) = Len(q) - 1 /\ Len(q) \in Nat
      /\ \A i \in 1..Len(Tail(q)) : Tail(q)[i] = q[i + 1]
  BY HeadTailProperties
<1>2. DOMAIN q = 1..Len(q) /\ DOMAIN Tail(q) = 1..(Len(q) - 1)
  BY <1>1
<1>3. shift \in [Places(Tail(q), u) -> rest]
  BY <1>1, <1>2 DEF Places
<1>4. \A i, j \in Places(Tail(q), u) : shift[i] = shift[j] => i = j
  BY <1>2 DEF Places
<1> HIDE DEF shift
<1>5. shift \in Injection(Places(Tail(q), u), rest)
  BY <1>3, <1>4 DEF Injection, IsInjective
<1>6. IsFiniteSet(Places(q, u)) /\ IsFiniteSet(rest)
  BY PlacesAreFinite, FS_RemoveElement
<1>7. Cardinality(Places(Tail(q), u)) <= Cardinality(rest)
  BY <1>5, <1>6, FS_Injection
<1>8. Cardinality(rest) = IF 1 \in Places(q, u) THEN Cardinality(Places(q, u)) - 1
                                                ELSE Cardinality(Places(q, u))
  BY <1>6, FS_RemoveElement
<1>9. Head(q) = u => 1 \in Places(q, u)
  BY <1>1, <1>2 DEF Places
<1>10. /\ Cardinality(Places(Tail(q), u)) \in Nat /\ Cardinality(Places(q, u)) \in Nat
       /\ Cardinality(rest) \in Nat
  BY <1>1, <1>6, PlacesAreFinite, FS_CardinalityType
<1> HIDE DEF rest
<1> QED BY <1>7, <1>8, <1>9, <1>10
=============================================================================
