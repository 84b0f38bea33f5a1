---------------------------- MODULE Conversation ----------------------------
(***************************************************************************)
(* The turn of ghostwriter: ConversationService.respond over the semantic  *)
(* question cache (QuestionCacheService, QuestionCacheSqlRepository), the  *)
(* LLM and the Message table.  Threads run turns concurrently; a step of a *)
(* turn is one call of respond.  KafkaPipeline and InlineIntake extend     *)
(* this module with the two ways a turn is started and its reply sent.     *)
(*                                                                         *)
(* An answer is named by the update whose text the LLM was given.          *)
(***************************************************************************)
EXTENDS Naturals, FiniteSets

CONSTANTS
  Updates,      \* Telegram updates: a user's question each
  Threads,
  NoUpdate,
  UserOf,
  Distance,     \* cosine distance of the embeddings of two questions
  MaxDistance,  \* 1.0 - similarityThreshold
  ExactSearch   \* Postgres answers findSimilar by a scan or the index on userId and
                \* expiresAt, and not by the approximate HNSW index

ConversationAssumption ==
  /\ IsFiniteSet(Threads) /\ NoUpdate \notin Updates
  /\ DOMAIN UserOf = Updates
  /\ Distance \in [Updates -> [Updates -> Nat]]
  /\ MaxDistance \in Nat \ {0} /\ ExactSearch \in BOOLEAN
  /\ \A u, v \in Updates : Distance[u][v] = Distance[v][u] /\ Distance[u][u] = 0

ASSUME ConversationAssumption

VARIABLES
  pc, asked, answer,   \* the turns: next call of respond, its question, its aiResponse
  cache,               \* the rows of QuestionCache with expiresAt > NOW(), with their writer
  messages             \* the rows of Message

turnVars == <<pc, asked, answer>>
convVars == <<turnVars, cache, messages>>

Entries == [by : Threads, of : Updates]
Exchanges == [ask : Updates, reply : Updates]

ConvTypeOK ==
  /\ pc \in [Threads -> {"idle", "lookup", "generate", "store", "persist", "return"}]
  /\ asked \in [Threads -> Updates \cup {NoUpdate}]
  /\ answer \in [Threads -> Updates \cup {NoUpdate}]
  /\ \A t \in Threads : /\ pc[t] # "idle" => asked[t] \in Updates
                        /\ pc[t] \in {"store", "persist", "return"} => answer[t] \in Updates
  /\ cache \subseteq Entries
  /\ messages \subseteq Exchanges

ConvInit ==
  /\ pc = [t \in Threads |-> "idle"]
  /\ asked = [t \in Threads |-> NoUpdate] /\ answer = [t \in Threads |-> NoUpdate]
  /\ cache = {} /\ messages = {}

Take(t, u) ==
  /\ pc[t] = "idle"
  /\ pc' = [pc EXCEPT ![t] = "lookup"] /\ asked' = [asked EXCEPT ![t] = u]
  /\ UNCHANGED <<answer, cache, messages>>

\* findSimilar takes the one for the other: same user, closer than maxDistance
Alike(u, v) == UserOf[u] = UserOf[v] /\ Distance[u][v] < MaxDistance

Similar_AnyUser(u) == {e \in cache : Distance[e.of][u] < MaxDistance}
Similar(u) == {e \in cache : Alike(e.of, u)}
Nearest(u) == {e \in Similar(u) : \A f \in Similar(u) : Distance[e.of][u] <= Distance[f.of][u]}

\* the row found, if any: HNSW looks at some rows only, whosever and expired or not
Finds(u, e) == e \in (IF ExactSearch THEN Nearest(u) ELSE Similar(u))
FindsNone(u) == ExactSearch => Similar(u) = {}

HitCache(t) ==
  /\ pc[t] = "lookup"
  /\ \E e \in cache : Finds(asked[t], e) /\ answer' = [answer EXCEPT ![t] = e.of]
  /\ pc' = [pc EXCEPT ![t] = "persist"]
  /\ UNCHANGED <<asked, cache, messages>>

MissCache_Always(t) ==
  /\ pc[t] = "lookup" /\ pc' = [pc EXCEPT ![t] = "generate"]
  /\ UNCHANGED <<asked, answer, cache, messages>>
MissCache(t) ==
  /\ pc[t] = "lookup" /\ FindsNone(asked[t])
  /\ pc' = [pc EXCEPT ![t] = "generate"]
  /\ UNCHANGED <<asked, answer, cache, messages>>

Generate(t) ==
  /\ pc[t] = "generate"
  /\ pc' = [pc EXCEPT ![t] = "store"] /\ answer' = [answer EXCEPT ![t] = asked[t]]
  /\ UNCHANGED <<asked, cache, messages>>

\* save always inserts a new row
Store(t) ==
  /\ pc[t] = "store"
  /\ pc' = [pc EXCEPT ![t] = "persist"]
  /\ cache' = cache \cup {[by |-> t, of |-> asked[t]]}
  /\ UNCHANGED <<asked, answer, messages>>

Exchange(t) == [ask |-> asked[t], reply |-> answer[t]]

Persist_Skipped(t) ==
  /\ pc[t] = "persist" /\ pc' = [pc EXCEPT ![t] = "return"]
  /\ UNCHANGED <<asked, answer, cache, messages>>
Persist(t) ==
  /\ pc[t] = "persist"
  /\ pc' = [pc EXCEPT ![t] = "return"]
  /\ messages' = messages \cup {Exchange(t)}
  /\ UNCHANGED <<asked, answer, cache>>

\* the locals of the turns T are gone
Drops(T) ==
  /\ pc' = [t \in Threads |-> IF t \in T THEN "idle" ELSE pc[t]]
  /\ asked' = [t \in Threads |-> IF t \in T THEN NoUpdate ELSE asked[t]]
  /\ answer' = [t \in Threads |-> IF t \in T THEN NoUpdate ELSE answer[t]]
  /\ UNCHANGED <<cache, messages>>

Returns(t) == pc[t] = "return" /\ Drops({t})

\* any call of the turn raises; a lost answer to a commit shows one call later
Raises(t) == pc[t] # "idle" /\ Drops({t})

\* the process dies with all its turns
Dies == Drops(Threads)

\* a row's expiresAt passes
Expire(e) ==
  /\ e \in cache
  /\ cache' = cache \ {e}
  /\ UNCHANGED <<turnVars, messages>>

TurnStep(t) ==
  \/ HitCache(t) \/ MissCache(t) \/ Generate(t) \/ Store(t) \/ Persist(t)

ConvNext ==
  \/ \E t \in Threads : (\E u \in Updates : Take(t, u)) \/ TurnStep(t) \/ Returns(t) \/ Raises(t)
  \/ \E e \in cache : Expire(e)
  \/ Dies

ConvSpec == ConvInit /\ [][ConvNext]_convVars

-----------------------------------------------------------------------------
(* Properties                                                                *)

\* QuestionCacheSqlRepository.java:22-31, QuestionCacheService.java:32-48.  The
\* lookup and the insert are not one transaction, so concurrent turns may answer
\* like questions twice; but live rows that are all alike to one another are never
\* more than the threads, however often they are asked, fail or are retried, as long
\* as the search is exact.  One question may hit more: it can be like two that are
\* not like each other, and a thread may then have a row of each.
StampedeIsBounded ==
  \A S \in SUBSET cache :
    (\A e, f \in S : Alike(e.of, f.of)) => Cardinality(S) <= Cardinality(Threads)

\* ConversationService.java:36-52.  What a turn returns, and what is recorded as
\* its answer, was generated for a like question of the same user, and is
\* recorded before it is returned.
RecordedOwnAnswer ==
  /\ \A m \in messages : Alike(m.reply, m.ask)
  /\ \A t \in Threads : pc[t] = "return" => Exchange(t) \in messages

\* The inductive invariant behind both: a thread's own live rows are apart, and
\* apart from the question it has missed with.
OwnRowsApart ==
  /\ \A e, f \in cache : e.by = f.by /\ Alike(e.of, f.of) => e = f
  /\ \A t \in Threads, e \in cache :
       pc[t] \in {"generate", "store"} /\ e.by = t => ~Alike(e.of, asked[t])

ConvInv ==
  /\ ConvTypeOK
  /\ ExactSearch => OwnRowsApart
  /\ RecordedOwnAnswer
  /\ \A t \in Threads :
       pc[t] \in {"store", "persist", "return"} => Alike(answer[t], asked[t])
=============================================================================
