------------------------------- MODULE Search -------------------------------
(***************************************************************************)
(* semantic_search_messages (messages/imsg_mcp/tools.py) over the vector   *)
(* store while jobs index, messages arrive and are deleted, and servers    *)
(* die.  A call reads three things at three moments: the chat's status,    *)
(* the nearest vectors, and the messages of a snapshot.  The nearest       *)
(* vectors are those of all chats; chat and window are asked of them       *)
(* afterwards, which is why more are fetched than are wanted.              *)
(*                                                                         *)
(* A question is [query, chat, since, until, fromOnly].  The submission of *)
(* the chat and the wait for its job are a Start, or none, of some worker. *)
(***************************************************************************)
EXTENDS VectorStore

CONSTANTS
  Callers,     \* threads that run a search
  At,          \* the server of a caller
  Questions,
  AnyQuestion, \* what an idle caller's question is
  Distance,    \* the distance of a message's vector from a query's
  Score,       \* the score of a hit: the similarity, clipped and rounded to four digits
  Cutoff,      \* the distance of min_score
  Mine,        \* messages that are from me
  TopK,        \* top_k
  OverFetch    \* the factor between the vectors asked for and top_k

SearchAssumption ==
  /\ At \in [Callers -> Servers] /\ AnyQuestion \in Questions
  /\ \A q \in Questions :
       /\ q.chat \in Chats
       /\ Distance[q.query] \in [Guids -> Nat] /\ Score[q.query] \in [Guids -> Nat]
       /\ \A g, h \in Guids : Distance[q.query][g] <= Distance[q.query][h] =>
                              Score[q.query][h] <= Score[q.query][g]
  /\ Mine \subseteq Guids /\ TopK \in Nat \ {0} /\ OverFetch \in Nat \ {0}

ASSUME SearchAssumption

VARIABLES
  stage, ask, scored,    \* the calls, and the candidates of one
  hits,                  \* the answer
  seen,                  \* history: under which chat a message was filed at the search
  source,                \* history: the snapshot the hits were fetched from
  unread,                \* history: the callers whose read of it failed
  filed                  \* history: the messages that a caller's server has filed

callVars == <<stage, ask, scored, hits, seen, source, unread>>
searchVars == <<storeVars, callVars, filed>>

Nowhere == [g \in Guids |-> NoChat]

SearchInit ==
  /\ StoreInit
  /\ stage = [k \in Callers |-> "idle"] /\ ask = [k \in Callers |-> AnyQuestion]
  /\ scored = [k \in Callers |-> {}] /\ hits = [k \in Callers |-> {}]
  /\ seen = [k \in Callers |-> Nowhere] /\ source = [k \in Callers |-> {}]
  /\ unread = {} /\ filed = [k \in Callers |-> {}]

Answers(k, H) ==
  /\ stage' = [stage EXCEPT ![k] = "answered"]
  /\ hits' = [hits EXCEPT ![k] = H]

\* a question, from its status row on; nothing indexed is an empty answer at once
Ask(k, q) ==
  /\ stage[k] = "idle" /\ Free(At[k])
  /\ meta[q.chat].indexed # 0
  /\ stage' = [stage EXCEPT ![k] = "searching"] /\ ask' = [ask EXCEPT ![k] = q]
  /\ UNCHANGED <<storeVars, scored, hits, seen, source, unread, filed>>

Vectors == {r \in RowIds : db.vec[r] # NoGuid}

\* N is some n nearest vectors of the whole index, or all of them
Nearest(N, n, query) ==
  /\ N \subseteq Vectors
  /\ Cardinality(N) = n \/ (Cardinality(N) < n /\ N = Vectors)
  /\ \A r \in N, i \in Vectors \ N : Distance[query][db.vec[r]] <= Distance[query][db.vec[i]]

InWindow(g, q) == Date[g] >= q.since /\ Date[g] < q.until

\* knn: the join of the nearest vectors with their rows, then chat, window and min_score
KnnLimit_TopK == TopK
KnnLimit == OverFetch * TopK

Knn(k) ==
  LET q == ask[k] IN
  /\ stage[k] = "searching" /\ Free(At[k])
  /\ \E N \in SUBSET Vectors :
       /\ Nearest(N, KnnLimit, q.query)
       /\ scored' = [scored EXCEPT ![k] =
            {g \in Guids : /\ db.at[g] \in N /\ db.filed[g] = q.chat /\ InWindow(g, q)
                           /\ Distance[q.query][db.vec[db.at[g]]] <= Cutoff}]
  /\ seen' = [seen EXCEPT ![k] = db.filed]
  /\ stage' = [stage EXCEPT ![k] = "fetching"]
  /\ UNCHANGED <<storeVars, ask, hits, source, unread, filed>>

\* fetch_messages_by_guids over S, from_only, and the top_k best of what is left, by score
Fetched(k, S) ==
  {g \in scored[k] \cap S : ask[k].chat \in InChats[g] /\ (ask[k].fromOnly => g \notin Mine)}

BestOf(H, F, query) ==
  /\ H \subseteq F
  /\ Cardinality(H) = TopK \/ (Cardinality(H) < TopK /\ H = F)
  /\ \A g \in H, i \in F \ H : Score[query][i] <= Score[query][g]

AnswersBest(k, S) ==
  /\ \E H \in SUBSET Fetched(k, S) : BestOf(H, Fetched(k, S), ask[k].query) /\ Answers(k, H)
  /\ UNCHANGED unread

\* the snapshot cannot be read, its directory removed perhaps: the error is logged, there are
\* no rows, and the answer is one without hits
AnswersUnread(k) == Answers(k, {}) /\ unread' = unread \cup {k}

Fetch(k, S) ==
  /\ stage[k] = "fetching"
  /\ IF scored[k] = {}
       THEN Answers(k, {}) /\ UNCHANGED <<storeVars, source, unread>>
       ELSE /\ Reads(At[k], S)
            /\ AnswersBest(k, S) \/ AnswersUnread(k)
            /\ source' = [source EXCEPT ![k] = S]
  /\ UNCHANGED <<ask, scored, seen, filed>>

Leave(k) ==
  /\ stage' = [stage EXCEPT ![k] = "idle"] /\ ask' = [ask EXCEPT ![k] = AnyQuestion]
  /\ scored' = [scored EXCEPT ![k] = {}] /\ hits' = [hits EXCEPT ![k] = {}]
  /\ seen' = [seen EXCEPT ![k] = Nowhere] /\ source' = [source EXCEPT ![k] = {}]
  /\ unread' = unread \ {k}

Return(k) == stage[k] = "answered" /\ Leave(k) /\ UNCHANGED <<storeVars, filed>>

\* any other error: embed, knn or the refresh of the snapshot raises, and so does the tool
Raises(k) ==
  /\ stage[k] \in {"searching", "fetching"}
  /\ Leave(k) /\ UNCHANGED <<storeVars, filed>>

\* the store's steps; a committed batch has one more filer, a dying server no more calls
Mailbox == (\E g \in Guids : Arrive(g) \/ Vanish(g)) /\ UNCHANGED <<callVars, filed>>

Works(w) ==
  /\ JobStep(w)
  /\ filed' = [k \in Callers |->
                IF At[k] = ServerOf[w] THEN filed[k] \cup {g \in Guids : db'.at[g] # db.at[g]}
                                       ELSE filed[k]]
  /\ UNCHANGED callVars

Dies(s) ==
  LET gone_(f, none) == [k \in Callers |-> IF At[k] = s THEN none ELSE f[k]] IN
  /\ Crash(s)
  /\ stage' = gone_(stage, "idle") /\ ask' = gone_(ask, AnyQuestion)
  /\ scored' = gone_(scored, {}) /\ hits' = gone_(hits, {})
  /\ seen' = gone_(seen, Nowhere) /\ source' = gone_(source, {})
  /\ unread' = {k \in unread : At[k] # s}
  /\ UNCHANGED filed

SearchNext ==
  \/ Mailbox
  \/ \E w \in Workers : Works(w)
  \/ \E s \in Servers : Dies(s)
  \/ \E k \in Callers :
       \/ \E q \in Questions : Ask(k, q)
       \/ Knn(k) \/ Return(k) \/ Raises(k)
       \/ \E S \in copy[At[k]] \cup {box} : Fetch(k, S)

SearchSpec == SearchInit /\ [][SearchNext]_searchVars

-----------------------------------------------------------------------------
(* Properties                                                                *)

\* g is what k asked for, and was filed under the chat when the vectors were searched
Matches(g, k) ==
  LET q == ask[k] IN
  /\ seen[k][g] = q.chat /\ q.chat \in InChats[g] /\ InWindow(g, q)
  /\ Distance[q.query][g] <= Cutoff /\ (q.fromOnly => g \notin Mine)

NoFarther(g, query, S) == {h \in S \ {g} : Distance[query][h] <= Distance[query][g]}
NoLower(g, query, S) == {h \in S \ {g} : Score[query][g] <= Score[query][h]}

\* What a search leaves out.  A message that was indexed, fits the question and is in the
\* snapshot is missing from the answer only when top_k hits have a score as high, though four
\* digits may hide that they are farther; when so many messages of all chats are as near that
\* the k nearest were full without it; or when the snapshot could not be read, and then the
\* answer has no hits at all (knn, fetch_messages_by_guids, _fetch_hits_by_guids).
HitsAreNearest ==
  \A k \in Callers : stage[k] = "answered" /\ source[k] # {} =>
    /\ \A h \in hits[k] : Matches(h, k) /\ h \in source[k]
    /\ \A g \in source[k] \ hits[k] : Matches(g, k) =>
         LET q == ask[k].query IN
         \/ Cardinality(NoLower(g, q, hits[k])) >= TopK
         \/ Cardinality(NoFarther(g, q, {h \in Guids : seen[k][h] # NoChat})) >= OverFetch * TopK
         \/ k \in unread /\ hits[k] = {}

\* The snapshot is read after the index and is not the one a job indexed from.  Still, a
\* message that this server has filed is in it, unless it was deleted: no hit is lost to a
\* copy that is older than the index (Cache.snapshot, _fetch_hits_by_guids).
OwnRowsAreFetched ==
  [][\A k \in Callers :
       stage[k] = "fetching" /\ stage'[k] = "answered" /\ scored[k] # {} =>
         \A g \in scored[k] \cap filed[k] : g \in source'[k] \cup gone]_searchVars
=============================================================================
