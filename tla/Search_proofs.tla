--------------------------- MODULE Search_proofs ---------------------------
(* Theorems about vectors.db under several servers, of VectorStore.tla, and *)
(* about the searches over it, of Search.tla, which takes the store's steps. *)
EXTENDS Search, FiniteSetTheorems, TLAPS

\* The stages of a job in which todo is a part of its chat.
Streaming == {"announce", "since", "scan", "write", "save"}

InChat(c) == {g \in Guids : c \in InChats[g]}

\* A thread that is in a transaction holds its server's lock.
LockInv == \A w \in Workers : pc[w] = "write" => mutex[ServerOf[w]] = w

\* What a job streams, and the batch it is writing, are messages of its chat.
TodoInv ==
  /\ \A w \in Workers : pc[w] \in Streaming => todo[w] \subseteq InChat(chat[w])
  /\ \A w \in Workers : pc[w] = "write" => batch[w] \subseteq InChat(chat[w]) /\ batch[w] # {}

\* The filings of thread w's transaction: what it has put so far, on top of the database.
SeenBy(w) ==
  [g \in Guids |-> IF g \in batch[w] \ left[w] THEN chat[w] ELSE db.filed[g]]

\* A transaction that is not left behind sees the database and its own rows; one that has
\* put a row is the writer, and the writer is not left behind.
TxInv ==
  /\ \A w \in Workers : pc[w] = "write" =>
       /\ ServerOf[w] \notin stale => view[ServerOf[w]].filed = SeenBy(w)
       /\ left[w] # batch[w] => writer = ServerOf[w]
       /\ left[w] \subseteq batch[w]
  /\ writer \notin stale

-----------------------------------------------------------------------------
(* Type correctness                                                          *)

LEMMA SubsetsAreCounted == \A S \in SUBSET Guids : IsFiniteSet(S) /\ Cardinality(S) \in Nat
  BY FS_Subset, FS_CardinalityType, StoreAssumption DEF StoreAssumption

LEMMA UpsertedIsADatabase ==
  ASSUME NEW d \in Database, NEW g \in Guids, NEW c \in Chats, NEW r \in RowIds
  PROVE  Upserted(d, g, c, r) \in Database
  BY DEF Database, Upserted

\* The table chat_meta after a statement on it.
LEMMA StatusIsTyped ==
  ASSUME StoreTypeOK, NEW s \in Servers, NEW c \in Chats, NEW status \in Statuses,
         WritesStatus(s, c, status)
  PROVE  /\ meta' \in [Chats -> Statuses] /\ stale' \subseteq Servers
         /\ UNCHANGED <<mutex, view, writer>>
  BY DEF StoreTypeOK, WritesStatus, LeftBehind

LEMMA EndsIsTyped ==
  ASSUME StoreTypeOK, NEW w \in Workers, Ends(w)
  PROVE  /\ pc' \in [Workers -> Active \cup {"idle"}] /\ chat' \in [Workers -> Chats]
         /\ snap' \in [Workers -> SUBSET Guids] /\ todo' \in [Workers -> SUBSET Guids]
         /\ newest' \in [Workers -> Nat] /\ count' \in [Workers -> Nat]
         /\ batch' \in [Workers -> SUBSET Guids] /\ left' \in [Workers -> SUBSET Guids]
<1>1. AnyChat \in Chats
  BY StoreAssumption DEF StoreAssumption, AnyChat
<1> QED BY <1>1 DEF StoreTypeOK, Ends

LEMMA ClosesIsTyped ==
  ASSUME StoreTypeOK, NEW s \in Servers, Closes(s)
  PROVE  /\ mutex' \in [Servers -> Workers \cup {NoThread}] /\ view' \in [Servers -> Database]
         /\ writer' \in Servers \cup {NoServer}
<1>1. EmptyDatabase \in Database
  BY DEF EmptyDatabase, Database
<1> QED BY <1>1 DEF StoreTypeOK, Closes

LEMMA JobStepIsTyped ==
  ASSUME StoreTypeOK, NEW w \in Workers, JobStep(w)
  PROVE  StoreTypeOK'
<1> USE DEF mailVars, lockVars, jobLocals
<1>0. ServerOf[w] \in Servers /\ chat[w] \in Chats /\ meta[chat[w]] \in Statuses
  BY StoreAssumption DEF StoreAssumption, StoreTypeOK
<1>1. ASSUME NEW c \in Chats, NEW S \in copy[ServerOf[w]] \cup {box}, Start(w, c, S)
      PROVE StoreTypeOK'
  BY <1>0, <1>1 DEF StoreTypeOK, Start, SnapshotOf, Active, Waiting
<1>2. CASE Begin(w)
  <2>1. [meta[chat[w]] EXCEPT !.state = "indexing"] \in Statuses
    BY <1>0 DEF Statuses
  <2> QED BY <1>0, <1>2, <2>1, StatusIsTyped DEF StoreTypeOK, Begin, Active, Waiting
<1>3. CASE Open(w)
  <2>1. Cardinality(RowsOf(chat[w])) \in Nat
    BY SubsetsAreCounted DEF RowsOf
  <2> QED BY <1>0, <1>3, <2>1 DEF StoreTypeOK, Open, Active, Waiting
<1>4. CASE Announce(w)
  <2>1. [meta[chat[w]] EXCEPT !.indexed = count[w]] \in Statuses
    BY <1>0 DEF Statuses, StoreTypeOK
  <2> QED BY <1>0, <1>4, <2>1, StatusIsTyped DEF StoreTypeOK, Announce, Active, Waiting
<1>5. CASE Since(w)
  BY <1>0, <1>5 DEF StoreTypeOK, Since, Active, Waiting, Statuses
<1>6. ASSUME NEW B \in SUBSET todo[w], BeginBatch(w, B) PROVE StoreTypeOK'
  <2>1. B \subseteq Guids
    BY DEF StoreTypeOK
  <2> QED BY <1>0, <1>6, <2>1 DEF StoreTypeOK, BeginBatch, Active, Waiting
<1>7. ASSUME NEW g \in Guids, NEW r \in RowIds, Put(w, g, r) PROVE StoreTypeOK'
  <2>1. Upserted(view[ServerOf[w]], g, chat[w], r) \in Database
    BY <1>0, UpsertedIsADatabase DEF StoreTypeOK
  <2> QED BY <1>0, <1>7, <2>1 DEF StoreTypeOK, Put
<1>8. CASE Refused(w)
  BY <1>0, <1>8, ClosesIsTyped DEF StoreTypeOK, Refused, Active, Waiting
<1>9. CASE Commit(w)
  <2>1. count[w] + Cardinality(batch[w]) \in Nat
    BY SubsetsAreCounted DEF StoreTypeOK
  <2>2. newest' \in [Workers -> Nat]
    <3>1. {newest[w]} \cup {Date[g] : g \in batch[w]} \subseteq Nat
      BY StoreAssumption DEF StoreAssumption, StoreTypeOK
    <3>2. PICK n \in {newest[w]} \cup {Date[g] : g \in batch[w]} :
            newest' = [newest EXCEPT ![w] = n]
      BY <1>9 DEF Commit
    <3> QED BY <3>1, <3>2 DEF StoreTypeOK
  <2>3. /\ db' \in Database /\ count' \in [Workers -> Nat]
        /\ stale' \subseteq Servers
        /\ todo' \in [Workers -> SUBSET Guids] /\ batch' \in [Workers -> SUBSET Guids]
        /\ pc' \in [Workers -> Active \cup {"idle"}]
    BY <1>0, <1>9, <2>1 DEF StoreTypeOK, Commit, LeftBehind, Active, Waiting
  <2> QED BY <1>0, <1>9, <2>2, <2>3, ClosesIsTyped DEF StoreTypeOK, Commit
<1>10. CASE SaveProgress(w)
  <2>1. [meta[chat[w]] EXCEPT !.indexed = count[w], !.mark = newest[w]] \in Statuses
    BY <1>0 DEF Statuses, StoreTypeOK
  <2> QED BY <1>0, <1>10, <2>1, StatusIsTyped DEF StoreTypeOK, SaveProgress, Active, Waiting
<1>11. CASE Finish(w)
  <2>1. [indexed |-> count[w], mark |-> newest[w], state |-> "ready"] \in Statuses
    BY DEF Statuses, StoreTypeOK
  <2> QED BY <1>0, <1>11, <2>1, StatusIsTyped, EndsIsTyped DEF StoreTypeOK, Finish
<1>12. CASE JobFails(w)
  BY <1>0, <1>12, ClosesIsTyped DEF StoreTypeOK, JobFails, Fault, Active, Waiting
<1>13. CASE RecordsError(w)
  <2>1. [meta[chat[w]] EXCEPT !.state = "error"] \in Statuses
    BY <1>0 DEF Statuses
  <2> QED BY <1>0, <1>13, <2>1, StatusIsTyped, EndsIsTyped DEF StoreTypeOK, RecordsError
<1>14. CASE TimesOut(w)
  BY <1>0, <1>14, EndsIsTyped DEF StoreTypeOK, TimesOut, Active, Waiting
<1> QED
  BY <1>1, <1>2, <1>3, <1>4, <1>5, <1>6, <1>7, <1>8, <1>9, <1>10, <1>11, <1>12, <1>13, <1>14
  DEF JobStep

LEMMA StepIsTyped ==
  ASSUME StoreTypeOK, [StoreNext]_storeVars
  PROVE  StoreTypeOK'
<1>1. ASSUME NEW g \in Guids, Arrive(g) \/ Vanish(g) PROVE StoreTypeOK'
  BY <1>1 DEF StoreTypeOK, Arrive, Vanish, mailVars, lockVars, jobLocals
<1>2. ASSUME NEW w \in Workers, JobStep(w) PROVE StoreTypeOK'
  BY <1>2, JobStepIsTyped
<1>3. ASSUME NEW s \in Servers, Crash(s) PROVE StoreTypeOK'
  <2>1. AnyChat \in Chats
    BY StoreAssumption DEF StoreAssumption, AnyChat
  <2> QED BY <1>3, <2>1, ClosesIsTyped DEF StoreTypeOK, Crash, Fault, mailVars
<1>4. CASE UNCHANGED storeVars
  BY <1>4 DEF StoreTypeOK, storeVars, mailVars, lockVars, jobLocals
<1>5. ASSUME NEW s \in Servers, NEW S \in copy[s] \cup {box}, Reads(s, S) PROVE StoreTypeOK'
  BY <1>5 DEF StoreTypeOK, Reads, SnapshotOf, mailVars, lockVars, jobLocals
<1> QED BY <1>1, <1>2, <1>3, <1>4, <1>5 DEF StoreNext

\* Every state of the store is well typed, for any servers, threads, messages and batch size.
THEOREM TypeCorrect == StoreSpec => []StoreTypeOK
<1>1. StoreInit => StoreTypeOK
  <2> SUFFICES ASSUME StoreInit PROVE StoreTypeOK
    OBVIOUS
  <2>1. AnyChat \in Chats
    BY StoreAssumption DEF StoreAssumption, AnyChat
  <2>2. EmptyDatabase \in Database
    BY DEF EmptyDatabase, Database
  <2> QED BY <2>1, <2>2, StoreAssumption DEF StoreAssumption, StoreInit, StoreTypeOK, Statuses
<1>2. StoreTypeOK /\ [StoreNext]_storeVars => StoreTypeOK'
  BY StepIsTyped
<1> QED BY <1>1, <1>2, PTL DEF StoreSpec

-----------------------------------------------------------------------------
(* The two tables                                                            *)

\* Of the threads in a transaction only w is one of its server's.
LEMMA OneTransaction ==
  ASSUME LockInv, NEW w \in Workers, NEW v \in Workers, pc[v] = "write",
         ServerOf[v] = ServerOf[w], mutex[ServerOf[w]] = w \/ Free(ServerOf[w])
  PROVE  v = w
  BY StoreAssumption DEF StoreAssumption, LockInv, Free

\* A step begins a transaction only under a free lock, and gives the lock back with its end.
LEMMA LockStep ==
  ASSUME StoreTypeOK, LockInv, [StoreNext]_storeVars
  PROVE  LockInv'
<1> USE StoreAssumption DEF StoreAssumption, LockInv, Free
<1>1. ASSUME NEW w \in Workers, JobStep(w) PROVE LockInv'
  <2>0. ServerOf[w] \in Servers
    OBVIOUS
  <2>1. CASE \/ \E c \in Chats, S \in copy[ServerOf[w]] \cup {box} : Start(w, c, S)
             \/ Begin(w) \/ Open(w) \/ Announce(w) \/ Since(w) \/ SaveProgress(w)
             \/ Finish(w) \/ RecordsError(w) \/ TimesOut(w)
    <3>1. mutex' = mutex /\ \A v \in Workers : pc'[v] = "write" => pc[v] = "write"
      BY <2>1 DEF StoreTypeOK, Start, Begin, Open, Announce, Since, SaveProgress, Finish,
                  RecordsError, TimesOut, Ends, WritesStatus, lockVars
    <3> QED BY <3>1
  <2>2. ASSUME NEW B \in SUBSET todo[w], BeginBatch(w, B) PROVE LockInv'
    BY <2>0, <2>2, OneTransaction DEF StoreTypeOK, BeginBatch
  <2>3. ASSUME NEW g \in Guids, NEW r \in RowIds, Put(w, g, r) PROVE LockInv'
    BY <2>3 DEF Put
  <2>4. CASE Refused(w) \/ Commit(w)
    <3>1. /\ pc[w] = "write" /\ mutex' = [mutex EXCEPT ![ServerOf[w]] = NoThread]
          /\ \A v \in Workers : pc'[v] = "write" => v # w /\ pc[v] = "write"
      BY <2>4 DEF StoreTypeOK, Refused, Commit, Closes
    <3> QED BY <2>0, <3>1, OneTransaction DEF StoreTypeOK
  <2>5. CASE JobFails(w)
    <3>1. /\ \A v \in Workers : pc'[v] = "write" => v # w /\ pc[v] = "write"
          /\ mutex' = IF mutex[ServerOf[w]] = w THEN [mutex EXCEPT ![ServerOf[w]] = NoThread]
                                               ELSE mutex
      BY <2>5 DEF StoreTypeOK, JobFails, Closes, lockVars
    <3> QED BY <2>0, <3>1, OneTransaction DEF StoreTypeOK
  <2> QED BY <1>1, <2>1, <2>2, <2>3, <2>4, <2>5 DEF JobStep
<1>2. ASSUME NEW s \in Servers, Crash(s) PROVE LockInv'
  BY <1>2 DEF StoreTypeOK, Crash, Closes
<1>3. CASE \/ \E g \in Guids : Arrive(g) \/ Vanish(g)
           \/ \E s \in Servers : \E S \in copy[s] \cup {box} : Reads(s, S)
           \/ UNCHANGED storeVars
  BY <1>3 DEF Arrive, Vanish, Reads, storeVars, lockVars
<1> QED BY <1>1, <1>2, <1>3 DEF StoreNext

\* One row of a batch: its old vector goes, and the new one takes a free rowid.
LEMMA UpsertedAgrees ==
  ASSUME NEW d \in Database, Agree(d), NEW g \in Guids, NEW c \in Chats, NEW r \in RowIds,
         d.vec[r] = NoGuid
  PROVE  Agree(Upserted(d, g, c, r))
<1> DEFINE u == Upserted(d, g, c, r)
<1> USE StoreAssumption DEF StoreAssumption, Database
<1>1. /\ \A h \in Guids : u.filed[h] = IF h = g THEN c ELSE d.filed[h]
      /\ \A h \in Guids : u.at[h] = IF h = g THEN r ELSE d.at[h]
      /\ \A i \in RowIds : u.vec[i] = IF i = r THEN g ELSE IF i = d.at[g] THEN NoGuid ELSE d.vec[i]
  BY DEF Upserted
<1>2. ASSUME NEW h \in Guids PROVE (u.filed[h] = NoChat) = (u.at[h] = NoRowId)
  BY <1>1 DEF Agree
<1>3. ASSUME NEW h \in Guids, u.at[h] # NoRowId PROVE u.vec[u.at[h]] = h
  BY <1>1, <1>3 DEF Agree
<1>4. ASSUME NEW i \in RowIds, u.vec[i] # NoGuid PROVE u.at[u.vec[i]] = i
  BY <1>1, <1>4 DEF Agree
<1> HIDE DEF u
<1>5. Agree(u)
  BY <1>2, <1>3, <1>4 DEF Agree
<1> QED BY <1>5 DEF u

\* A step that changes no table, or closes transactions, keeps the tables in agreement.
LEMMA AgreeStep ==
  ASSUME StoreTypeOK, LockInv, TablesAgree, [StoreNext]_storeVars
  PROVE  TablesAgree'
<1> USE StoreAssumption DEF StoreAssumption, TablesAgree
<1>1. ASSUME NEW w \in Workers, JobStep(w) PROVE TablesAgree'
  <2>0. ServerOf[w] \in Servers /\ chat[w] \in Chats
    BY DEF StoreTypeOK
  <2>1. CASE \/ \E c \in Chats, S \in copy[ServerOf[w]] \cup {box} : Start(w, c, S)
             \/ Begin(w) \/ Open(w) \/ Announce(w) \/ Since(w) \/ SaveProgress(w)
             \/ Finish(w) \/ RecordsError(w) \/ TimesOut(w)
    <3>1. UNCHANGED <<db, mutex, view>>
      BY <2>1 DEF Start, Begin, Open, Announce, Since, SaveProgress, Finish, RecordsError,
                  TimesOut, WritesStatus, lockVars
    <3> QED BY <3>1 DEF Free
  <2>2. ASSUME NEW B \in SUBSET todo[w], BeginBatch(w, B) PROVE TablesAgree'
    BY <2>0, <2>2 DEF StoreTypeOK, BeginBatch, Free
  <2>3. ASSUME NEW g \in Guids, NEW r \in RowIds, Put(w, g, r) PROVE TablesAgree'
    <3>1. ~Free(ServerOf[w])
      BY <2>3 DEF Put, LockInv, Free
    <3>2. Agree(Upserted(view[ServerOf[w]], g, chat[w], r))
      BY <2>0, <2>3, <3>1, UpsertedAgrees DEF StoreTypeOK, Put
    <3> QED BY <2>0, <2>3, <3>2 DEF StoreTypeOK, Put, Free
  <2>4. CASE Refused(w) \/ JobFails(w)
    BY <2>0, <2>4 DEF StoreTypeOK, Refused, JobFails, Closes, Free, lockVars
  <2>5. CASE Commit(w)
    <3>1. ~Free(ServerOf[w])
      BY <2>5 DEF Commit, LockInv, Free
    <3> QED BY <2>0, <2>5, <3>1 DEF StoreTypeOK, Commit, Closes, Free
  <2> QED BY <1>1, <2>1, <2>2, <2>3, <2>4, <2>5 DEF JobStep
<1>2. ASSUME NEW s \in Servers, Crash(s) PROVE TablesAgree'
  BY <1>2 DEF StoreTypeOK, Crash, Closes, Free
<1>3. CASE \/ \E g \in Guids : Arrive(g) \/ Vanish(g)
           \/ \E s \in Servers : \E S \in copy[s] \cup {box} : Reads(s, S)
           \/ UNCHANGED storeVars
  BY <1>3 DEF Arrive, Vanish, Reads, storeVars, lockVars, Free
<1> QED BY <1>1, <1>2, <1>3 DEF StoreNext

\* index.py:94-124.  messages and vec_index agree in the database and in every open
\* transaction, for any servers, batches, refusals, failures and crashes.
THEOREM TablesAgreeTheorem == StoreSpec => []TablesAgree
<1>1. StoreInit => LockInv /\ TablesAgree
  BY StoreAssumption DEF StoreAssumption, StoreInit, LockInv, TablesAgree, Agree, EmptyDatabase,
                         Free
<1>2. StoreTypeOK /\ LockInv /\ TablesAgree /\ [StoreNext]_storeVars => (LockInv /\ TablesAgree)'
  BY LockStep, AgreeStep
<1> QED BY <1>1, <1>2, TypeCorrect, PTL DEF StoreSpec

-----------------------------------------------------------------------------
(* The promise                                                               *)

\* A job's stream stays within its chat, and a batch within the stream.
LEMMA TodoStep ==
  ASSUME StoreTypeOK, TodoInv, [StoreNext]_storeVars
  PROVE  TodoInv'
<1> USE DEF TodoInv, InChat
<1>1. ASSUME NEW w \in Workers, JobStep(w) PROVE TodoInv'
  <2>1. CASE \/ \E c \in Chats, S \in copy[ServerOf[w]] \cup {box} : Start(w, c, S)
             \/ Begin(w) \/ Refused(w) \/ JobFails(w) \/ TimesOut(w) \/ Finish(w) \/ RecordsError(w)
    <3>1. /\ pc'[w] \notin Streaming
          /\ \A v \in Workers \ {w} : /\ pc'[v] = pc[v] /\ chat'[v] = chat[v]
                                      /\ todo'[v] = todo[v] /\ batch'[v] = batch[v]
      BY <2>1 DEF StoreTypeOK, Start, Begin, Refused, JobFails, TimesOut, Finish, RecordsError,
                  Ends, Streaming, jobLocals
    <3> QED BY <3>1 DEF Streaming
  <2>2. CASE Open(w) \/ Announce(w) \/ Since(w) \/ SaveProgress(w) \/ Commit(w)
    <3>1. /\ pc'[w] # "write" /\ chat' = chat
          /\ todo'[w] \subseteq InChat(chat[w])
          /\ \A v \in Workers \ {w} : /\ pc'[v] = pc[v] /\ todo'[v] = todo[v]
                                      /\ batch'[v] = batch[v]
      BY <2>2 DEF StoreTypeOK, Open, Announce, Since, SaveProgress, Commit, Streaming, jobLocals
    <3> QED BY <3>1
  <2>3. ASSUME NEW B \in SUBSET todo[w], BeginBatch(w, B) PROVE TodoInv'
    <3>1. B # {} /\ B \subseteq InChat(chat[w])
      BY <2>3 DEF BeginBatch, NextBatch, Streaming
    <3> QED BY <2>3, <3>1 DEF StoreTypeOK, BeginBatch, Streaming
  <2>4. ASSUME NEW g \in Guids, NEW r \in RowIds, Put(w, g, r) PROVE TodoInv'
    BY <2>4 DEF Put
  <2> QED BY <1>1, <2>1, <2>2, <2>3, <2>4 DEF JobStep
<1>2. ASSUME NEW s \in Servers, Crash(s) PROVE TodoInv'
  BY <1>2 DEF StoreTypeOK, Crash, Streaming
<1>3. CASE \/ \E g \in Guids : Arrive(g) \/ Vanish(g)
           \/ \E s \in Servers : \E S \in copy[s] \cup {box} : Reads(s, S)
           \/ UNCHANGED storeVars
  BY <1>3 DEF Arrive, Vanish, Reads, storeVars, jobLocals
<1> QED BY <1>1, <1>2, <1>3 DEF StoreNext

\* A step that closes the transaction of s, or finds it closed, and commits nothing.
LEMMA ClosingKeepsTx ==
  ASSUME StoreTypeOK, LockInv, TxInv, NEW s \in Servers, Closes(s),
         stale' = stale \ {s}, db' = db,
         \A v \in Workers : pc'[v] = "write" => ServerOf[v] # s /\ pc[v] = "write",
         \A v \in Workers : pc'[v] = "write" =>
           chat'[v] = chat[v] /\ batch'[v] = batch[v] /\ left'[v] = left[v]
  PROVE  TxInv'
<1> USE StoreAssumption DEF StoreAssumption
<1>1. /\ writer' = IF writer = s THEN NoServer ELSE writer
      /\ view' = [view EXCEPT ![s] = EmptyDatabase]
  BY DEF Closes
<1>2. writer' \notin stale'
  BY <1>1 DEF TxInv, StoreTypeOK
<1>3. ASSUME NEW v \in Workers, pc'[v] = "write"
      PROVE  /\ ServerOf[v] \notin stale' => view'[ServerOf[v]].filed = SeenBy(v)'
             /\ left'[v] # batch'[v] => writer' = ServerOf[v]
             /\ left'[v] \subseteq batch'[v]
  <2>1. pc[v] = "write" /\ ServerOf[v] # s /\ view'[ServerOf[v]] = view[ServerOf[v]]
    BY <1>1, <1>3 DEF StoreTypeOK
  <2>2. SeenBy(v)' = SeenBy(v)
    BY <1>3 DEF SeenBy
  <2> QED BY <1>1, <1>3, <2>1, <2>2 DEF TxInv
<1> QED BY <1>2, <1>3 DEF TxInv

\* A status row is written when nobody writes a batch: it leaves transactions behind that
\* have put nothing yet.
LEMMA StatusKeepsTx ==
  ASSUME StoreTypeOK, TxInv, NEW w \in Workers, NEW status,
         WritesStatus(ServerOf[w], chat[w], status), db' = db,
         \A v \in Workers : pc'[v] = "write" =>
           pc[v] = "write" /\ chat'[v] = chat[v] /\ batch'[v] = batch[v] /\ left'[v] = left[v]
  PROVE  TxInv'
<1> USE StoreAssumption DEF StoreAssumption
<1>1. writer = NoServer /\ writer' = writer /\ view' = view /\ stale \subseteq stale'
      /\ stale' \subseteq Servers
  BY DEF WritesStatus, LeftBehind, StoreTypeOK
<1>2. ASSUME NEW v \in Workers, pc'[v] = "write" PROVE SeenBy(v)' = SeenBy(v)
  BY <1>2 DEF SeenBy
<1> QED BY <1>1, <1>2 DEF TxInv

\* BEGIN and the first SELECT: the transaction sees the database.
LEMMA BeginKeepsTx ==
  ASSUME StoreTypeOK, LockInv, TxInv, NEW w \in Workers, NEW B, BeginBatch(w, B)
  PROVE  TxInv'
<1> USE StoreAssumption DEF StoreAssumption
<1>1. /\ view' = [view EXCEPT ![ServerOf[w]] = db] /\ stale' = stale \ {ServerOf[w]}
      /\ UNCHANGED <<db, writer, chat>> /\ Free(ServerOf[w])
      /\ batch' = [batch EXCEPT ![w] = B] /\ left' = [left EXCEPT ![w] = B]
      /\ pc' = [pc EXCEPT ![w] = "write"]
  BY DEF BeginBatch
<1>2. ASSUME NEW v \in Workers, pc'[v] = "write"
      PROVE  /\ ServerOf[v] \notin stale' => view'[ServerOf[v]].filed = SeenBy(v)'
             /\ left'[v] # batch'[v] => writer' = ServerOf[v]
             /\ left'[v] \subseteq batch'[v]
  <2>1. CASE v = w
    <3>1. batch'[w] = B /\ left'[w] = B
      BY <1>1 DEF StoreTypeOK
    <3>2. SeenBy(w)' = db.filed
      BY <1>1, <3>1 DEF SeenBy, StoreTypeOK, Database
    <3> QED BY <1>1, <2>1, <3>1, <3>2 DEF StoreTypeOK
  <2>2. CASE v # w
    <3>1. pc[v] = "write" /\ batch'[v] = batch[v] /\ left'[v] = left[v]
      BY <1>1, <1>2, <2>2 DEF StoreTypeOK
    <3>2. ServerOf[v] # ServerOf[w]
      BY <1>1, <2>2, <3>1, OneTransaction
    <3>3. SeenBy(v)' = SeenBy(v)
      BY <1>1, <3>1 DEF SeenBy
    <3> QED BY <1>1, <3>1, <3>2, <3>3 DEF TxInv, StoreTypeOK
  <2> QED BY <2>1, <2>2
<1> QED BY <1>1, <1>2 DEF TxInv

\* A row of a batch is put on top of what the transaction sees; no other has put any.
LEMMA PutKeepsTx ==
  ASSUME StoreTypeOK, LockInv, TxInv, NEW w \in Workers, NEW g \in Guids, NEW r \in RowIds,
         Put(w, g, r)
  PROVE  TxInv'
<1> DEFINE s == ServerOf[w]
<1> USE StoreAssumption DEF StoreAssumption
<1>1. /\ pc[w] = "write" /\ pc' = pc /\ g \in left[w] /\ MayWrite(s) /\ writer' = s
      /\ view' = [view EXCEPT ![s] = Upserted(view[s], g, chat[w], r)]
      /\ left' = [left EXCEPT ![w] = left[w] \ {g}] /\ UNCHANGED <<db, stale, batch, chat>>
  BY DEF Put
<1>2. s \notin stale /\ s \in Servers
  BY <1>1 DEF MayWrite, TxInv
<1>3. ASSUME NEW v \in Workers, pc'[v] = "write"
      PROVE  /\ ServerOf[v] \notin stale' => view'[ServerOf[v]].filed = SeenBy(v)'
             /\ left'[v] # batch'[v] => writer' = ServerOf[v]
             /\ left'[v] \subseteq batch'[v]
  <2>1. CASE v = w
    <3>1. /\ view[s] \in Database /\ view[s].filed = SeenBy(w) /\ left[w] \subseteq batch[w]
          /\ left'[w] = left[w] \ {g}
      BY <1>1, <1>2 DEF TxInv, StoreTypeOK
    <3>2. view'[s].filed = [view[s].filed EXCEPT ![g] = chat[w]]
      BY <1>1, <1>2 DEF StoreTypeOK, Upserted
    <3>3. SeenBy(w)' = [SeenBy(w) EXCEPT ![g] = chat[w]]
      BY <1>1, <3>1 DEF SeenBy
    <3> QED BY <1>1, <2>1, <3>1, <3>2, <3>3
  <2>2. CASE v # w
    <3>1. pc[v] = "write" /\ left'[v] = left[v]
      BY <1>1, <1>3, <2>2 DEF StoreTypeOK
    <3>2. ServerOf[v] # s
      BY <1>1, <2>2, <3>1, OneTransaction DEF LockInv
    <3>3. left[v] = batch[v]
      BY <1>1, <3>1, <3>2 DEF TxInv, MayWrite
    <3>4. SeenBy(v)' = SeenBy(v) /\ view'[ServerOf[v]] = view[ServerOf[v]]
      BY <1>1, <3>1, <3>2 DEF SeenBy, StoreTypeOK
    <3> QED BY <1>1, <3>1, <3>3, <3>4 DEF TxInv
  <2> QED BY <2>1, <2>2
<1> QED BY <1>1, <1>2, <1>3 DEF TxInv

\* COMMIT leaves every other open transaction behind, none of which has put a row.
LEMMA CommitKeepsTx ==
  ASSUME StoreTypeOK, LockInv, TodoInv, TxInv, NEW w \in Workers, Commit(w)
  PROVE  TxInv'
<1> DEFINE s == ServerOf[w]
<1> USE StoreAssumption DEF StoreAssumption
<1>1. /\ pc[w] = "write" /\ left[w] = {} /\ UNCHANGED <<chat, left>>
      /\ batch' = [batch EXCEPT ![w] = {}] /\ pc'[w] # "write"
      /\ \A v \in Workers \ {w} : pc'[v] = pc[v]
      /\ stale' = (stale \ {s}) \cup LeftBehind(s) /\ writer' = IF writer = s THEN NoServer ELSE writer
  BY DEF Commit, Closes, StoreTypeOK
<1>2. writer = s
  BY <1>1 DEF TxInv, TodoInv
<1>3. writer' \notin stale'
  BY <1>1, <1>2 DEF StoreTypeOK, LeftBehind
<1>4. ASSUME NEW v \in Workers, pc'[v] = "write"
      PROVE  /\ ServerOf[v] \in stale'
             /\ left'[v] = batch'[v]
  <2>1. v # w /\ pc[v] = "write" /\ batch'[v] = batch[v]
    BY <1>1, <1>4 DEF StoreTypeOK
  <2>2. ServerOf[v] # s
    BY <1>1, <2>1, OneTransaction DEF LockInv
  <2>3. ~Free(ServerOf[v])
    BY <2>1 DEF LockInv, Free
  <2> QED BY <1>1, <1>2, <2>1, <2>2, <2>3 DEF TxInv, LeftBehind
<1> QED BY <1>3, <1>4 DEF TxInv

LEMMA TxStep ==
  ASSUME StoreTypeOK, LockInv, TodoInv, TxInv, [StoreNext]_storeVars
  PROVE  TxInv'
<1> USE StoreAssumption DEF StoreAssumption
<1>1. ASSUME NEW w \in Workers, JobStep(w) PROVE TxInv'
  <2>0. ServerOf[w] \in Servers
    OBVIOUS
  <2>1. CASE \/ \E c \in Chats, S \in copy[ServerOf[w]] \cup {box} : Start(w, c, S)
             \/ Open(w) \/ Since(w) \/ TimesOut(w)
    <3>1. UNCHANGED <<db, stale, view, writer>>
      BY <2>1 DEF Start, Open, Since, TimesOut, lockVars
    <3>2. ASSUME NEW v \in Workers, pc'[v] = "write"
          PROVE /\ pc[v] = "write" /\ chat'[v] = chat[v] /\ batch'[v] = batch[v]
                /\ left'[v] = left[v] /\ SeenBy(v)' = SeenBy(v)
      <4>1. /\ pc[v] = "write" /\ chat'[v] = chat[v] /\ batch'[v] = batch[v]
            /\ left'[v] = left[v]
        BY <2>1, <3>2 DEF StoreTypeOK, Start, Open, Since, TimesOut, Ends, jobLocals
      <4> QED BY <3>1, <4>1 DEF SeenBy
    <3> QED BY <3>1, <3>2 DEF TxInv
  <2>2. CASE Begin(w) \/ Announce(w) \/ SaveProgress(w) \/ Finish(w) \/ RecordsError(w)
    <3>1. \E status : WritesStatus(ServerOf[w], chat[w], status)
      BY <2>2 DEF Begin, Announce, SaveProgress, Finish, RecordsError
    <3>2. db' = db
      BY <2>2 DEF Begin, Announce, SaveProgress, Finish, RecordsError
    <3>3. \A v \in Workers : pc'[v] = "write" =>
            pc[v] = "write" /\ chat'[v] = chat[v] /\ batch'[v] = batch[v] /\ left'[v] = left[v]
      BY <2>2 DEF StoreTypeOK, Begin, Announce, SaveProgress, Finish, RecordsError, Ends, jobLocals
    <3> QED BY <3>1, <3>2, <3>3, StatusKeepsTx
  <2>3. ASSUME NEW B \in SUBSET todo[w], BeginBatch(w, B) PROVE TxInv'
    BY <2>3, BeginKeepsTx
  <2>4. ASSUME NEW g \in Guids, NEW r \in RowIds, Put(w, g, r) PROVE TxInv'
    BY <2>4, PutKeepsTx
  <2>5. CASE Commit(w)
    BY <2>5, CommitKeepsTx
  <2>6. CASE Refused(w) \/ (JobFails(w) /\ mutex[ServerOf[w]] = w)
    <3>1. /\ Closes(ServerOf[w]) /\ stale' = stale \ {ServerOf[w]} /\ db' = db
          /\ mutex[ServerOf[w]] = w /\ UNCHANGED jobLocals
          /\ \A v \in Workers : pc'[v] = "write" => v # w /\ pc[v] = "write"
      BY <2>6 DEF StoreTypeOK, LockInv, Refused, JobFails
    <3>2. \A v \in Workers : pc'[v] = "write" => ServerOf[v] # ServerOf[w] /\ pc[v] = "write"
      BY <3>1, OneTransaction
    <3> QED BY <2>0, <3>1, <3>2, ClosingKeepsTx DEF jobLocals
  <2>7. CASE JobFails(w) /\ mutex[ServerOf[w]] # w
    <3>1. /\ UNCHANGED <<db, stale, view, writer>> /\ UNCHANGED jobLocals
          /\ \A v \in Workers : pc'[v] = "write" => pc[v] = "write"
      BY <2>7 DEF StoreTypeOK, JobFails, lockVars
    <3>2. \A v \in Workers : SeenBy(v)' = SeenBy(v)
      BY <3>1 DEF SeenBy, jobLocals
    <3> QED BY <3>1, <3>2 DEF TxInv, jobLocals
  <2> QED BY <1>1, <2>1, <2>2, <2>3, <2>4, <2>5, <2>6, <2>7 DEF JobStep
<1>2. ASSUME NEW s \in Servers, Crash(s) PROVE TxInv'
  <2>1. /\ Closes(s) /\ stale' = stale \ {s} /\ db' = db
        /\ \A v \in Workers : pc'[v] = "write" => ServerOf[v] # s /\ pc[v] = "write"
        /\ \A v \in Workers : pc'[v] = "write" =>
             chat'[v] = chat[v] /\ batch'[v] = batch[v] /\ left'[v] = left[v]
    BY <1>2 DEF StoreTypeOK, Crash
  <2> QED BY <2>1, ClosingKeepsTx
<1>3. CASE \/ \E g \in Guids : Arrive(g) \/ Vanish(g)
           \/ \E s \in Servers : \E S \in copy[s] \cup {box} : Reads(s, S)
           \/ UNCHANGED storeVars
  <2>1. UNCHANGED <<db, lockVars, pc, jobLocals>>
    BY <1>3 DEF Arrive, Vanish, Reads, storeVars
  <2>2. \A v \in Workers : SeenBy(v)' = SeenBy(v)
    BY <2>1 DEF SeenBy, jobLocals
  <2> QED BY <2>1, <2>2 DEF TxInv, lockVars, jobLocals
<1> QED BY <1>1, <1>2, <1>3 DEF StoreNext

\* A committed batch is the batch of one job, whole, and filed under its chat: the writer's
\* transaction has seen every commit before it.
LEMMA CommitFiles ==
  ASSUME StoreTypeOK, TodoInv, TxInv, NEW w \in Workers, Commit(w)
  PROVE  /\ \A g \in batch[w] : chat[w] \in InChats[g]
         /\ db'.filed = [g \in Guids |-> IF g \in batch[w] THEN chat[w] ELSE db.filed[g]]
<1>1. /\ pc[w] = "write" /\ left[w] = {} /\ db' = view[ServerOf[w]]
      /\ batch[w] # {} /\ batch[w] \subseteq InChat(chat[w])
  BY DEF Commit, TodoInv
<1>2. ServerOf[w] \notin stale
  BY <1>1 DEF TxInv
<1> QED BY <1>1, <1>2 DEF TxInv, SeenBy, InChat

\* Every step of the store files a batch, reports a status, or does neither.
LEMMA StepImplements ==
  ASSUME StoreTypeOK, LockInv, TodoInv, TxInv, [StoreNext]_storeVars
  PROVE  [Rows!Next]_(Rows!rowStoreVars)
<1> USE DEF Rows!rowStoreVars
<1>1. ASSUME NEW w \in Workers, JobStep(w) PROVE [Rows!Next]_(Rows!rowStoreVars)
  <2>0. ServerOf[w] \in Servers /\ chat[w] \in Chats /\ batch[w] \in SUBSET Guids
    BY StoreAssumption DEF StoreAssumption, StoreTypeOK
  <2>1. CASE Begin(w) \/ Announce(w) \/ SaveProgress(w) \/ Finish(w) \/ RecordsError(w)
    <3>1. db' = db /\ \E status : meta' = [meta EXCEPT ![chat[w]] = status]
      BY <2>1 DEF Begin, Announce, SaveProgress, Finish, RecordsError, WritesStatus
    <3>2. meta' \in [Chats -> Statuses] /\ meta \in [Chats -> Statuses]
      BY <1>1, JobStepIsTyped DEF StoreTypeOK
    <3>3. meta' = [meta EXCEPT ![chat[w]] = meta'[chat[w]]]
      BY <2>0, <3>1, <3>2
    <3>4. Rows!Report(chat[w])
      BY <2>0, <3>1, <3>2, <3>3 DEF Rows!Report
    <3> QED BY <2>0, <3>4 DEF Rows!Next
  <2>2. CASE Commit(w)
    <3>1. Rows!FileBatch(chat[w], batch[w])
      BY <2>2, CommitFiles DEF Rows!FileBatch, Commit
    <3> QED BY <2>0, <3>1 DEF Rows!Next
  <2>3. CASE \/ \E c \in Chats, S \in copy[ServerOf[w]] \cup {box} : Start(w, c, S)
             \/ Open(w) \/ Since(w) \/ \E B \in SUBSET todo[w] : BeginBatch(w, B)
             \/ \E g \in Guids, r \in RowIds : Put(w, g, r)
             \/ Refused(w) \/ JobFails(w) \/ TimesOut(w)
    <3>1. UNCHANGED <<db, meta>>
      BY <2>3 DEF Start, Open, Since, BeginBatch, Put, Refused, JobFails, TimesOut
    <3> QED BY <3>1
  <2> QED BY <1>1, <2>1, <2>2, <2>3 DEF JobStep
<1>2. CASE (\E g \in Guids : Arrive(g) \/ Vanish(g)) \/ (\E s \in Servers : Crash(s))
           \/ (\E s \in Servers : \E S \in copy[s] \cup {box} : Reads(s, S))
           \/ UNCHANGED storeVars
  BY <1>2 DEF Arrive, Vanish, Crash, Reads, storeVars
<1> QED BY <1>1, <1>2 DEF StoreNext

\* index.py:85-124, 176-216.  Whatever transactions, locks, refusals, rollbacks and crashes
\* of any number of servers do, batches are filed whole and one after the other, no filing is
\* lost, and a status write is of one chat and touches no filing.
THEOREM RefinementTheorem == StoreSpec => ImplementsRowStore
<1>1. StoreInit => Rows!Init
  BY DEF StoreInit, Rows!Init, EmptyDatabase, Statuses
<1>2. StoreInit => LockInv /\ TodoInv /\ TxInv
  BY StoreAssumption DEF StoreAssumption, StoreInit, LockInv, TodoInv, TxInv, Streaming
<1>3. StoreTypeOK /\ LockInv /\ TodoInv /\ TxInv /\ [StoreNext]_storeVars
        => (LockInv /\ TodoInv /\ TxInv)'
  BY LockStep, TodoStep, TxStep
<1>4. StoreTypeOK /\ LockInv /\ TodoInv /\ TxInv /\ [StoreNext]_storeVars
        => [Rows!Next]_(Rows!rowStoreVars)
  BY StepImplements
<1> QED
  BY <1>1, <1>2, <1>3, <1>4, TypeCorrect, PTL DEF StoreSpec, ImplementsRowStore, Rows!Spec

-----------------------------------------------------------------------------
(* The watermarks                                                            *)

\* What a chat's jobs must still find.
Missing(c, b, d) == {g \in b : InChats[g] = {c} /\ d.filed[g] # c}
Unfiled(c) == Missing(c, box, db)

\* No message that is still to arrive is dated before n.
Reached(n) == n = 0 \/ \E k \in box \cup gone : n <= Date[k]

Ordered(K, G) == \A k \in K, g \in G : Date[k] <= Date[g]

\* What a snapshot misses is younger than what it has.
SnapInv ==
  /\ \A s \in Servers : \A S \in copy[s] : S \subseteq box \cup gone /\ Ordered(S, box \ S)
  /\ \A w \in Workers : pc[w] \in {"begin", "open"} =>
       snap[w] \subseteq box \cup gone /\ Ordered(snap[w], box \ snap[w])

MarkInv ==
  \A c \in Chats : Reached(meta[c].mark) /\ \A g \in Unfiled(c) : meta[c].mark <= Date[g]

\* What a job will not see is younger than what it will, and nothing that is not filed is
\* before the watermark it will write.
Covers(w) ==
  /\ pc[w] \in Streaming =>
       /\ todo[w] \subseteq box \cup gone
       /\ Ordered(todo[w], Missing(chat[w], box, db) \ todo[w])
  /\ pc[w] \in {"scan", "write", "save"} =>
       Reached(newest[w]) /\ \A g \in Missing(chat[w], box, db) : newest[w] <= Date[g]
  /\ pc[w] = "write" => batch[w] \subseteq todo[w] /\ Ordered(batch[w], todo[w] \ batch[w])

JobInv == \A w \in Workers : Covers(w)

CoverInv == SnapInv /\ MarkInv /\ JobInv

\* A job files messages and unfiles none that are in one chat only.
LEMMA FilingsStay ==
  ASSUME StoreTypeOK, TodoInv, TxInv, NEW w \in Workers, JobStep(w)
  PROVE  UNCHANGED <<box, gone>> /\ \A c \in Chats : Unfiled(c)' \subseteq Unfiled(c)
<1>1. UNCHANGED <<box, gone>>
  BY DEF JobStep, Start, Begin, Open, Announce, Since, BeginBatch, Put, Refused, Commit,
         SaveProgress, Finish, JobFails, RecordsError, TimesOut, mailVars
<1>2. ASSUME NEW c \in Chats, NEW g \in Unfiled(c)', Commit(w) PROVE g \in Unfiled(c)
  <2>1. g \in box /\ g \in Guids /\ InChats[g] = {c} /\ db'.filed[g] # c
    BY <1>1, <1>2 DEF Unfiled, Missing, StoreTypeOK
  <2>2. CASE g \in batch[w]
    BY <1>2, <2>1, <2>2, CommitFiles
  <2>3. CASE g \notin batch[w]
    BY <1>2, <2>1, <2>3, CommitFiles DEF Unfiled, Missing
  <2> QED BY <2>2, <2>3
<1>3. Commit(w) \/ db' = db
  BY DEF JobStep, Start, Begin, Open, Announce, Since, BeginBatch, Put, Refused,
         SaveProgress, Finish, JobFails, RecordsError, TimesOut
<1> QED BY <1>1, <1>2, <1>3 DEF Unfiled, Missing

LEMMA SnapStep ==
  ASSUME StoreTypeOK, SnapInv, NEW w \in Workers, JobStep(w), UNCHANGED <<box, gone>>
  PROVE  SnapInv'
<1> USE StoreAssumption DEF StoreAssumption, SnapInv, Ordered
<1>1. ASSUME NEW c \in Chats, NEW S \in copy[ServerOf[w]] \cup {box}, Start(w, c, S) PROVE SnapInv'
  <2>1. S \subseteq box \cup gone /\ \A k \in S, g \in box \ S : Date[k] <= Date[g]
    OBVIOUS
  <2>2. copy' = [copy EXCEPT ![ServerOf[w]] = {S}] /\ snap' = [snap EXCEPT ![w] = S]
        /\ pc' = [pc EXCEPT ![w] = "begin"]
    BY <1>1 DEF Start, SnapshotOf
  <2> QED BY <2>1, <2>2 DEF StoreTypeOK
<1>2. CASE Begin(w)
  BY <1>2 DEF StoreTypeOK, Begin, jobLocals
<1>3. CASE \/ Open(w) \/ Announce(w) \/ Since(w) \/ \E B \in SUBSET todo[w] : BeginBatch(w, B)
           \/ \E g \in Guids, r \in RowIds : Put(w, g, r)
           \/ Refused(w) \/ Commit(w) \/ SaveProgress(w) \/ Finish(w)
           \/ JobFails(w) \/ RecordsError(w) \/ TimesOut(w)
  <2>1. /\ copy' = copy
        /\ \A v \in Workers : pc'[v] \in {"begin", "open"} => pc'[v] = pc[v] /\ snap'[v] = snap[v]
    BY <1>3 DEF StoreTypeOK, Open, Announce, Since, BeginBatch, Put, Refused, Commit, SaveProgress,
                Finish, JobFails, RecordsError, TimesOut, Ends, jobLocals
  <2> QED BY <2>1
<1> QED BY <1>1, <1>2, <1>3 DEF JobStep

LEMMA MarkStep ==
  ASSUME StoreTypeOK, MarkInv, JobInv, NEW w \in Workers, JobStep(w), UNCHANGED <<box, gone>>,
         \A c \in Chats : Unfiled(c)' \subseteq Unfiled(c)
  PROVE  MarkInv'
<1> USE StoreAssumption DEF StoreAssumption, MarkInv, Reached
<1>0. chat[w] \in Chats /\ meta \in [Chats -> Statuses]
  BY DEF StoreTypeOK
<1>1. CASE SaveProgress(w) \/ Finish(w)
  <2>1. /\ pc[w] \in {"scan", "save"} /\ meta'[chat[w]].mark = newest[w]
        /\ \A c \in Chats \ {chat[w]} : meta'[c] = meta[c]
    <3>1. CASE SaveProgress(w)
      BY <1>0, <3>1 DEF SaveProgress, WritesStatus, Statuses
    <3>2. CASE Finish(w)
      BY <1>0, <3>2 DEF Finish, Drained, WritesStatus, Statuses
    <3> QED BY <1>1, <3>1, <3>2
  <2>2. Reached(newest[w]) /\ \A g \in Unfiled(chat[w]) : newest[w] <= Date[g]
    BY <2>1 DEF JobInv, Covers, Unfiled
  <2>3. ASSUME NEW c \in Chats
        PROVE  Reached(meta'[c].mark) /\ \A g \in Unfiled(c) : meta'[c].mark <= Date[g]
    BY <2>1, <2>2
  <2> QED BY <2>3
<1>2. CASE Begin(w) \/ Announce(w) \/ RecordsError(w)
  <2>1. \A c \in Chats : meta'[c].mark = meta[c].mark
    BY <1>0, <1>2 DEF Begin, Announce, RecordsError, WritesStatus, Statuses
  <2> QED BY <2>1
<1>3. CASE \/ \E c \in Chats, S \in copy[ServerOf[w]] \cup {box} : Start(w, c, S)
           \/ Open(w) \/ Since(w) \/ \E B \in SUBSET todo[w] : BeginBatch(w, B)
           \/ \E g \in Guids, r \in RowIds : Put(w, g, r)
           \/ Refused(w) \/ Commit(w) \/ JobFails(w) \/ TimesOut(w)
  <2>1. meta' = meta
    BY <1>3 DEF Start, Open, Since, BeginBatch, Put, Refused, Commit, JobFails, TimesOut
  <2> QED BY <2>1
<1> QED BY <1>1, <1>2, <1>3 DEF JobStep

LEMMA JobStepKeeps ==
  ASSUME StoreTypeOK, TodoInv, TxInv, CoverInv, NEW w \in Workers, JobStep(w),
         UNCHANGED <<box, gone>>, \A c \in Chats : Unfiled(c)' \subseteq Unfiled(c)
  PROVE  JobInv'
<1> DEFINE missing == Missing(chat[w], box, db)
           left_ == Missing(chat[w], box', db')
<1> USE StoreAssumption DEF StoreAssumption, Reached, Ordered
<1>0. /\ chat[w] \in Chats /\ missing \subseteq Guids /\ missing \subseteq box
      /\ todo[w] \subseteq Guids /\ newest[w] \in Nat
  BY DEF StoreTypeOK, Missing
<1>1. left_ \subseteq missing
  BY <1>0 DEF Unfiled
<1>2. ASSUME NEW v \in Workers \ {w} PROVE Covers(v)'
  <2>1. Commit(w) => newest'[v] = newest[v]
    BY DEF Commit, StoreTypeOK
  <2>2. /\ pc'[v] = pc[v] /\ chat'[v] = chat[v] /\ todo'[v] = todo[v]
        /\ newest'[v] = newest[v] /\ batch'[v] = batch[v]
    BY <2>1 DEF StoreTypeOK, JobStep, Start, Begin, Open, Announce, Since, BeginBatch, Put,
       Refused, Commit, SaveProgress, Finish, JobFails, RecordsError, TimesOut, Ends, jobLocals
  <2>3. Missing(chat[v], box', db') \subseteq Missing(chat[v], box, db)
    BY DEF Unfiled, StoreTypeOK
  <2>4. Covers(v)
    BY DEF CoverInv, JobInv
  <2> QED BY <2>2, <2>3, <2>4 DEF Covers
<1>3. Covers(w)
  BY DEF CoverInv, JobInv
<1>4. CASE \/ \E c \in Chats, S \in copy[ServerOf[w]] \cup {box} : Start(w, c, S)
           \/ Begin(w) \/ Refused(w) \/ JobFails(w) \/ TimesOut(w) \/ Finish(w) \/ RecordsError(w)
  <2>1. pc'[w] \notin Streaming
    BY <1>4 DEF StoreTypeOK, Start, Begin, Refused, JobFails, TimesOut, Finish, RecordsError, Ends,
                Streaming
  <2> QED BY <1>2, <2>1 DEF JobInv, Covers, Streaming
<1>5. ASSUME pc'[w] \in Streaming, chat'[w] = chat[w],
             todo'[w] \subseteq box \cup gone, Ordered(todo'[w], left_ \ todo'[w]),
             pc'[w] \in {"scan", "write", "save"} =>
               Reached(newest'[w]) /\ \A g \in left_ : newest'[w] <= Date[g],
             pc'[w] = "write" => batch'[w] \subseteq todo'[w] /\ Ordered(batch'[w], todo'[w] \ batch'[w])
      PROVE  JobInv'
  <2>1. Covers(w)'
    BY <1>5 DEF Covers
  <2> QED BY <1>2, <2>1 DEF JobInv
<1>6. CASE Open(w)
  <2>1. /\ pc'[w] = "announce" /\ chat' = chat /\ pc[w] = "open" /\ snap[w] \subseteq Guids
        /\ todo'[w] = {g \in snap[w] : chat[w] \in InChats[g]} \ RowsOf(chat[w])
    BY <1>6 DEF StoreTypeOK, Open
  <2>2. \A g \in missing : g \in snap[w] => g \in todo'[w]
    BY <1>0, <2>1 DEF Missing, RowsOf
  <2>3. snap[w] \subseteq box \cup gone /\ \A k \in snap[w], g \in box \ snap[w] : Date[k] <= Date[g]
    BY <2>1 DEF CoverInv, SnapInv
  <2> QED BY <1>0, <1>1, <1>5, <2>1, <2>2, <2>3 DEF Streaming
<1>7. CASE Announce(w)
  <2>1. pc[w] = "announce" /\ pc'[w] = "since" /\ chat' = chat /\ todo' = todo
    BY <1>7 DEF StoreTypeOK, Announce, jobLocals
  <2> QED BY <1>1, <1>3, <1>5, <2>1 DEF Covers, Streaming
<1>8. CASE Since(w)
  <2>1. /\ pc[w] = "since" /\ pc'[w] = "scan" /\ chat' = chat /\ newest'[w] = meta[chat[w]].mark
        /\ todo'[w] = {g \in todo[w] : Date[g] >= meta[chat[w]].mark}
    BY <1>8 DEF StoreTypeOK, Since
  <2>2. meta[chat[w]].mark \in Nat
    BY <1>0 DEF StoreTypeOK, Statuses
  <2>3. Reached(newest'[w]) /\ \A g \in missing : newest'[w] <= Date[g]
    BY <1>0, <2>1 DEF CoverInv, MarkInv, Unfiled
  <2>4. \A g \in missing : g \in todo[w] => g \in todo'[w]
    BY <1>0, <2>1, <2>2, <2>3
  <2> QED BY <1>0, <1>1, <1>3, <1>5, <2>1, <2>3, <2>4 DEF Covers, Streaming
<1>9. ASSUME NEW B \in SUBSET todo[w], BeginBatch(w, B) PROVE JobInv'
  <2>1. /\ pc[w] = "scan" /\ pc'[w] = "write" /\ UNCHANGED <<chat, todo, newest>> /\ batch'[w] = B
        /\ \A g \in B, k \in todo[w] \ B : Date[g] <= Date[k]
    BY <1>9 DEF StoreTypeOK, BeginBatch, NextBatch
  <2> QED BY <1>1, <1>3, <1>5, <2>1 DEF Covers, Streaming
<1>10. ASSUME NEW g \in Guids, NEW r \in RowIds, Put(w, g, r) PROVE JobInv'
  <2>1. pc[w] = "write" /\ UNCHANGED <<pc, chat, todo, newest, batch>>
    BY <1>10 DEF Put
  <2> QED BY <1>1, <1>3, <1>5, <2>1 DEF Covers, Streaming
<1>11. CASE SaveProgress(w)
  <2>1. pc[w] = "save" /\ pc'[w] = "scan" /\ UNCHANGED <<chat, todo, newest>>
    BY <1>11 DEF StoreTypeOK, SaveProgress, jobLocals
  <2> QED BY <1>1, <1>3, <1>5, <2>1 DEF Covers, Streaming
<1>12. CASE Commit(w)
  <2>1. /\ pc[w] = "write" /\ pc'[w] \in {"scan", "save"} /\ chat' = chat
        /\ todo'[w] = todo[w] \ batch[w] /\ batch[w] \subseteq Guids
        /\ newest'[w] \in {newest[w]} \cup {Date[g] : g \in batch[w]}
    BY <1>12 DEF StoreTypeOK, Commit
  <2>2. /\ batch[w] \subseteq todo[w] /\ todo[w] \subseteq box \cup gone
        /\ \A k \in todo[w], g \in missing \ todo[w] : Date[k] <= Date[g]
        /\ \A k \in batch[w], g \in todo[w] \ batch[w] : Date[k] <= Date[g]
        /\ Reached(newest[w]) /\ \A g \in missing : newest[w] <= Date[g]
    BY <1>3, <2>1 DEF Covers, Streaming
  <2>3. \A g \in left_ : g \notin batch[w]
    <3>1. ASSUME NEW g \in Guids, g \in batch[w] PROVE db'.filed[g] = chat[w]
      BY <1>12, <3>1, CommitFiles
    <3> QED BY <2>1, <3>1 DEF Missing
  <2>4. \A k \in batch[w], g \in left_ : Date[k] <= Date[g]
    BY <1>1, <2>2, <2>3
  <2>5. Reached(newest'[w])
    <3>1. ASSUME NEW k \in batch[w], newest'[w] = Date[k] PROVE Reached(newest'[w])
      <4>1. Date[k] \in Nat
        BY <2>1
      <4> QED BY <2>2, <3>1, <4>1
    <3> QED BY <2>1, <2>2, <3>1
  <2>6. \A g \in left_ : newest'[w] <= Date[g]
    BY <1>1, <2>1, <2>2, <2>4
  <2>7. Ordered(todo'[w], left_ \ todo'[w])
    BY <1>1, <2>1, <2>2, <2>3
  <2> QED BY <1>5, <2>1, <2>2, <2>5, <2>6, <2>7 DEF Streaming
<1> QED BY <1>4, <1>6, <1>7, <1>8, <1>9, <1>10, <1>11, <1>12 DEF JobStep

LEMMA CoverStep ==
  ASSUME StoreTypeOK, TodoInv, TxInv, CoverInv, [StoreNext]_storeVars
  PROVE  CoverInv'
<1> USE StoreAssumption DEF StoreAssumption
<1>1. ASSUME NEW w \in Workers, JobStep(w) PROVE CoverInv'
  BY <1>1, FilingsStay, SnapStep, MarkStep, JobStepKeeps DEF CoverInv
<1>2. ASSUME NEW m \in Guids, Arrive(m) PROVE CoverInv'
  <2>1. /\ box' = box \cup {m} /\ \A k \in box \cup gone : Date[k] <= Date[m]
        /\ UNCHANGED <<gone, copy, db, meta, pc, jobLocals>>
    BY <1>2 DEF Arrive
  <2>2. \A n \in Nat : Reached(n) => Reached(n)' /\ n <= Date[m]
    BY <2>1 DEF Reached, StoreTypeOK
  <2>3. SnapInv'
    BY <2>1 DEF CoverInv, SnapInv, Ordered, jobLocals
  <2>4. \A c \in Chats : Unfiled(c)' \subseteq Unfiled(c) \cup {m}
    BY <2>1 DEF Unfiled, Missing
  <2>5. MarkInv'
    BY <2>1, <2>2, <2>4 DEF CoverInv, MarkInv, StoreTypeOK, Statuses
  <2>6. JobInv'
    <3>1. ASSUME NEW w \in Workers PROVE Covers(w)'
      <4>1. Missing(chat[w], box', db') \subseteq Missing(chat[w], box, db) \cup {m}
        BY <2>1 DEF Missing
      <4>2. newest[w] \in Nat /\ Covers(w) /\ UNCHANGED <<chat, todo, newest, batch>>
        BY <2>1 DEF StoreTypeOK, CoverInv, JobInv, jobLocals
      <4> QED BY <2>1, <2>2, <4>1, <4>2 DEF Covers, Ordered
    <3> QED BY <3>1 DEF JobInv
  <2> QED BY <2>3, <2>5, <2>6 DEF CoverInv
<1>3. CASE (\E g \in Guids : Vanish(g)) \/ UNCHANGED storeVars
  <2>1. /\ box' \subseteq box /\ box' \cup gone' = box \cup gone
        /\ UNCHANGED <<copy, db, meta, pc, jobLocals>>
    BY <1>3 DEF Vanish, storeVars, mailVars
  <2>2. \A c : Unfiled(c)' \subseteq Unfiled(c)
    BY <2>1 DEF Unfiled, Missing
  <2>3. \A n : Reached(n) => Reached(n)'
    BY <2>1 DEF Reached
  <2>4. SnapInv' /\ MarkInv'
    BY <2>1, <2>2, <2>3 DEF CoverInv, SnapInv, MarkInv, Ordered, jobLocals
  <2>5. JobInv'
    <3>1. ASSUME NEW w \in Workers PROVE Covers(w)'
      <4>1. Missing(chat[w], box', db') \subseteq Missing(chat[w], box, db)
        BY <2>1 DEF Missing
      <4>2. Covers(w) /\ UNCHANGED <<chat, todo, newest, batch>>
        BY <2>1 DEF CoverInv, JobInv, jobLocals
      <4> QED BY <2>1, <2>3, <4>1, <4>2 DEF Covers, Ordered
    <3> QED BY <3>1 DEF JobInv
  <2> QED BY <2>4, <2>5 DEF CoverInv
<1>4. ASSUME NEW s \in Servers, Crash(s) PROVE CoverInv'
  <2>1. /\ UNCHANGED <<box, gone, db, meta>> /\ copy' = [copy EXCEPT ![s] = {}]
        /\ \A w \in Workers : pc'[w] # "idle" =>
             /\ pc'[w] = pc[w] /\ chat'[w] = chat[w] /\ snap'[w] = snap[w] /\ todo'[w] = todo[w]
             /\ newest'[w] = newest[w] /\ batch'[w] = batch[w]
    BY <1>4 DEF StoreTypeOK, Crash, mailVars
  <2>2. \A c : Unfiled(c)' = Unfiled(c)
    BY <2>1 DEF Unfiled, Missing
  <2>3. SnapInv' /\ MarkInv'
    <3>1. MarkInv'
      BY <2>1, <2>2 DEF CoverInv, MarkInv, Reached
    <3>2. \A r \in Servers : copy'[r] \subseteq copy[r]
      BY <2>1 DEF StoreTypeOK
    <3>3. \A w \in Workers : pc'[w] \in {"begin", "open"} =>
            pc[w] \in {"begin", "open"} /\ snap'[w] = snap[w]
      BY ONLY <2>1
    <3>4. SnapInv'
      BY <2>1, <3>2, <3>3 DEF CoverInv, SnapInv, Ordered
    <3> QED BY <3>1, <3>4
  <2>4. JobInv'
    <3>1. ASSUME NEW w \in Workers PROVE Covers(w)'
      <4>1. CASE pc'[w] = "idle"
        BY <4>1 DEF Covers, Streaming
      <4>2. CASE pc'[w] # "idle"
        BY <2>1, <4>2 DEF CoverInv, JobInv, Covers, Reached
      <4> QED BY <4>1, <4>2
    <3> QED BY <3>1 DEF JobInv
  <2> QED BY <2>3, <2>4 DEF CoverInv
<1>5. ASSUME NEW s \in Servers, NEW S \in copy[s] \cup {box}, Reads(s, S) PROVE CoverInv'
  <2>1. /\ UNCHANGED <<box, gone, db, meta, pc, jobLocals>> /\ copy' = [copy EXCEPT ![s] = {S}]
        /\ S \subseteq box \cup gone /\ Ordered(S, box \ S)
    BY <1>5 DEF Reads, SnapshotOf, mailVars, CoverInv, SnapInv, Ordered
  <2>2. SnapInv'
    <3>1. \A i \in Servers : copy'[i] = IF i = s THEN {S} ELSE copy[i]
      BY <2>1 DEF StoreTypeOK
    <3>2. \A i \in Servers : \A K \in copy'[i] : K \subseteq box' \cup gone' /\ Ordered(K, box' \ K)
      <4> SUFFICES ASSUME NEW i \in Servers, NEW K \in copy'[i]
                   PROVE  K \subseteq box \cup gone /\ Ordered(K, box \ K)
        BY <2>1 DEF Ordered
      <4>1. CASE i = s
        <5>1. K = S
          BY <3>1, <4>1
        <5> QED BY <2>1, <5>1
      <4>2. CASE i # s
        BY <3>1, <4>2 DEF CoverInv, SnapInv
      <4> QED BY <4>1, <4>2
    <3>3. \A w \in Workers : pc'[w] \in {"begin", "open"} =>
            snap'[w] \subseteq box' \cup gone' /\ Ordered(snap'[w], box' \ snap'[w])
      BY <2>1 DEF CoverInv, SnapInv, jobLocals
    <3> QED BY <3>2, <3>3 DEF SnapInv, Ordered
  <2>3. MarkInv' /\ JobInv'
    BY <2>1 DEF CoverInv, MarkInv, JobInv, Covers, Reached, Unfiled, Missing, jobLocals
  <2> QED BY <2>2, <2>3 DEF CoverInv
<1> QED BY <1>1, <1>2, <1>3, <1>4, <1>5 DEF StoreNext

\* The locks, the transactions, the streams and the watermarks, in every reachable state.
StoreInv == LockInv /\ TodoInv /\ TxInv /\ CoverInv

LEMMA StoreInvariant == StoreSpec => []StoreInv
<1>1. StoreInit => StoreInv
  <2> SUFFICES ASSUME StoreInit PROVE StoreInv
    OBVIOUS
  <2>1. LockInv /\ TodoInv /\ TxInv
    BY StoreAssumption DEF StoreAssumption, StoreInit, LockInv, TodoInv, TxInv, Streaming
  <2>2. SnapInv /\ MarkInv /\ JobInv
    BY StoreAssumption DEF StoreAssumption, StoreInit, SnapInv, MarkInv, JobInv, Covers, Streaming,
                           Reached, Unfiled, Missing
  <2> QED BY <2>1, <2>2 DEF CoverInv, StoreInv
<1>2. StoreTypeOK /\ StoreInv /\ [StoreNext]_storeVars => StoreInv'
  BY LockStep, TodoStep, TxStep, CoverStep DEF StoreInv
<1> QED BY <1>1, <1>2, TypeCorrect, PTL DEF StoreSpec

\* indexer.py:97-150 on one vectors.db by two servers.  No message that is still there and in
\* one chat only is missing before its chat's watermark, whosever watermark was written last.
THEOREM WatermarkTheorem == StoreSpec => []WatermarksCover
<1>1. StoreTypeOK /\ CoverInv => WatermarksCover
  <2> SUFFICES ASSUME StoreTypeOK, CoverInv, NEW g \in box, NEW c \in Chats, InChats[g] = {c},
                      db.filed[g] # c
               PROVE  ~(Date[g] < meta[c].mark)
    BY DEF WatermarksCover
  <2>1. meta[c].mark <= Date[g]
    BY DEF CoverInv, MarkInv, Unfiled, Missing
  <2>2. meta[c].mark \in Nat /\ Date[g] \in Nat
    BY StoreAssumption DEF StoreAssumption, StoreTypeOK, Statuses
  <2> QED BY <2>1, <2>2
<1> QED BY <1>1, StoreInvariant, TypeCorrect, PTL DEF StoreInv

-----------------------------------------------------------------------------
(* The numbers in the status rows                                            *)

\* The messages of a chat that are indexed, under it or under another chat of theirs.
Indexed(c, d) == {g \in Guids : c \in InChats[g] /\ d.filed[g] # NoChat}

FiledInv == \A g \in Guids : db.filed[g] # NoChat => db.filed[g] \in InChats[g]

\* What a job has counted is indexed, and is not what it has still to index.
Counted(w) ==
  pc[w] \in Streaming => count[w] <= Cardinality(Indexed(chat[w], db) \ todo[w])

OverInv == FiledInv /\ NeverOverstated /\ \A w \in Workers : Counted(w)

LEMMA LargerCounts ==
  ASSUME NEW B \in SUBSET Guids, NEW A \in SUBSET B
  PROVE  Cardinality(A) <= Cardinality(B) /\ Cardinality(A) \in Nat /\ Cardinality(B) \in Nat
<1>1. IsFiniteSet(B) /\ Cardinality(B) \in Nat /\ Cardinality(A) \in Nat
  BY SubsetsAreCounted
<1>2. Cardinality(A) <= Cardinality(B)
  BY <1>1, FS_Subset
<1> QED BY <1>1, <1>2

\* A step of the abstract store unfiles nothing.
LEMMA FiledStep ==
  ASSUME FiledInv, StoreTypeOK, [Rows!Next]_(Rows!rowStoreVars)
  PROVE  FiledInv' /\ \A c \in Chats : Indexed(c, db) \subseteq Indexed(c, db')
<1>1. ASSUME NEW c \in Chats, NEW B \in SUBSET Guids, Rows!FileBatch(c, B)
      PROVE  FiledInv' /\ \A d \in Chats : Indexed(d, db) \subseteq Indexed(d, db')
  <2>1. c # NoChat /\ NoChat \notin Chats
    BY StoreAssumption, <1>1 DEF StoreTypeOK, StoreAssumption, Rows!FileBatch
  <2> QED BY <1>1, <2>1 DEF Rows!FileBatch, FiledInv, Indexed
<1>2. ASSUME UNCHANGED db.filed
      PROVE  FiledInv' /\ \A d \in Chats : Indexed(d, db) \subseteq Indexed(d, db')
  BY <1>2 DEF FiledInv, Indexed
<1> QED BY <1>1, <1>2 DEF Rows!Next, Rows!Report, Rows!rowStoreVars

\* A job that counts nothing more stays right when it drops messages of its stream.
LEMMA CountedKeeps ==
  ASSUME StoreTypeOK, NEW w \in Workers, Counted(w), Indexed(chat[w], db) \subseteq Indexed(chat[w], db'),
         pc'[w] \in Streaming =>
           /\ pc[w] \in Streaming /\ chat'[w] = chat[w] /\ count'[w] = count[w]
           /\ todo'[w] \subseteq todo[w]
  PROVE  Counted(w)'
<1> SUFFICES ASSUME pc'[w] \in Streaming
             PROVE  count'[w] <= Cardinality(Indexed(chat'[w], db') \ todo'[w])
  BY DEF Counted
<1>1. /\ chat'[w] = chat[w] /\ count'[w] = count[w] /\ count[w] \in Nat
      /\ count[w] <= Cardinality(Indexed(chat[w], db) \ todo[w])
  BY DEF Counted, StoreTypeOK
<1>2. /\ Indexed(chat[w], db) \ todo[w] \subseteq Indexed(chat[w], db') \ todo'[w]
      /\ Indexed(chat[w], db') \ todo'[w] \subseteq Guids
  BY DEF Indexed
<1>3. /\ Cardinality(Indexed(chat[w], db) \ todo[w]) <= Cardinality(Indexed(chat[w], db') \ todo'[w])
      /\ Cardinality(Indexed(chat[w], db) \ todo[w]) \in Nat
      /\ Cardinality(Indexed(chat[w], db') \ todo'[w]) \in Nat
  BY <1>2, LargerCounts
<1> QED BY <1>1, <1>3

\* The rows filed under the chat are counted; what is streamed is not among them.
LEMMA OpenCounts ==
  ASSUME StoreTypeOK, FiledInv, NEW w \in Workers, Open(w)
  PROVE  Counted(w)'
<1>1. /\ chat' = chat /\ db' = db /\ chat[w] \in Chats
      /\ todo'[w] = {g \in snap[w] : chat[w] \in InChats[g]} \ RowsOf(chat[w])
      /\ count'[w] = Cardinality(RowsOf(chat[w]))
  BY DEF StoreTypeOK, Open
<1>2. /\ RowsOf(chat[w]) \subseteq Indexed(chat[w], db) \ todo'[w]
      /\ Indexed(chat[w], db) \ todo'[w] \subseteq Guids
  BY <1>1, StoreAssumption DEF StoreAssumption, RowsOf, Indexed, FiledInv
<1>3. Cardinality(RowsOf(chat[w])) <= Cardinality(Indexed(chat[w], db) \ todo'[w])
  BY <1>2, LargerCounts
<1> QED BY <1>1, <1>3 DEF Counted

\* A committed batch leaves the stream and is indexed: it is counted once.
LEMMA CommitCounts ==
  ASSUME StoreTypeOK, StoreInv, NEW w \in Workers, Commit(w), Counted(w),
         Indexed(chat[w], db) \subseteq Indexed(chat[w], db')
  PROVE  Counted(w)'
<1> DEFINE A == Indexed(chat[w], db) \ todo[w]
           B == batch[w]
<1>1. /\ pc[w] = "write" /\ chat'[w] = chat[w] /\ todo'[w] = todo[w] \ batch[w]
      /\ count'[w] = count[w] + Cardinality(batch[w]) /\ count[w] \in Nat
      /\ batch[w] \subseteq Guids /\ chat[w] \in Chats
  BY DEF StoreTypeOK, Commit
<1>2. B \subseteq todo[w] /\ B \subseteq InChat(chat[w])
  BY <1>1 DEF StoreInv, CoverInv, JobInv, Covers, TodoInv
<1>3. count[w] <= Cardinality(A)
  BY <1>1 DEF Counted, Streaming
<1>4. A \cap B = {} /\ A \subseteq Guids /\ B \subseteq Guids /\ A \cup B \subseteq Guids
  BY <1>1, <1>2 DEF Indexed
<1>5. B \subseteq Indexed(chat[w], db')
  <2>1. \A g \in B : db'.filed[g] = chat[w]
    BY <1>1, CommitFiles DEF StoreInv
  <2> QED BY <1>1, <1>2, <2>1, StoreAssumption DEF StoreAssumption, Indexed, InChat
<1>6. /\ A \cup B \subseteq Indexed(chat[w], db') \ todo'[w]
      /\ Indexed(chat[w], db') \ todo'[w] \subseteq Guids
  BY <1>1, <1>2, <1>5 DEF Indexed
<1> HIDE DEF A, B
<1>7. IsFiniteSet(A) /\ IsFiniteSet(B) /\ Cardinality(A) \in Nat /\ Cardinality(B) \in Nat
  BY <1>4, SubsetsAreCounted
<1>8. Cardinality(A \cup B) = Cardinality(A) + Cardinality(B)
  <2>1. Cardinality(A \cup B) = Cardinality(A) + Cardinality(B) - Cardinality(A \cap B)
    BY <1>7, FS_Union
  <2>2. Cardinality(A \cap B) = 0
    BY <1>4, FS_EmptySet
  <2> QED BY <1>7, <2>1, <2>2
<1>9. /\ Cardinality(A \cup B) <= Cardinality(Indexed(chat[w], db') \ todo'[w])
       /\ Cardinality(Indexed(chat[w], db') \ todo'[w]) \in Nat
  BY <1>6, LargerCounts
<1>10. count'[w] = count[w] + Cardinality(B)
  BY <1>1 DEF B
<1>11. count'[w] <= Cardinality(Indexed(chat[w], db') \ todo'[w])
  BY <1>1, <1>3, <1>7, <1>8, <1>9, <1>10
<1> QED BY <1>1, <1>11 DEF Counted

\* A status row gets the number its job has counted, or keeps the one it has.
LEMMA ReportedCounts ==
  ASSUME StoreTypeOK, OverInv, NEW w \in Workers, JobStep(w), StoreTypeOK',
         \A c \in Chats : Indexed(c, db) \subseteq Indexed(c, db')
  PROVE  NeverOverstated'
<1>0. /\ chat[w] \in Chats /\ count[w] \in Nat /\ meta \in [Chats -> Statuses]
      /\ meta' \in [Chats -> Statuses]
  BY DEF StoreTypeOK
<1>1. ASSUME NEW c \in Chats, NEW n \in Nat, n <= Cardinality(Indexed(c, db))
      PROVE  n <= Cardinality(Indexed(c, db'))
  <2>1. Indexed(c, db) \subseteq Indexed(c, db') /\ Indexed(c, db') \subseteq Guids
    BY DEF Indexed
  <2>2. /\ Cardinality(Indexed(c, db)) <= Cardinality(Indexed(c, db'))
        /\ Cardinality(Indexed(c, db)) \in Nat /\ Cardinality(Indexed(c, db')) \in Nat
    BY <2>1, LargerCounts
  <2> QED BY <1>1, <2>2
<1>2. \A c \in Chats : meta[c].indexed \in Nat /\ meta[c].indexed <= Cardinality(Indexed(c, db))
  BY <1>0 DEF OverInv, NeverOverstated, Indexed, Statuses
<1>3. ASSUME \A c \in Chats : \/ meta'[c].indexed = meta[c].indexed
                              \/ c = chat[w] /\ meta'[c].indexed = count[w] /\ pc[w] \in Streaming
      PROVE  NeverOverstated'
  <2>1. pc[w] \in Streaming => count[w] <= Cardinality(Indexed(chat[w], db))
    <3>1. ASSUME pc[w] \in Streaming PROVE count[w] <= Cardinality(Indexed(chat[w], db) \ todo[w])
      BY <3>1 DEF OverInv, Counted
    <3>2. /\ Indexed(chat[w], db) \subseteq Guids
          /\ Indexed(chat[w], db) \ todo[w] \subseteq Indexed(chat[w], db)
      BY DEF Indexed
    <3>3. /\ Cardinality(Indexed(chat[w], db) \ todo[w]) <= Cardinality(Indexed(chat[w], db))
          /\ Cardinality(Indexed(chat[w], db) \ todo[w]) \in Nat
          /\ Cardinality(Indexed(chat[w], db)) \in Nat
      BY <3>2, LargerCounts
    <3> QED BY <1>0, <3>1, <3>3
  <2>2. ASSUME NEW c \in Chats PROVE meta'[c].indexed <= Cardinality(Indexed(c, db'))
    BY <1>0, <1>1, <1>2, <1>3, <2>1
  <2> QED BY <2>2 DEF NeverOverstated, Indexed
<1>4. CASE Announce(w) \/ SaveProgress(w) \/ Finish(w)
  <2>1. pc[w] \in Streaming
    BY <1>4 DEF Announce, SaveProgress, Finish, Drained, Streaming
  <2>2. meta'[chat[w]].indexed = count[w] /\ \A c \in Chats \ {chat[w]} : meta'[c] = meta[c]
    <3>1. CASE Announce(w)
      BY <1>0, <3>1 DEF Announce, WritesStatus, Statuses
    <3>2. CASE SaveProgress(w)
      BY <1>0, <3>2 DEF SaveProgress, WritesStatus, Statuses
    <3>3. CASE Finish(w)
      BY <1>0, <3>3 DEF Finish, WritesStatus, Statuses
    <3> QED BY <1>4, <3>1, <3>2, <3>3
  <2> QED BY <1>3, <2>1, <2>2
<1>5. CASE Begin(w) \/ RecordsError(w)
  <2>1. \A c \in Chats : meta'[c].indexed = meta[c].indexed
    BY <1>0, <1>5 DEF Begin, RecordsError, WritesStatus, Statuses
  <2> QED BY <1>3, <2>1
<1>6. CASE \/ \E c \in Chats, S \in copy[ServerOf[w]] \cup {box} : Start(w, c, S)
           \/ Open(w) \/ Since(w) \/ \E B \in SUBSET todo[w] : BeginBatch(w, B)
           \/ \E g \in Guids, r \in RowIds : Put(w, g, r)
           \/ Refused(w) \/ Commit(w) \/ JobFails(w) \/ TimesOut(w)
  <2>1. meta' = meta
    BY <1>6 DEF Start, Open, Since, BeginBatch, Put, Refused, Commit, JobFails, TimesOut
  <2> QED BY <1>3, <2>1
<1> QED BY <1>4, <1>5, <1>6 DEF JobStep

LEMMA OverStep ==
  ASSUME StoreTypeOK, StoreTypeOK', StoreInv, OverInv, [StoreNext]_storeVars
  PROVE  OverInv'
<1>0. FiledInv' /\ \A c \in Chats : Indexed(c, db) \subseteq Indexed(c, db')
  BY StepImplements, FiledStep DEF StoreInv, OverInv
<1>1. ASSUME NEW v \in Workers,
             pc'[v] \in Streaming =>
               /\ pc[v] \in Streaming /\ chat'[v] = chat[v] /\ count'[v] = count[v]
               /\ todo'[v] \subseteq todo[v]
      PROVE  Counted(v)'
  <2>1. Indexed(chat[v], db) \subseteq Indexed(chat[v], db')
    BY <1>0 DEF StoreTypeOK
  <2> QED BY <1>1, <2>1, CountedKeeps DEF OverInv
<1>2. ASSUME NEW w \in Workers, JobStep(w) PROVE OverInv'
  <2>1. NeverOverstated'
    BY <1>0, <1>2, ReportedCounts
  <2>2. ASSUME NEW v \in Workers \ {w} PROVE Counted(v)'
    <3>1. pc'[v] = pc[v] /\ chat'[v] = chat[v] /\ todo'[v] = todo[v] /\ count'[v] = count[v]
      BY <1>2 DEF StoreTypeOK, JobStep, Start, Begin, Open, Announce, Since, BeginBatch, Put,
         Refused, Commit, SaveProgress, Finish, JobFails, RecordsError, TimesOut, Ends, jobLocals
    <3> QED BY <1>1, <3>1
  <2>3. Counted(w)'
    <3>1. CASE Open(w)
      BY <3>1, OpenCounts DEF OverInv
    <3>2. CASE Commit(w)
      <4>1. Indexed(chat[w], db) \subseteq Indexed(chat[w], db') /\ Counted(w)
        BY <1>0 DEF StoreTypeOK, OverInv
      <4> QED BY <3>2, <4>1, CommitCounts
    <3>3. CASE Announce(w) \/ Since(w) \/ SaveProgress(w) \/ (\E B \in SUBSET todo[w] : BeginBatch(w, B))
               \/ \E g \in Guids, r \in RowIds : Put(w, g, r)
      <4>1. pc[w] \in Streaming /\ chat'[w] = chat[w] /\ count'[w] = count[w] /\ todo'[w] \subseteq todo[w]
        BY <3>3 DEF StoreTypeOK, Announce, Since, SaveProgress, BeginBatch, Put, Streaming, jobLocals
      <4> QED BY <1>1, <4>1
    <3>4. CASE \/ \E c \in Chats, S \in copy[ServerOf[w]] \cup {box} : Start(w, c, S)
               \/ Begin(w) \/ Refused(w) \/ JobFails(w) \/ TimesOut(w) \/ Finish(w) \/ RecordsError(w)
      <4>1. pc'[w] \notin Streaming
        BY <3>4 DEF StoreTypeOK, Start, Begin, Refused, JobFails, TimesOut, Finish, RecordsError, Ends,
                    Streaming
      <4> QED BY <1>1, <4>1
    <3> QED BY <1>2, <3>1, <3>2, <3>3, <3>4 DEF JobStep
  <2> QED BY <1>0, <2>1, <2>2, <2>3 DEF OverInv
<1>3. ASSUME UNCHANGED meta,
             \A v \in Workers : pc'[v] # "idle" =>
               /\ pc'[v] = pc[v] /\ chat'[v] = chat[v] /\ count'[v] = count[v] /\ todo'[v] = todo[v],
             UNCHANGED db
      PROVE  OverInv'
  <2>1. NeverOverstated'
    BY <1>3 DEF OverInv, NeverOverstated
  <2>2. ASSUME NEW v \in Workers PROVE Counted(v)'
    BY <1>1, <1>3 DEF Streaming
  <2> QED BY <1>0, <2>1, <2>2 DEF OverInv
<1>4. CASE \/ \E g \in Guids : Arrive(g) \/ Vanish(g)
           \/ \E s \in Servers : \E S \in copy[s] \cup {box} : Reads(s, S)
           \/ UNCHANGED storeVars
  BY <1>3, <1>4 DEF Arrive, Vanish, Reads, storeVars, jobLocals
<1>5. ASSUME NEW s \in Servers, Crash(s) PROVE OverInv'
  <2>1. /\ UNCHANGED <<meta, db>>
        /\ \A v \in Workers : pc'[v] # "idle" =>
             /\ pc'[v] = pc[v] /\ chat'[v] = chat[v] /\ count'[v] = count[v] /\ todo'[v] = todo[v]
    BY <1>5 DEF StoreTypeOK, Crash
  <2> QED BY <1>3, <2>1
<1> QED BY <1>2, <1>4, <1>5 DEF StoreNext

\* index.py:176-216, indexer.py:99-152.  Whatever jobs of several servers count and report on
\* one chat, and in whatever order their batches and status rows are written, the number of
\* indexed messages a status reports is never more than what is indexed.
THEOREM OverstatedTheorem == StoreSpec => []NeverOverstated
<1>1. StoreInit => OverInv
  <2> SUFFICES ASSUME StoreInit PROVE OverInv
    OBVIOUS
  <2>1. FiledInv /\ \A w \in Workers : Counted(w)
    BY DEF StoreInit, FiledInv, EmptyDatabase, Counted, Streaming
  <2>2. \A c \in Chats : meta[c].indexed = 0
    BY DEF StoreInit
  <2>3. \A c \in Chats : Cardinality(Indexed(c, db)) \in Nat
    BY SubsetsAreCounted DEF Indexed
  <2>4. NeverOverstated
    BY <2>2, <2>3 DEF NeverOverstated, Indexed
  <2> QED BY <2>1, <2>4 DEF OverInv
<1>2. StoreTypeOK /\ StoreTypeOK' /\ StoreInv /\ OverInv /\ [StoreNext]_storeVars => OverInv'
  BY OverStep
<1> QED BY <1>1, <1>2, StoreInvariant, TypeCorrect, PTL DEF StoreSpec, OverInv

-----------------------------------------------------------------------------
(* The searches                                                              *)

\* A step of the search is one of the store, or leaves it alone.
LEMMA SearchStepsTheStore ==
  ASSUME [SearchNext]_searchVars PROVE [StoreNext]_storeVars
<1>1. CASE Mailbox \/ (\E w \in Workers : Works(w)) \/ \E s \in Servers : Dies(s)
  <2>1. Mailbox => StoreNext
    BY DEF Mailbox, StoreNext
  <2>2. ASSUME NEW w \in Workers, Works(w) PROVE StoreNext
    BY <2>2 DEF Works, StoreNext
  <2>3. ASSUME NEW s \in Servers, Dies(s) PROVE StoreNext
    <3>1. Crash(s)
      BY ONLY <2>3, SMTT(30) DEF Dies
    <3> QED BY ONLY <3>1 DEF StoreNext
  <2> QED BY <1>1, <2>1, <2>2, <2>3
<1>2. ASSUME NEW k \in Callers, (\E q \in Questions : Ask(k, q)) \/ Knn(k) \/ Return(k) \/ Raises(k)
      PROVE  UNCHANGED storeVars
  BY <1>2 DEF Ask, Knn, Return, Raises
<1>3. ASSUME NEW k \in Callers, NEW S \in copy[At[k]] \cup {box}, Fetch(k, S)
      PROVE  [StoreNext]_storeVars
  <2>1. At[k] \in Servers
    BY SearchAssumption DEF SearchAssumption
  <2> QED BY <1>3, <2>1 DEF Fetch, StoreNext
<1>4. CASE UNCHANGED searchVars
  BY <1>4 DEF searchVars
<1> QED BY <1>1, <1>2, <1>3, <1>4 DEF SearchNext

\* tools.py:110-191.  A search takes no step of its own in the store but the one with which
\* any tool takes a snapshot: whatever the theorems above say of the store holds while
\* messages are searched.
THEOREM SearchIsAStore == SearchSpec => StoreSpec
<1>1. SearchInit => StoreInit
  BY DEF SearchInit
<1>2. [SearchNext]_searchVars => [StoreNext]_storeVars
  BY SearchStepsTheStore
<1> QED BY <1>1, <1>2, PTL DEF SearchSpec, StoreSpec

\* index.py:85-216.  Rows and vectors, counts, watermarks and the promise of the store hold while
\* calls search it.
THEOREM StoreUnderSearch ==
  SearchSpec => []TablesAgree /\ []NeverOverstated /\ []WatermarksCover /\ ImplementsRowStore
BY SearchIsAStore, TablesAgreeTheorem, OverstatedTheorem, WatermarkTheorem, RefinementTheorem

CallTypeOK ==
  /\ stage \in [Callers -> {"idle", "searching", "fetching", "answered"}]
  /\ ask \in [Callers -> Questions]
  /\ scored \in [Callers -> SUBSET Guids] /\ hits \in [Callers -> SUBSET Guids]
  /\ seen \in [Callers -> [Guids -> Chats \cup {NoChat}]]
  /\ source \in [Callers -> SUBSET Guids] /\ filed \in [Callers -> SUBSET Guids]
  /\ unread \subseteq Callers

LEMMA CallStepIsTyped ==
  ASSUME CallTypeOK, StoreTypeOK, [SearchNext]_searchVars
  PROVE  CallTypeOK'
<1> USE SearchAssumption DEF SearchAssumption, CallTypeOK
<1>1. Nowhere \in [Guids -> Chats \cup {NoChat}] /\ db.filed \in [Guids -> Chats \cup {NoChat}]
  BY DEF Nowhere, StoreTypeOK, Database
<1>2. CASE Mailbox \/ (\E w \in Workers : Works(w)) \/ UNCHANGED searchVars
  <2>1. ASSUME UNCHANGED <<callVars, filed>> PROVE CallTypeOK'
    BY <2>1 DEF callVars
  <2>2. ASSUME NEW w \in Workers, Works(w) PROVE CallTypeOK'
    <3>1. UNCHANGED callVars /\ filed' \in [Callers -> SUBSET Guids]
      BY <2>2 DEF Works
    <3> QED BY <3>1 DEF callVars
  <2> QED BY <1>2, <2>1, <2>2 DEF Mailbox, searchVars
<1>3. ASSUME NEW s \in Servers, Dies(s) PROVE CallTypeOK'
  <2>1. /\ stage' = [k \in Callers |-> IF At[k] = s THEN "idle" ELSE stage[k]]
        /\ ask' = [k \in Callers |-> IF At[k] = s THEN AnyQuestion ELSE ask[k]]
        /\ scored' = [k \in Callers |-> IF At[k] = s THEN {} ELSE scored[k]]
        /\ hits' = [k \in Callers |-> IF At[k] = s THEN {} ELSE hits[k]]
        /\ seen' = [k \in Callers |-> IF At[k] = s THEN Nowhere ELSE seen[k]]
        /\ source' = [k \in Callers |-> IF At[k] = s THEN {} ELSE source[k]]
        /\ unread' \subseteq unread /\ filed' = filed
    BY ONLY <1>3 DEF Dies
  <2>2. stage' \in [Callers -> {"idle", "searching", "fetching", "answered"}] /\ ask' \in [Callers -> Questions]
    BY <2>1
  <2>3. scored' \in [Callers -> SUBSET Guids] /\ hits' \in [Callers -> SUBSET Guids]
    BY <2>1
  <2>4. seen' \in [Callers -> [Guids -> Chats \cup {NoChat}]] /\ source' \in [Callers -> SUBSET Guids]
    BY <1>1, <2>1
  <2> QED BY <2>1, <2>2, <2>3, <2>4
<1>4. ASSUME NEW k \in Callers, NEW q \in Questions, Ask(k, q) PROVE CallTypeOK'
  BY <1>4 DEF Ask
<1>5. ASSUME NEW k \in Callers, Return(k) \/ Raises(k) PROVE CallTypeOK'
  <2>1. Leave(k) /\ filed' = filed
    BY ONLY <1>5, SMTT(30) DEF Return, Raises
  <2> QED BY <1>1, <2>1 DEF Leave
<1>6. ASSUME NEW k \in Callers, Knn(k) PROVE CallTypeOK'
  <2>1. PICK C \in SUBSET Guids : scored' = [scored EXCEPT ![k] = C]
    BY ONLY <1>6 DEF Knn
  <2> QED BY <1>1, <1>6, <2>1, SMTT(30) DEF Knn
<1>7. ASSUME NEW k \in Callers, NEW S \in copy[At[k]] \cup {box}, Fetch(k, S) PROVE CallTypeOK'
  <2>1. S \in SUBSET Guids /\ Fetched(k, S) \in SUBSET Guids
    BY DEF StoreTypeOK, Fetched
  <2>2. PICK H \in SUBSET Guids : Answers(k, H)
    BY <1>7, <2>1 DEF Fetch, AnswersBest, AnswersUnread
  <2>3. /\ source' = source \/ source' = [source EXCEPT ![k] = S]
        /\ unread' \subseteq unread \cup {k}
    BY <1>7 DEF Fetch, AnswersBest, AnswersUnread
  <2> QED BY <1>7, <2>1, <2>2, <2>3 DEF Fetch, Answers
<1> QED BY <1>2, <1>3, <1>4, <1>5, <1>6, <1>7 DEF SearchNext

LEMMA CallsAreTyped == SearchSpec => []CallTypeOK
<1>1. SearchInit => CallTypeOK
  BY SearchAssumption DEF SearchAssumption, SearchInit, CallTypeOK, Nowhere
<1>2. CallTypeOK /\ StoreTypeOK /\ [SearchNext]_searchVars => CallTypeOK'
  BY CallStepIsTyped
<1> QED BY <1>1, <1>2, SearchIsAStore, TypeCorrect, PTL DEF SearchSpec
-----------------------------------------------------------------------------
(* What a search leaves out.  Its candidates are what the chat, the window   *)
(* and min_score leave of the nearest vectors; what they miss was too far.   *)

Wanted(g, k) ==
  seen[k][g] = ask[k].chat /\ InWindow(g, ask[k]) /\ Distance[ask[k].query][g] <= Cutoff

\* the messages that had a vector when k searched
HadVector(k) == {h \in Guids : seen[k][h] # NoChat}

Crowded(g, k) == Cardinality(NoFarther(g, ask[k].query, HadVector(k))) >= KnnLimit

Scores(k) ==
  \A g \in Guids : IF g \in scored[k] THEN Wanted(g, k) ELSE Wanted(g, k) => Crowded(g, k)

Call(k) ==
  /\ stage[k] \in {"fetching", "answered"} => Scores(k)
  /\ stage[k] # "answered" => source[k] = {} /\ k \notin unread
  /\ source[k] # {} => IF k \in unread THEN hits[k] = {}
                        ELSE BestOf(hits[k], Fetched(k, source[k]), ask[k].query)

\* What the vectors of all chats crowd out: a message whose vector is not among the k nearest
\* has k messages no farther than it, each found by its own vector.
LEMMA KnnCrowds ==
  ASSUME StoreTypeOK, Agree(db), NEW query, Distance[query] \in [Guids -> Nat],
         NEW N, Nearest(N, KnnLimit, query),
         NEW g \in Guids, db.filed[g] # NoChat, db.at[g] \notin N
  PROVE  Cardinality(NoFarther(g, query, {h \in Guids : db.filed[h] # NoChat})) >= KnnLimit
<1> DEFINE M == NoFarther(g, query, {h \in Guids : db.filed[h] # NoChat})
           f == [r \in N |-> db.vec[r]]
<1>1. /\ db.at \in [Guids -> RowIds \cup {NoRowId}] /\ db.vec \in [RowIds -> Guids \cup {NoGuid}]
      /\ NoRowId \notin RowIds /\ NoGuid \notin Guids
  BY StoreAssumption DEF StoreTypeOK, Database, StoreAssumption
<1>2. db.at[g] \in Vectors \ N /\ db.vec[db.at[g]] = g
  BY <1>1 DEF Agree, Vectors
<1>3. N \subseteq Vectors /\ Cardinality(N) = KnnLimit
  BY <1>2 DEF Nearest
<1>4. ASSUME NEW r \in N PROVE db.vec[r] \in M /\ db.at[db.vec[r]] = r
  <2>1. db.vec[r] \in Guids /\ db.at[db.vec[r]] = r /\ r # NoRowId
    BY <1>1, <1>3 DEF Agree, Vectors
  <2>2. db.filed[db.vec[r]] # NoChat /\ db.vec[r] # g
    BY <2>1 DEF Agree
  <2>3. Distance[query][db.vec[r]] <= Distance[query][g]
    BY <1>2 DEF Nearest
  <2> QED BY <2>1, <2>2, <2>3 DEF NoFarther
<1>5. f \in Injection(N, M)
  <2>1. f \in [N -> M]
    BY <1>4
  <2>2. \A r, i \in N : f[r] = f[i] => r = i
    BY <1>4
  <2> QED BY <2>1, <2>2 DEF Injection, IsInjective
<1>6. IsFiniteSet(M) /\ Cardinality(M) \in Nat
  BY SubsetsAreCounted DEF NoFarther
<1>7. Cardinality(N) <= Cardinality(M)
  <2> HIDE DEF M, f
  <2> QED BY <1>5, <1>6, FS_Injection
<1>8. KnnLimit \in Nat
  BY SearchAssumption DEF SearchAssumption, KnnLimit
<1> QED BY ONLY <1>3, <1>6, <1>7, <1>8

LEMMA KnnScores ==
  ASSUME StoreTypeOK, Agree(db), CallTypeOK, NEW k \in Callers, Knn(k)
  PROVE  Scores(k)'
<1> DEFINE q == ask[k]
<1>1. q \in Questions /\ q.chat # NoChat /\ Distance[q.query] \in [Guids -> Nat]
  <2>1. q \in Questions
    BY SMTT(30) DEF CallTypeOK
  <2> QED BY ONLY <2>1, SearchAssumption, StoreAssumption DEF SearchAssumption, StoreAssumption
<1>2. PICK N \in SUBSET Vectors :
        /\ Nearest(N, KnnLimit, q.query)
        /\ scored' = [scored EXCEPT ![k] =
             {g \in Guids : /\ db.at[g] \in N /\ db.filed[g] = q.chat /\ InWindow(g, q)
                            /\ Distance[q.query][db.vec[db.at[g]]] <= Cutoff}]
  BY DEF Knn
<1>3. /\ ask' = ask /\ seen'[k] = db.filed
      /\ scored'[k] = {g \in Guids : /\ db.at[g] \in N /\ db.filed[g] = q.chat /\ InWindow(g, q)
                                     /\ Distance[q.query][db.vec[db.at[g]]] <= Cutoff}
  BY <1>2 DEF Knn, CallTypeOK
<1>4. \A g \in Guids : db.at[g] \in N => db.vec[db.at[g]] = g
  <2>1. NoRowId \notin N
    BY <1>2, StoreAssumption DEF Vectors, StoreAssumption
  <2> QED BY <2>1 DEF Agree
<1>5. ASSUME NEW g \in Guids, g \in scored'[k] PROVE Wanted(g, k)'
  BY <1>3, <1>4, <1>5 DEF Wanted, InWindow
<1>6. ASSUME NEW g \in Guids, g \notin scored'[k], Wanted(g, k)' PROVE Crowded(g, k)'
  <2>1. db.filed[g] = q.chat /\ db.at[g] \notin N
    BY <1>3, <1>4, <1>6 DEF Wanted, InWindow
  <2>2. Cardinality(NoFarther(g, q.query, {h \in Guids : db.filed[h] # NoChat})) >= KnnLimit
    BY <1>1, <1>2, <2>1, KnnCrowds
  <2>3. HadVector(k)' = {h \in Guids : db.filed[h] # NoChat} /\ ask'[k] = q
    BY ONLY <1>3 DEF HadVector
  <2> QED BY ONLY <2>2, <2>3, SMTT(30) DEF Crowded, NoFarther, KnnLimit
<1> QED BY <1>5, <1>6 DEF Scores

LEMMA CallStep ==
  ASSUME StoreTypeOK, Agree(db), CallTypeOK, CallTypeOK', \A k \in Callers : Call(k),
         [SearchNext]_searchVars
  PROVE  \A k \in Callers : Call(k)'
<1>1. ASSUME NEW j \in Callers, <<stage[j], ask[j], scored[j], hits[j], seen[j], source[j]>>'
                              = <<stage[j], ask[j], scored[j], hits[j], seen[j], source[j]>>,
             j \in unread' <=> j \in unread
      PROVE  Call(j)'
  BY <1>1 DEF Call, Scores, Wanted, InWindow, Crowded, NoFarther, HadVector, KnnLimit, BestOf, Fetched
<1>2. ASSUME NEW j \in Callers, stage'[j] \in {"idle", "searching"}, source'[j] = {}, j \notin unread'
      PROVE  Call(j)'
  BY <1>2 DEF Call
<1>3. CASE Mailbox \/ (\E w \in Workers : Works(w)) \/ UNCHANGED searchVars
  BY <1>1, <1>3 DEF Mailbox, Works, callVars, searchVars
<1>4. ASSUME NEW s \in Servers, Dies(s), NEW j \in Callers PROVE Call(j)'
  <2>1. CASE At[j] = s
    <3>1. stage'[j] = "idle" /\ source'[j] = {} /\ j \notin unread'
      BY <1>4, <2>1 DEF Dies
    <3> QED BY <1>2, <3>1
  <2>2. CASE At[j] # s
    BY <1>1, <1>4, <2>2 DEF Dies
  <2> QED BY <2>1, <2>2
<1>5. ASSUME NEW k \in Callers, NEW j \in Callers, (\E q \in Questions : Ask(k, q)) \/ Return(k) \/ Raises(k)
      PROVE  Call(j)'
  <2>1. CASE \E q \in Questions : Ask(k, q)
    <3>1. CASE j = k
      <4>1. stage'[j] = "searching" /\ source'[j] = {} /\ j \notin unread'
        BY <2>1, <3>1 DEF Ask, CallTypeOK, Call
      <4> QED BY <1>2, <4>1
    <3>2. CASE j # k
      BY <1>1, <2>1, <3>2 DEF Ask, CallTypeOK
    <3> QED BY <3>1, <3>2
  <2>2. CASE Return(k) \/ Raises(k)
    <3>1. Leave(k)
      BY ONLY <2>2 DEF Return, Raises
    <3>2. CASE j = k
      <4>1. stage'[j] = "idle" /\ source'[j] = {} /\ j \notin unread'
        BY <3>1, <3>2 DEF Leave, CallTypeOK
      <4> QED BY <1>2, <4>1
    <3>3. CASE j # k
      BY <1>1, <3>1, <3>3, SMTT(30) DEF Leave, CallTypeOK
    <3> QED BY <3>2, <3>3
  <2> QED BY <1>5, <2>1, <2>2
<1>6. ASSUME NEW k \in Callers, NEW j \in Callers, Knn(k) PROVE Call(j)'
  <2>1. CASE j = k
    <3>1. stage'[k] = "fetching" /\ source'[k] = {} /\ k \notin unread'
      BY <1>6, SMTT(30) DEF Knn, CallTypeOK, Call
    <3>2. Scores(k)'
      BY <1>6, KnnScores, SMTT(30)
    <3> QED BY <2>1, <3>1, <3>2 DEF Call
  <2>2. CASE j # k
    BY <1>1, <1>6, <2>2 DEF Knn, CallTypeOK
  <2> QED BY <2>1, <2>2
<1>7. ASSUME NEW k \in Callers, NEW j \in Callers, NEW S \in copy[At[k]] \cup {box}, Fetch(k, S)
      PROVE  Call(j)'
  <2>1. PICK H : /\ Answers(k, H)
                 /\ \/ source' = source /\ unread' = unread
                    \/ /\ source' = [source EXCEPT ![k] = S] /\ unread' = unread
                       /\ BestOf(H, Fetched(k, S), ask[k].query)
                    \/ source' = [source EXCEPT ![k] = S] /\ unread' = unread \cup {k} /\ H = {}
    BY <1>7 DEF Fetch, AnswersBest, AnswersUnread
  <2>2. CASE j = k
    <3>1. stage'[k] = "answered" /\ hits'[k] = H /\ UNCHANGED <<ask, scored, seen>>
      BY <1>7, <2>1 DEF Fetch, Answers, CallTypeOK
    <3>2. Scores(k)'
      <4>1. Scores(k)
        BY <1>7 DEF Fetch, Call
      <4> QED BY <3>1, <4>1 DEF Scores, Wanted, InWindow, Crowded, NoFarther, HadVector, KnnLimit
    <3>3. source[k] = {}
      BY <1>7 DEF Fetch, Call
    <3>4. source'[k] # {} => IF k \in unread' THEN hits'[k] = {}
                             ELSE BestOf(hits'[k], Fetched(k, source'[k]), ask[k].query)
      <4>1. CASE source' = source
        BY <3>3, <4>1
      <4>2. CASE /\ source' = [source EXCEPT ![k] = S] /\ unread' = unread
                 /\ BestOf(H, Fetched(k, S), ask[k].query)
        <5>1. k \notin unread
          BY <1>7 DEF Fetch, Call
        <5> QED BY <3>1, <4>2, <5>1 DEF CallTypeOK
      <4>3. CASE unread' = unread \cup {k} /\ H = {}
        BY <3>1, <4>3
      <4> QED BY <2>1, <4>1, <4>2, <4>3
    <3> QED BY <2>2, <3>1, <3>2, <3>4 DEF Call, Fetched, BestOf
  <2>3. CASE j # k
    BY <1>1, <1>7, <2>1, <2>3 DEF Fetch, Answers, CallTypeOK
  <2> QED BY <2>2, <2>3
<1> QED BY <1>3, <1>4, <1>5, <1>6, <1>7 DEF SearchNext

\* What the calls keep is what the property says, with the k nearest in their place.
LEMMA CallsAreNearest ==
  ASSUME CallTypeOK, \A k \in Callers : Call(k) PROVE HitsAreNearest
<1> SUFFICES ASSUME NEW k \in Callers, stage[k] = "answered", source[k] # {}
             PROVE  /\ \A h \in hits[k] : Matches(h, k) /\ h \in source[k]
                    /\ \A g \in source[k] \ hits[k] : Matches(g, k) =>
                         \/ Cardinality(NoLower(g, ask[k].query, hits[k])) >= TopK
                         \/ Crowded(g, k)
                         \/ k \in unread /\ hits[k] = {}
  BY DEF HitsAreNearest, Crowded, HadVector, KnnLimit
<1> DEFINE F == Fetched(k, source[k])
<1>1. /\ Scores(k) /\ F \subseteq scored[k] \cap source[k]
      /\ IF k \in unread THEN hits[k] = {} ELSE BestOf(hits[k], F, ask[k].query)
  BY DEF Call, Fetched
<1>2. hits[k] \subseteq Guids /\ scored[k] \subseteq Guids /\ source[k] \subseteq Guids /\ TopK \in Nat
  BY SearchAssumption DEF CallTypeOK, SearchAssumption
<1>3. ASSUME NEW h \in hits[k] PROVE Matches(h, k) /\ h \in source[k]
  <2>1. h \in F /\ Wanted(h, k)
    BY <1>1, <1>2 DEF BestOf, Scores
  <2> QED BY <2>1 DEF Wanted, Matches, Fetched
<1>4. ASSUME NEW g \in source[k] \ hits[k], Matches(g, k), ~Crowded(g, k), k \notin unread
      PROVE  Cardinality(NoLower(g, ask[k].query, hits[k])) >= TopK
  <2>1. g \in scored[k]
    BY <1>1, <1>2, <1>4 DEF Scores, Wanted, Matches
  <2>2. g \in F \ hits[k]
    BY <2>1, <1>4 DEF Fetched, Matches
  <2>3. Cardinality(hits[k]) = TopK /\ NoLower(g, ask[k].query, hits[k]) = hits[k]
    BY <1>1, <1>4, <2>2 DEF BestOf, NoLower
  <2> QED BY <1>2, <2>3
<1> QED BY <1>1, <1>3, <1>4

\* tools.py:110-191, index.py:126-161.  Whatever is indexed, moved to another chat or deleted
\* while a search runs, a message that fits the question, was indexed when the vectors were
\* asked for and is in the snapshot is missing from the answer only when top_k hits have a
\* score as high in its four digits, when as many messages of all chats as were asked for are
\* as near, or when the snapshot could not be read and the answer has no hits.
THEOREM NearestTheorem == SearchSpec => []HitsAreNearest
<1> DEFINE Calls == \A k \in Callers : Call(k)
<1>1. SearchInit => Calls
  BY DEF SearchInit, Call
<1>2. StoreTypeOK /\ TablesAgree /\ CallTypeOK /\ CallTypeOK' /\ Calls /\ [SearchNext]_searchVars => Calls'
  BY CallStep DEF TablesAgree
<1>3. CallTypeOK /\ Calls => HitsAreNearest
  BY CallsAreNearest
<1>4. SearchSpec => []StoreTypeOK /\ []TablesAgree /\ []CallTypeOK
  BY SearchIsAStore, TypeCorrect, TablesAgreeTheorem, CallsAreTyped
<1> QED BY <1>1, <1>2, <1>3, <1>4, PTL DEF SearchSpec

-----------------------------------------------------------------------------
(* What a snapshot holds of what this server has filed.  A server's          *)
(* snapshots only get later, and a job files only what it read from one.     *)

\* X was in the mailbox, and what is left of it is in every snapshot of K.
Within(X, b, g, K) == X \subseteq b \cup g /\ \A S \in K : X \subseteq S \cup g

\* What a job has read and not yet committed.
Held(w) == snap[w] \cup todo[w] \cup batch[w]

\* A transaction that is not left behind differs from the database in its batch only.
EditInv ==
  \A w \in Workers : pc[w] = "write" /\ ServerOf[w] \notin stale =>
    \A g \in Guids : view[ServerOf[w]].at[g] # db.at[g] => g \in batch[w]

HeldInv == \A w \in Workers : Within(Held(w), box, gone, copy[ServerOf[w]])

KeptInv == \A k \in Callers : Within(filed[k], box, gone, copy[At[k]])

LEMMA EditStep ==
  ASSUME StoreTypeOK, LockInv, TodoInv, TxInv, EditInv, [StoreNext]_storeVars
  PROVE  EditInv'
<1> USE StoreAssumption DEF StoreAssumption
<1> DEFINE Edits(v) == ServerOf[v] \notin stale =>
                         \A g \in Guids : view[ServerOf[v]].at[g] # db.at[g] => g \in batch[v]
<1>1. ASSUME NEW v \in Workers, pc[v] = "write", db' = db, batch'[v] = batch[v],
             view'[ServerOf[v]] = view[ServerOf[v]], ServerOf[v] \in stale => ServerOf[v] \in stale'
      PROVE  Edits(v)'
  BY <1>1 DEF EditInv
<1>2. ASSUME NEW s \in Servers, Closes(s), stale' = stale \ {s}, db' = db,
             \A v \in Workers : pc'[v] = "write" =>
               ServerOf[v] # s /\ pc[v] = "write" /\ batch'[v] = batch[v]
      PROVE  EditInv'
  <2>1. view' = [view EXCEPT ![s] = EmptyDatabase]
    BY <1>2 DEF Closes
  <2>2. ASSUME NEW v \in Workers, pc'[v] = "write" PROVE Edits(v)'
    BY <1>1, <1>2, <2>1, <2>2 DEF StoreTypeOK
  <2> QED BY <2>2 DEF EditInv
<1>3. ASSUME UNCHANGED <<db, view>>, stale \subseteq stale',
             \A v \in Workers : pc'[v] = "write" => pc[v] = "write" /\ batch'[v] = batch[v]
      PROVE  EditInv'
  <2>1. ASSUME NEW v \in Workers, pc'[v] = "write" PROVE Edits(v)'
    BY <1>1, <1>3, <2>1
  <2> QED BY <2>1 DEF EditInv
<1>4. ASSUME NEW w \in Workers, JobStep(w) PROVE EditInv'
  <2>1. CASE \/ \E c \in Chats, S \in copy[ServerOf[w]] \cup {box} : Start(w, c, S)
             \/ Begin(w) \/ Open(w) \/ Announce(w) \/ Since(w) \/ SaveProgress(w) \/ Finish(w)
             \/ RecordsError(w) \/ TimesOut(w) \/ (JobFails(w) /\ mutex[ServerOf[w]] # w)
    <3>1. UNCHANGED <<db, view>> /\ stale \subseteq stale'
      BY <2>1 DEF Start, Begin, Open, Announce, Since, SaveProgress, Finish, RecordsError, TimesOut,
                  JobFails, WritesStatus, lockVars
    <3>2. \A v \in Workers : pc'[v] = "write" => pc[v] = "write" /\ batch'[v] = batch[v]
      BY <2>1 DEF StoreTypeOK, Start, Begin, Open, Announce, Since, SaveProgress, Finish,
                  RecordsError, TimesOut, JobFails, Ends, jobLocals
    <3> QED BY <1>3, <3>1, <3>2
  <2>2. CASE Refused(w) \/ (JobFails(w) /\ mutex[ServerOf[w]] = w)
    <3>1. /\ Closes(ServerOf[w]) /\ stale' = stale \ {ServerOf[w]} /\ db' = db
          /\ mutex[ServerOf[w]] = w /\ batch' = batch
          /\ \A v \in Workers : pc'[v] = "write" => v # w /\ pc[v] = "write"
      BY <2>2 DEF StoreTypeOK, LockInv, Refused, JobFails, jobLocals
    <3>2. \A v \in Workers : pc'[v] = "write" => ServerOf[v] # ServerOf[w] /\ pc[v] = "write"
      BY <3>1, OneTransaction
    <3> QED BY <1>2, <3>1, <3>2
  <2>3. ASSUME NEW B \in SUBSET todo[w], BeginBatch(w, B), NEW v \in Workers, pc'[v] = "write"
        PROVE  Edits(v)'
    <3>1. /\ view' = [view EXCEPT ![ServerOf[w]] = db] /\ stale' = stale \ {ServerOf[w]} /\ db' = db
          /\ Free(ServerOf[w]) /\ batch' = [batch EXCEPT ![w] = B] /\ pc' = [pc EXCEPT ![w] = "write"]
      BY <2>3 DEF BeginBatch
    <3>2. CASE v = w
      BY <3>1, <3>2 DEF StoreTypeOK
    <3>3. CASE v # w
      <4>1. pc[v] = "write" /\ batch'[v] = batch[v]
        BY <2>3, <3>1, <3>3 DEF StoreTypeOK
      <4>2. ServerOf[v] # ServerOf[w]
        BY <3>1, <3>3, <4>1, OneTransaction
      <4> QED BY <1>1, <3>1, <4>1, <4>2 DEF StoreTypeOK
    <3> QED BY <3>2, <3>3
  <2>4. ASSUME NEW g \in Guids, NEW r \in RowIds, Put(w, g, r), NEW v \in Workers, pc'[v] = "write"
        PROVE  Edits(v)'
    <3>1. /\ pc[w] = "write" /\ pc' = pc /\ g \in left[w] /\ MayWrite(ServerOf[w])
          /\ view' = [view EXCEPT ![ServerOf[w]] = Upserted(view[ServerOf[w]], g, chat[w], r)]
          /\ UNCHANGED <<db, stale, batch>>
      BY <2>4 DEF Put
    <3>2. CASE v = w
      <4>1. ServerOf[w] \notin stale /\ g \in batch[w]
        BY <3>1 DEF MayWrite, TxInv
      <4>2. view'[ServerOf[w]].at = [view[ServerOf[w]].at EXCEPT ![g] = r]
        BY <3>1 DEF StoreTypeOK, Upserted
      <4>3. \A h \in Guids \ {g} : view'[ServerOf[w]].at[h] = view[ServerOf[w]].at[h]
        BY <4>2 DEF StoreTypeOK, Database
      <4> QED BY <3>1, <3>2, <4>1, <4>3 DEF EditInv
    <3>3. CASE v # w
      <4>1. ServerOf[v] # ServerOf[w]
        BY <2>4, <3>1, <3>3, OneTransaction DEF LockInv
      <4> QED BY <1>1, <2>4, <3>1, <4>1 DEF StoreTypeOK
    <3> QED BY <3>2, <3>3
  <2>5. ASSUME Commit(w), NEW v \in Workers, pc'[v] = "write" PROVE Edits(v)'
    <3>1. pc[w] = "write" /\ pc[v] = "write" /\ v # w /\ stale' = (stale \ {ServerOf[w]}) \cup LeftBehind(ServerOf[w])
      BY <2>5 DEF Commit, StoreTypeOK
    <3>2. ServerOf[v] # ServerOf[w] /\ ~Free(ServerOf[v])
      BY <3>1, OneTransaction DEF LockInv, Free
    <3> QED BY <3>1, <3>2 DEF LeftBehind
  <2> QED BY <1>4, <2>1, <2>2, <2>3, <2>4, <2>5 DEF JobStep, EditInv
<1>5. ASSUME NEW s \in Servers, Crash(s) PROVE EditInv'
  <2>1. /\ Closes(s) /\ stale' = stale \ {s} /\ db' = db
        /\ \A v \in Workers : pc'[v] = "write" =>
             ServerOf[v] # s /\ pc[v] = "write" /\ batch'[v] = batch[v]
    BY <1>5 DEF StoreTypeOK, Crash
  <2> QED BY <1>2, <2>1
<1>6. CASE \/ \E g \in Guids : Arrive(g) \/ Vanish(g)
           \/ \E s \in Servers : \E S \in copy[s] \cup {box} : Reads(s, S)
           \/ UNCHANGED storeVars
  BY <1>3, <1>6 DEF Arrive, Vanish, Reads, storeVars, lockVars, jobLocals
<1> QED BY <1>4, <1>5, <1>6 DEF StoreNext

LEMMA WithinStays ==
  ASSUME NEW X, NEW b, NEW g, NEW K, Within(X, b, g, K), NEW Y, Y \subseteq X,
         NEW b2, NEW g2, NEW K2, b \cup g \subseteq b2 \cup g2, g \subseteq g2,
         \A S \in K2 : S \in K \/ S = b2
  PROVE  Within(Y, b2, g2, K2)
BY DEF Within

\* Nothing leaves chat.db but into gone, and a server that takes a new snapshot takes it of
\* the mailbox as it is.
LEMMA CopiesAreLater ==
  ASSUME StoreTypeOK, [StoreNext]_storeVars
  PROVE  /\ box \cup gone \subseteq box' \cup gone' /\ gone \subseteq gone'
         /\ \A s \in Servers : \A S \in copy'[s] : S \in copy[s] \/ S = box'
<1> USE StoreAssumption DEF StoreAssumption
<1>1. ASSUME NEW s \in Servers, NEW S \in copy[s] \cup {box}, SnapshotOf(s, S), UNCHANGED <<box, gone>>
      PROVE  \A t \in Servers : \A T \in copy'[t] : T \in copy[t] \/ T = box'
  BY <1>1 DEF SnapshotOf, StoreTypeOK
<1>2. ASSUME NEW w \in Workers, NEW c \in Chats, NEW S \in copy[ServerOf[w]] \cup {box}, Start(w, c, S)
      PROVE  UNCHANGED <<box, gone>> /\ SnapshotOf(ServerOf[w], S) /\ ServerOf[w] \in Servers
  BY <1>2 DEF Start, mailVars
<1>3. ASSUME NEW w \in Workers, JobStep(w), ~ \E c \in Chats, S \in copy[ServerOf[w]] \cup {box} : Start(w, c, S)
      PROVE  UNCHANGED <<box, gone, copy>>
  BY <1>3 DEF JobStep, Begin, Open, Announce, Since, BeginBatch, Put, Refused, Commit,
         SaveProgress, Finish, JobFails, RecordsError, TimesOut, mailVars
<1>4. ASSUME NEW s \in Servers, NEW S \in copy[s] \cup {box}, Reads(s, S)
      PROVE  UNCHANGED <<box, gone>> /\ SnapshotOf(s, S)
  BY <1>4 DEF Reads, mailVars
<1>5. ASSUME NEW s \in Servers, Crash(s)
      PROVE  UNCHANGED <<box, gone>> /\ \A t \in Servers : copy'[t] \subseteq copy[t]
  BY <1>5 DEF Crash, mailVars, StoreTypeOK
<1>6. ASSUME NEW g \in Guids, Arrive(g) \/ Vanish(g)
      PROVE  box \cup gone \subseteq box' \cup gone' /\ gone \subseteq gone' /\ copy' = copy
  BY <1>6 DEF Arrive, Vanish
<1>7. UNCHANGED storeVars => UNCHANGED <<box, gone, copy>>
  BY DEF storeVars, mailVars
<1> QED BY <1>1, <1>2, <1>3, <1>4, <1>5, <1>6, <1>7 DEF StoreNext

LEMMA HeldStep ==
  ASSUME StoreTypeOK, SnapInv, HeldInv, [StoreNext]_storeVars
  PROVE  HeldInv'
<1> USE StoreAssumption DEF StoreAssumption
<1>1. ASSUME NEW v \in Workers, Held(v)' \subseteq Held(v)
      PROVE  Within(Held(v)', box', gone', copy'[ServerOf[v]])
  <2>1. Within(Held(v), box, gone, copy[ServerOf[v]])
    BY DEF HeldInv
  <2> HIDE DEF Held
  <2> QED BY <1>1, <2>1, CopiesAreLater, WithinStays
<1>2. ASSUME \A v \in Workers : Held(v)' \subseteq Held(v) PROVE HeldInv'
  BY <1>1, <1>2 DEF HeldInv
<1>3. ASSUME NEW w \in Workers, NEW c \in Chats, NEW S \in copy[ServerOf[w]] \cup {box}, Start(w, c, S)
      PROVE  HeldInv'
  <2>1. /\ copy' = [copy EXCEPT ![ServerOf[w]] = {S}] /\ snap' = [snap EXCEPT ![w] = S]
        /\ UNCHANGED <<box, gone, todo, batch>>
    BY <1>3 DEF Start, SnapshotOf, mailVars
  <2>2. Held(w)' \subseteq Held(w) \cup S /\ \A v \in Workers \ {w} : Held(v)' \subseteq Held(v)
    BY <2>1 DEF Held, StoreTypeOK
  <2>3. Within(Held(w)', box', gone', copy'[ServerOf[w]])
    <3>1. S \subseteq box \cup gone
      BY DEF SnapInv
    <3>2. Held(w) \subseteq S \cup gone
      BY DEF HeldInv, Within
    <3>3. copy'[ServerOf[w]] = {S}
      BY <2>1 DEF StoreTypeOK
    <3> QED BY <2>1, <2>2, <3>1, <3>2, <3>3 DEF Within
  <2> QED BY <1>1, <2>2, <2>3 DEF HeldInv
<1>4. ASSUME NEW w \in Workers, JobStep(w), ~ \E c \in Chats, S \in copy[ServerOf[w]] \cup {box} : Start(w, c, S)
      PROVE  HeldInv'
  <2>1. ASSUME NEW v \in Workers \ {w} PROVE Held(v)' \subseteq Held(v)
    <3>1. snap'[v] = snap[v] /\ todo'[v] = todo[v] /\ batch'[v] = batch[v]
      BY <1>4 DEF StoreTypeOK, JobStep, Begin, Open, Announce, Since, BeginBatch, Put, Refused, Commit,
         SaveProgress, Finish, JobFails, RecordsError, TimesOut, Ends, jobLocals
    <3> QED BY <3>1 DEF Held
  <2>2. Held(w)' \subseteq Held(w)
    <3>1. CASE Begin(w) \/ Announce(w) \/ Refused(w) \/ SaveProgress(w) \/ Finish(w)
               \/ (\E g \in Guids, r \in RowIds : Put(w, g, r))
               \/ JobFails(w) \/ RecordsError(w) \/ TimesOut(w)
      <4>1. snap'[w] \subseteq snap[w] /\ todo'[w] \subseteq todo[w] /\ batch'[w] \subseteq batch[w]
        BY <3>1 DEF StoreTypeOK, Begin, Announce, Put, Refused, SaveProgress, Finish, JobFails,
                    RecordsError, TimesOut, Ends, jobLocals
      <4> QED BY <4>1 DEF Held
    <3>2. CASE Open(w) \/ Since(w) \/ Commit(w)
      BY <3>2 DEF StoreTypeOK, Open, Since, Commit, Held
    <3>3. ASSUME NEW B \in SUBSET todo[w], BeginBatch(w, B) PROVE Held(w)' \subseteq Held(w)
      BY <3>3 DEF StoreTypeOK, BeginBatch, Held
    <3> QED BY <1>4, <3>1, <3>2, <3>3 DEF JobStep
  <2> QED BY <1>2, <2>1, <2>2
<1>5. ASSUME NEW s \in Servers, Crash(s) PROVE HeldInv'
  <2>1. ASSUME NEW v \in Workers
        PROVE  snap'[v] \subseteq snap[v] /\ todo'[v] \subseteq todo[v] /\ batch'[v] \subseteq batch[v]
    BY <1>5 DEF StoreTypeOK, Crash
  <2> QED BY <1>2, <2>1 DEF Held
<1>6. CASE \/ \E g \in Guids : Arrive(g) \/ Vanish(g)
           \/ \E s \in Servers : \E S \in copy[s] \cup {box} : Reads(s, S)
           \/ UNCHANGED storeVars
  <2>1. UNCHANGED <<snap, todo, batch>>
    BY <1>6 DEF Arrive, Vanish, Reads, storeVars, jobLocals
  <2> QED BY <1>2, <2>1 DEF Held
<1> QED BY <1>3, <1>4, <1>5, <1>6 DEF JobStep, StoreNext

\* What a step of worker w adds to vectors.db is of a batch that w holds.
LEMMA EditsAreHeld ==
  ASSUME TodoInv, TxInv, EditInv, NEW w \in Workers, JobStep(w), NEW g \in Guids, db'.at[g] # db.at[g]
  PROVE  g \in batch[w]
<1>1. CASE Commit(w)
  <2>1. pc[w] = "write" /\ left[w] = {} /\ db' = view[ServerOf[w]] /\ batch[w] # {}
    BY <1>1 DEF Commit, TodoInv
  <2>2. ServerOf[w] \notin stale
    BY <2>1 DEF TxInv
  <2> QED BY <2>1, <2>2 DEF EditInv
<1>2. CASE ~Commit(w)
  BY <1>2 DEF JobStep, Start, Begin, Open, Announce, Since, BeginBatch, Put, Refused, SaveProgress,
              Finish, JobFails, RecordsError, TimesOut
<1> QED BY <1>1, <1>2

LEMMA KeptStep ==
  ASSUME StoreTypeOK, CallTypeOK, StoreInv, EditInv, HeldInv, KeptInv, [SearchNext]_searchVars
  PROVE  KeptInv'
<1> USE SearchAssumption DEF SearchAssumption
<1>0. [StoreNext]_storeVars
  BY SearchStepsTheStore
<1>1. ASSUME NEW k \in Callers, NEW X, Within(X, box, gone, copy[At[k]]), filed'[k] \subseteq X
      PROVE  Within(filed'[k], box', gone', copy'[At[k]])
  BY <1>0, <1>1, CopiesAreLater, WithinStays
<1>2. ASSUME filed' = filed PROVE KeptInv'
  BY <1>1, <1>2 DEF KeptInv
<1>3. ASSUME NEW w \in Workers, Works(w) PROVE KeptInv'
  <2>1. ASSUME NEW k \in Callers PROVE Within(filed'[k], box', gone', copy'[At[k]])
    <3>1. Within(filed[k], box, gone, copy[At[k]])
      BY DEF KeptInv
    <3>2. CASE At[k] = ServerOf[w]
      <4>1. filed'[k] \subseteq filed[k] \cup batch[w]
        BY <1>3, <3>2, EditsAreHeld DEF Works, StoreInv
      <4>2. Within(filed[k] \cup batch[w], box, gone, copy[At[k]])
        BY <3>1, <3>2 DEF Within, HeldInv, Held
      <4> QED BY <1>1, <4>1, <4>2
    <3>3. CASE At[k] # ServerOf[w]
      BY <1>1, <1>3, <3>1, <3>3 DEF Works
    <3> QED BY <3>2, <3>3
  <2> QED BY <2>1 DEF KeptInv
<1>4. CASE Mailbox \/ (\E s \in Servers : Dies(s)) \/ UNCHANGED searchVars
  BY <1>2, <1>4 DEF Mailbox, Dies, searchVars
<1>5. ASSUME NEW k \in Callers, \/ \E q \in Questions : Ask(k, q)
                                \/ Knn(k) \/ Return(k) \/ Raises(k) \/ \E S \in copy[At[k]] \cup {box} : Fetch(k, S)
      PROVE  KeptInv'
  BY <1>2, <1>5 DEF Ask, Knn, Return, Raises, Fetch
<1> QED BY <1>3, <1>4, <1>5 DEF SearchNext

\* A call is answered out of candidates only by the fetch that reads a snapshot.
LEMMA AnswersAreFetches ==
  ASSUME CallTypeOK, [SearchNext]_searchVars, NEW k \in Callers,
         stage[k] = "fetching", stage'[k] = "answered", scored[k] # {}
  PROVE  \E S \in copy[At[k]] \cup {box} : source'[k] = S /\ gone' = gone
<1>0. stage' # stage
  OBVIOUS
<1>1. ~(Mailbox \/ (\E w \in Workers : Works(w)) \/ UNCHANGED searchVars)
  <2>1. ~(UNCHANGED callVars)
    BY ONLY <1>0 DEF callVars
  <2> QED BY ONLY <2>1 DEF Mailbox, Works, searchVars
<1>2. ASSUME NEW s \in Servers, Dies(s) PROVE FALSE
  <2>1. stage' = [j \in Callers |-> IF At[j] = s THEN "idle" ELSE stage[j]]
    BY ONLY <1>2, SMTT(30) DEF Dies
  <2> QED BY <2>1
<1>3. ASSUME NEW j \in Callers, (\E q \in Questions : Ask(j, q)) \/ Knn(j) \/ Return(j) \/ Raises(j) PROVE FALSE
  BY <1>3 DEF Ask, Knn, Return, Raises, Leave, CallTypeOK
<1>4. ASSUME NEW j \in Callers, NEW S \in copy[At[j]] \cup {box}, Fetch(j, S)
      PROVE  j = k /\ source'[k] = S /\ gone' = gone
  <2>1. j = k
    <3>1. PICK H : Answers(j, H)
      BY <1>4 DEF Fetch, AnswersBest, AnswersUnread
    <3> QED BY <3>1 DEF Answers, CallTypeOK
  <2> QED BY <1>4, <2>1 DEF Fetch, Reads, mailVars, CallTypeOK
<1> QED BY <1>1, <1>2, <1>3, <1>4 DEF SearchNext

\* store_cache.py:45-65, tools.py:132-191.  The messages of an answer are read from a snapshot
\* that may be another than the one they were indexed from.  However the snapshots of a server
\* expire, and whatever other servers commit to vectors.db, a message that this server has
\* filed is in it or was deleted.
THEOREM OwnRowsTheorem == SearchSpec => OwnRowsAreFetched
<1> DEFINE Inv == EditInv /\ HeldInv /\ KeptInv
           Typed == StoreTypeOK /\ CallTypeOK /\ StoreInv
<1>1. SearchInit => Inv
  <2> SUFFICES ASSUME SearchInit PROVE Inv
    OBVIOUS
  <2>1. EditInv /\ HeldInv
    BY StoreAssumption DEF StoreAssumption, SearchInit, StoreInit, EditInv, HeldInv, Held, Within
  <2>2. KeptInv
    BY SearchAssumption DEF SearchAssumption, SearchInit, StoreInit, KeptInv, Within
  <2> QED BY <2>1, <2>2
<1>2. Typed /\ Inv /\ [SearchNext]_searchVars => Inv'
  <2> SUFFICES ASSUME Typed, Inv, [SearchNext]_searchVars PROVE Inv'
    OBVIOUS
  <2>1. EditInv' /\ HeldInv'
    BY SearchStepsTheStore, EditStep, HeldStep DEF StoreInv, CoverInv
  <2>2. KeptInv'
    BY KeptStep
  <2> QED BY <2>1, <2>2
<1>3. Typed /\ Inv /\ [SearchNext]_searchVars =>
        \A k \in Callers :
          stage[k] = "fetching" /\ stage'[k] = "answered" /\ scored[k] # {} =>
            \A g \in scored[k] \cap filed[k] : g \in source'[k] \cup gone
  <2> SUFFICES ASSUME Typed, Inv, [SearchNext]_searchVars, NEW k \in Callers,
                      stage[k] = "fetching", stage'[k] = "answered", scored[k] # {},
                      NEW g \in filed[k]
               PROVE  g \in source'[k] \cup gone
    OBVIOUS
  <2>1. PICK S \in copy[At[k]] \cup {box} : source'[k] = S
    BY AnswersAreFetches
  <2> QED BY <2>1 DEF KeptInv, Within
<1>4. SearchSpec => []Typed
  BY SearchIsAStore, TypeCorrect, StoreInvariant, CallsAreTyped, PTL
<1> QED
  <2> HIDE DEF Inv, Typed
  <2> QED BY <1>1, <1>2, <1>3, <1>4, PTL DEF SearchSpec, OwnRowsAreFetched
=============================================================================
