---------------------------- MODULE VectorStore ----------------------------
(***************************************************************************)
(* vectors.db (messages/imsg_mcp/index.py) under the indexing jobs of the  *)
(* servers that share it.  A second server is one started beside the       *)
(* first: its warm start indexes chats even when its port is taken.        *)
(*                                                                         *)
(* A server has one connection, which its threads use under one lock.      *)
(* SQLite in WAL mode gives a transaction the database as of its first     *)
(* statement, lets one connection write at a time, and refuses the first   *)
(* write of a transaction at once when another connection writes or has    *)
(* written since.  A refused or failed batch is rolled back and ends its   *)
(* job.  A status row is a statement of its own, which waits some seconds  *)
(* for the writer and then raises.                                         *)
(*                                                                         *)
(* The jobs are those of Indexer; their queue, late messages, rounding and *)
(* total_messages are left to it.  Here a message may sit in two chats and *)
(* may be deleted.                                                         *)
(***************************************************************************)
EXTENDS Naturals, FiniteSets

CONSTANTS
  Guids, NoGuid,      \* messages with text
  Chats, NoChat,
  InChats,            \* the chats of a message: rows of chat_message_join
  Date,
  Servers, NoServer,
  Workers, NoThread,
  ServerOf,           \* the server of a worker
  RowIds, NoRowId,    \* rowids of vec_index
  Batch,              \* BATCH
  Early, Deletable,   \* bounds: messages that are there at first, and that may be deleted
  MaxJobs,            \* bound: jobs in a behaviour
  MaxFaults           \* bound: failures by themselves, and crashes

StoreAssumption ==
  /\ IsFiniteSet(Guids) /\ NoGuid \notin Guids
  /\ Chats # {} /\ NoChat \notin Chats /\ NoServer \notin Servers /\ NoThread \notin Workers
  /\ NoRowId \notin RowIds
  /\ InChats \in [Guids -> SUBSET Chats] /\ Date \in [Guids -> Nat \ {0}]
  /\ ServerOf \in [Workers -> Servers]
  /\ Early \subseteq Guids /\ Deletable \subseteq Guids
  /\ Batch \in Nat \ {0} /\ MaxJobs \in Nat /\ MaxFaults \in Nat

ASSUME StoreAssumption

VARIABLES
  box, gone,    \* messages in chat.db, and deleted from it
  copy,         \* {} or the singleton of the snapshot a server has cached
  db,           \* the committed tables messages and vec_index
  meta,         \* the table chat_meta
  mutex,        \* the thread that is in a transaction under a server's _lock
  view,         \* the tables as a server's open transaction sees them
  stale,        \* servers whose transaction is behind the committed database
  writer,       \* the server that holds SQLite's write lock
  pc, chat, snap, todo, newest, count, batch, left,   \* the workers' jobs
  jobs, faults

mailVars == <<box, gone>>
lockVars == <<mutex, view, stale, writer>>
jobLocals == <<chat, snap, todo, newest, count, batch, left>>
storeVars == <<mailVars, copy, db, meta, lockVars, pc, jobLocals, jobs, faults>>

Database == [filed : [Guids -> Chats \cup {NoChat}],
             at    : [Guids -> RowIds \cup {NoRowId}],
             vec   : [RowIds -> Guids \cup {NoGuid}]]

Statuses == [indexed : Nat, mark : Nat, state : {"absent", "indexing", "ready", "error"}]

EmptyDatabase == [filed |-> [g \in Guids |-> NoChat],
                  at    |-> [g \in Guids |-> NoRowId],
                  vec   |-> [r \in RowIds |-> NoGuid]]

AnyChat == CHOOSE c \in Chats : TRUE

Waiting == {"begin", "announce", "save", "error"}     \* about to write a status row
Active == Waiting \cup {"open", "since", "scan", "write"}

StoreTypeOK ==
  /\ box \subseteq Guids /\ gone \subseteq Guids /\ copy \in [Servers -> SUBSET SUBSET Guids]
  /\ db \in Database /\ meta \in [Chats -> Statuses]
  /\ mutex \in [Servers -> Workers \cup {NoThread}] /\ view \in [Servers -> Database]
  /\ stale \subseteq Servers /\ writer \in Servers \cup {NoServer}
  /\ pc \in [Workers -> Active \cup {"idle"}] /\ chat \in [Workers -> Chats]
  /\ snap \in [Workers -> SUBSET Guids] /\ todo \in [Workers -> SUBSET Guids]
  /\ newest \in [Workers -> Nat] /\ count \in [Workers -> Nat]
  /\ batch \in [Workers -> SUBSET Guids] /\ left \in [Workers -> SUBSET Guids]
  /\ jobs \in Nat /\ faults \in Nat

StoreInit ==
  /\ box = Early /\ gone = {} /\ copy = [s \in Servers |-> {}]
  /\ db = EmptyDatabase
  /\ meta = [c \in Chats |-> [indexed |-> 0, mark |-> 0, state |-> "absent"]]
  /\ mutex = [s \in Servers |-> NoThread] /\ view = [s \in Servers |-> EmptyDatabase]
  /\ stale = {} /\ writer = NoServer
  /\ pc = [w \in Workers |-> "idle"] /\ chat = [w \in Workers |-> AnyChat]
  /\ snap = [w \in Workers |-> {}] /\ todo = [w \in Workers |-> {}]
  /\ newest = [w \in Workers |-> 0] /\ count = [w \in Workers |-> 0]
  /\ batch = [w \in Workers |-> {}] /\ left = [w \in Workers |-> {}]
  /\ jobs = 0 /\ faults = 0

Fault == faults < MaxFaults /\ faults' = faults + 1

-----------------------------------------------------------------------------
(* chat.db and its snapshots                                                 *)

Arrive(g) ==
  /\ g \in Guids \ (box \cup gone) /\ \A k \in box \cup gone : Date[k] <= Date[g]
  /\ box' = box \cup {g}
  /\ UNCHANGED <<gone, copy, db, meta, lockVars, pc, jobLocals, jobs, faults>>

Vanish(g) ==
  /\ g \in box \cap Deletable
  /\ box' = box \ {g} /\ gone' = gone \cup {g}
  /\ UNCHANGED <<copy, db, meta, lockVars, pc, jobLocals, jobs, faults>>

\* Cache.snapshot of a server: its copy while the TTL lasts, else a new one
SnapshotOf_KeepsFirst(s, S) ==
  S \in copy[s] \cup {box} /\ copy' = IF copy[s] = {} THEN [copy EXCEPT ![s] = {S}] ELSE copy
SnapshotOf(s, S) == S \in copy[s] \cup {box} /\ copy' = [copy EXCEPT ![s] = {S}]

\* a tool of the server takes it
Reads(s, S) ==
  /\ SnapshotOf(s, S)
  /\ UNCHANGED <<mailVars, db, meta, lockVars, pc, jobLocals, jobs, faults>>

-----------------------------------------------------------------------------
(* The connections                                                           *)

Free(s) == mutex[s] = NoThread

\* the servers whose open transaction a commit by s leaves behind
LeftBehind(s) == {t \in Servers \ {s} : ~Free(t)}

\* one INSERT ... ON CONFLICT statement on chat_meta
WritesStatus(s, c, status) ==
  /\ Free(s) /\ writer = NoServer
  /\ meta' = [meta EXCEPT ![c] = status]
  /\ stale' = stale \cup LeftBehind(s)
  /\ UNCHANGED <<mutex, view, writer>>

\* the transaction of s may write: it has the write lock, or can have it
MayWrite_Blindly(s) == writer \in {s, NoServer}
MayWrite(s) == writer = s \/ (writer = NoServer /\ s \notin stale)

\* the transaction of s ends, with COMMIT or ROLLBACK
Closes(s) ==
  /\ mutex' = [mutex EXCEPT ![s] = NoThread]
  /\ view' = [view EXCEPT ![s] = EmptyDatabase]
  /\ writer' = IF writer = s THEN NoServer ELSE writer

\* the tables d after one row of a batch: the old vector is deleted, a new one
\* inserted at rowid r, and the row inserted or moved
Upserted_KeepsVector(d, g, c, r) ==
  [filed |-> [d.filed EXCEPT ![g] = c], at |-> [d.at EXCEPT ![g] = r],
   vec   |-> [d.vec EXCEPT ![r] = g]]

Upserted(d, g, c, r) ==
  [filed |-> [d.filed EXCEPT ![g] = c],
   at    |-> [d.at EXCEPT ![g] = r],
   vec   |-> [i \in RowIds |-> IF i = r THEN g ELSE IF i = d.at[g] THEN NoGuid ELSE d.vec[i]]]

-----------------------------------------------------------------------------
(* A job, statement by statement                                             *)

Ends(w) ==
  /\ pc' = [pc EXCEPT ![w] = "idle"] /\ chat' = [chat EXCEPT ![w] = AnyChat]
  /\ snap' = [snap EXCEPT ![w] = {}] /\ todo' = [todo EXCEPT ![w] = {}]
  /\ newest' = [newest EXCEPT ![w] = 0] /\ count' = [count EXCEPT ![w] = 0]
  /\ batch' = [batch EXCEPT ![w] = {}] /\ left' = [left EXCEPT ![w] = {}]

\* a server has one job per chat (Indexer's OneJobPerChat); two servers may have two
Start(w, c, S) ==
  /\ pc[w] = "idle" /\ jobs < MaxJobs /\ jobs' = jobs + 1
  /\ \A v \in Workers : ServerOf[v] = ServerOf[w] /\ pc[v] # "idle" => chat[v] # c
  /\ SnapshotOf(ServerOf[w], S)
  /\ pc' = [pc EXCEPT ![w] = "begin"]
  /\ chat' = [chat EXCEPT ![w] = c] /\ snap' = [snap EXCEPT ![w] = S]
  /\ UNCHANGED <<mailVars, db, meta, lockVars, todo, newest, count, batch, left, faults>>

Begin(w) ==
  /\ pc[w] = "begin"
  /\ WritesStatus(ServerOf[w], chat[w], [meta[chat[w]] EXCEPT !.state = "indexing"])
  /\ pc' = [pc EXCEPT ![w] = "open"]
  /\ UNCHANGED <<mailVars, copy, db, jobLocals, jobs, faults>>

\* message_guids_for_chat, and with it what the stream holds for the job
RowsOf_AnyChat(c) == {g \in Guids : db.filed[g] # NoChat}
RowsOf(c) == {g \in Guids : db.filed[g] = c}

Open(w) ==
  /\ pc[w] = "open" /\ Free(ServerOf[w])
  /\ pc' = [pc EXCEPT ![w] = "announce"]
  /\ todo' = [todo EXCEPT ![w] = {g \in snap[w] : chat[w] \in InChats[g]} \ RowsOf(chat[w])]
  /\ count' = [count EXCEPT ![w] = Cardinality(RowsOf(chat[w]))]
  /\ snap' = [snap EXCEPT ![w] = {}]
  /\ UNCHANGED <<mailVars, copy, db, meta, lockVars, chat, newest, batch, left, jobs, faults>>

Announce(w) ==
  /\ pc[w] = "announce"
  /\ WritesStatus(ServerOf[w], chat[w], [meta[chat[w]] EXCEPT !.indexed = count[w]])
  /\ pc' = [pc EXCEPT ![w] = "since"]
  /\ UNCHANGED <<mailVars, copy, db, jobLocals, jobs, faults>>

Since(w) ==
  /\ pc[w] = "since" /\ Free(ServerOf[w])
  /\ pc' = [pc EXCEPT ![w] = "scan"]
  /\ newest' = [newest EXCEPT ![w] = meta[chat[w]].mark]
  /\ todo' = [todo EXCEPT ![w] = {g \in todo[w] : Date[g] >= meta[chat[w]].mark}]
  /\ UNCHANGED <<mailVars, copy, db, meta, lockVars, chat, snap, count, batch, left, jobs, faults>>

\* the next batch of the stream S: BATCH messages, the earliest, or the rest
NextBatch_Unordered(B, S) ==
  /\ B # {} /\ B \subseteq S
  /\ Cardinality(B) = Batch \/ (Cardinality(B) < Batch /\ B = S)

NextBatch(B, S) ==
  /\ B # {} /\ B \subseteq S /\ \A g \in B, k \in S \ B : Date[g] <= Date[k]
  /\ Cardinality(B) = Batch \/ (Cardinality(B) < Batch /\ B = S)

\* upsert_batch: BEGIN, and the first SELECT, which fixes what the transaction sees
BeginBatch(w, B) ==
  LET s == ServerOf[w] IN
  /\ pc[w] = "scan" /\ Free(s) /\ NextBatch(B, todo[w])
  /\ pc' = [pc EXCEPT ![w] = "write"]
  /\ mutex' = [mutex EXCEPT ![s] = w] /\ view' = [view EXCEPT ![s] = db]
  /\ stale' = stale \ {s}
  /\ batch' = [batch EXCEPT ![w] = B] /\ left' = [left EXCEPT ![w] = B]
  /\ UNCHANGED <<mailVars, copy, db, meta, writer, chat, snap, todo, newest, count, jobs, faults>>

Put(w, g, r) ==
  LET s == ServerOf[w] IN
  /\ pc[w] = "write" /\ g \in left[w] /\ MayWrite(s)
  /\ view[s].vec[r] = NoGuid
  /\ view' = [view EXCEPT ![s] = Upserted(view[s], g, chat[w], r)]
  /\ writer' = s
  /\ left' = [left EXCEPT ![w] = left[w] \ {g}]
  /\ UNCHANGED <<mailVars, copy, db, meta, mutex, stale, pc, chat, snap, todo, newest, count,
                 batch, jobs, faults>>

\* another connection writes, or has written since the transaction began
Refused(w) ==
  /\ pc[w] = "write" /\ left[w] # {} /\ ~MayWrite(ServerOf[w])
  /\ Closes(ServerOf[w]) /\ stale' = stale \ {ServerOf[w]}
  /\ pc' = [pc EXCEPT ![w] = "error"]
  /\ UNCHANGED <<mailVars, copy, db, meta, jobLocals, jobs, faults>>

Commit(w) ==
  LET s == ServerOf[w]
      instants == {newest[w]} \cup {Date[g] : g \in batch[w]} IN
  /\ pc[w] = "write" /\ left[w] = {}
  /\ db' = view[s]
  /\ Closes(s) /\ stale' = (stale \ {s}) \cup LeftBehind(s)
  /\ todo' = [todo EXCEPT ![w] = todo[w] \ batch[w]]
  /\ count' = [count EXCEPT ![w] = count[w] + Cardinality(batch[w])]
  /\ \E n \in instants :
       (\A x \in instants : x <= n) /\ newest' = [newest EXCEPT ![w] = n]
  /\ batch' = [batch EXCEPT ![w] = {}]
  /\ pc' = [pc EXCEPT ![w] = IF Cardinality(batch[w]) = Batch THEN "save" ELSE "scan"]
  /\ UNCHANGED <<mailVars, copy, meta, chat, snap, left, jobs, faults>>

SaveProgress(w) ==
  /\ pc[w] = "save"
  /\ WritesStatus(ServerOf[w], chat[w],
                  [meta[chat[w]] EXCEPT !.indexed = count[w], !.mark = newest[w]])
  /\ pc' = [pc EXCEPT ![w] = "scan"]
  /\ UNCHANGED <<mailVars, copy, db, jobLocals, jobs, faults>>

Drained(w) == pc[w] = "scan" /\ todo[w] = {}

Finish(w) ==
  /\ Drained(w)
  /\ WritesStatus(ServerOf[w], chat[w],
                  [indexed |-> count[w], mark |-> newest[w], state |-> "ready"])
  /\ Ends(w)
  /\ UNCHANGED <<mailVars, copy, db, jobs, faults>>

\* a statement, the model or the snapshot raises; a transaction is rolled back
JobFails(w) ==
  LET s == ServerOf[w] IN
  /\ pc[w] \in Active \ {"begin", "error"} /\ Fault
  /\ IF mutex[s] = w THEN Closes(s) /\ stale' = stale \ {s} ELSE UNCHANGED lockVars
  /\ pc' = [pc EXCEPT ![w] = "error"]
  /\ UNCHANGED <<mailVars, copy, db, meta, jobLocals, jobs>>

RecordsError(w) ==
  /\ pc[w] = "error"
  /\ WritesStatus(ServerOf[w], chat[w], [meta[chat[w]] EXCEPT !.state = "error"])
  /\ Ends(w)
  /\ UNCHANGED <<mailVars, copy, db, jobs, faults>>

\* the wait for another server's write lock is over: "database is locked"
TimesOut(w) ==
  /\ pc[w] \in Waiting \/ Drained(w)
  /\ Free(ServerOf[w]) /\ writer # NoServer
  /\ IF pc[w] \in {"begin", "error"}
       THEN Ends(w)
       ELSE pc' = [pc EXCEPT ![w] = "error"] /\ UNCHANGED jobLocals
  /\ UNCHANGED <<mailVars, copy, db, meta, lockVars, jobs, faults>>

\* a server dies: its transaction is gone, and with it its jobs and its cache
Crash(s) ==
  LET here == {w \in Workers : ServerOf[w] = s} IN
  /\ Fault
  /\ Closes(s) /\ stale' = stale \ {s}
  /\ copy' = [copy EXCEPT ![s] = {}]
  /\ pc' = [w \in Workers |-> IF w \in here THEN "idle" ELSE pc[w]]
  /\ chat' = [w \in Workers |-> IF w \in here THEN AnyChat ELSE chat[w]]
  /\ snap' = [w \in Workers |-> IF w \in here THEN {} ELSE snap[w]]
  /\ todo' = [w \in Workers |-> IF w \in here THEN {} ELSE todo[w]]
  /\ newest' = [w \in Workers |-> IF w \in here THEN 0 ELSE newest[w]]
  /\ count' = [w \in Workers |-> IF w \in here THEN 0 ELSE count[w]]
  /\ batch' = [w \in Workers |-> IF w \in here THEN {} ELSE batch[w]]
  /\ left' = [w \in Workers |-> IF w \in here THEN {} ELSE left[w]]
  /\ UNCHANGED <<mailVars, db, meta, jobs>>

JobStep(w) ==
  \/ \E c \in Chats, S \in copy[ServerOf[w]] \cup {box} : Start(w, c, S)
  \/ Begin(w) \/ Open(w) \/ Announce(w) \/ Since(w)
  \/ \E B \in SUBSET todo[w] : BeginBatch(w, B)
  \/ \E g \in Guids, r \in RowIds : Put(w, g, r)
  \/ Refused(w) \/ Commit(w) \/ SaveProgress(w) \/ Finish(w)
  \/ JobFails(w) \/ RecordsError(w) \/ TimesOut(w)

StoreNext ==
  \/ \E g \in Guids : Arrive(g) \/ Vanish(g)
  \/ \E w \in Workers : JobStep(w)
  \/ \E s \in Servers : Crash(s) \/ \E S \in copy[s] \cup {box} : Reads(s, S)

StoreSpec == StoreInit /\ [][StoreNext]_storeVars

-----------------------------------------------------------------------------
(* Properties                                                                *)

\* A row's rowid is that of its message's vector, and no vector is without its row.
Agree(d) ==
  /\ \A g \in Guids : (d.filed[g] = NoChat) = (d.at[g] = NoRowId)
  /\ \A g \in Guids : d.at[g] # NoRowId => d.vec[d.at[g]] = g
  /\ \A r \in RowIds : d.vec[r] # NoGuid => d.at[d.vec[r]] = r

\* messages and vec_index agree in the database and in every open transaction, whatever
\* two servers write, however a batch is refused or rolled back, and across crashes: the
\* join of knn finds a message by its own vector, and none of the k nearest is a leftover
\* (upsert_batch).
TablesAgree == Agree(db) /\ \A s \in Servers : ~Free(s) => Agree(view[s])

\* The number of indexed messages a status reports is never more than the messages of the
\* chat that are indexed, also while two servers index it; a message that is in two chats
\* may be indexed under the other (upsert_batch, upsert_chat_meta).
NeverOverstated ==
  \A c \in Chats :
    meta[c].indexed <= Cardinality({g \in Guids : c \in InChats[g] /\ db.filed[g] # NoChat})

\* However the jobs of two servers interleave on one chat, and whosever watermark is the last
\* one written, no message that is still in chat.db and in this chat only is missing before
\* it: the next job, which starts there, skips nothing ("can't clobber each other").
WatermarksCover ==
  \A g \in box, c \in Chats :
    InChats[g] = {c} /\ Date[g] < meta[c].mark => db.filed[g] = c

Rows == INSTANCE RowStore WITH filed <- db.filed, status <- meta

\* The tables under transactions, locks and refusals implement RowStore.
ImplementsRowStore == Rows!Spec
=============================================================================
