------------------------------ MODULE Indexer ------------------------------
(***************************************************************************)
(* The per-chat background indexer of the MCP server                       *)
(* (messages/imsg_mcp/indexer.py) together with the two stores it works    *)
(* between: the cached snapshot of chat.db (store_cache.py) it reads and   *)
(* the vector store (index.py) it writes, and the tool calls that submit a *)
(* chat, wait for its job and read the chat's status (tools.py).           *)
(*                                                                         *)
(* rows, state, indexed, total, watermark and lastError are the tables of  *)
(* vectors.db and survive the process; everything else of the process is   *)
(* lost when it dies.  One step of a job is one statement on a store.      *)
(***************************************************************************)
EXTENDS Naturals, Sequences, FiniteSets

CONSTANTS
  Msgs,        \* the rows of chat.db that MessageStore.messages can yield
  Chats,
  Jobs,        \* identities of futures; an identity nobody holds is used again
  Callers,     \* threads that run a tool call
  NoJob,
  ChatOf,      \* the chat of a message
  Date,        \* message.date of a message
  SentAt,      \* the same instant after apple_to_dt, isoformat and dt_to_apple_ns
  Text,        \* the messages with text once it is stripped
  Real,        \* the messages chat_summaries counts: no tapback, no group event
  Counted,     \* the messages message_count_for_chat counts: those with a text or a body
  Workers,     \* max_workers of the executor
  Batch,       \* BATCH
  WarmMin,     \* min_messages of warm_start
  WarmTop,     \* top_n of warm_start
  MaxFaults    \* bound: crashes, shutdowns and failures in a behaviour

ConstantsAssumption ==
  /\ IsFiniteSet(Msgs) /\ IsFiniteSet(Jobs) /\ NoJob \notin Jobs /\ Chats # {}
  /\ ChatOf \in [Msgs -> Chats]
  /\ Date \in [Msgs -> Nat \ {0}] /\ SentAt \in [Msgs -> Nat \ {0}]
  /\ \A m, n \in Msgs : Date[m] = Date[n] => SentAt[m] = SentAt[n]
  /\ Text \subseteq Msgs /\ Real \subseteq Msgs /\ Counted \subseteq Real
  /\ Workers \in Nat \ {0} /\ Batch \in Nat \ {0}
  /\ WarmMin \in Nat /\ WarmTop \in Nat /\ MaxFaults \in Nat

ASSUME ConstantsAssumption

VARIABLES
  arrived,    \* messages in chat.db
  late,       \* history: messages that a watermark may pass, Overtaken when they arrived
  cached,     \* {} or the singleton of the cached snapshot
  proc,       \* life of the server process
  warm,       \* chats warm_start has still to submit
  queue,      \* work queue of the executor
  inFlight,   \* the future _in_flight holds for a chat
  pc, chat, snap, todo, newest, count, size,    \* the jobs and their locals
  phase, asks, waitsOn,                         \* the tool calls
  rows, state, indexed, total, watermark, lastError,  \* vectors.db
  base,       \* history: the snapshot on which a chat's last indexing began
  faults      \* number of faults so far

mailVars == <<arrived, late>>
procVars == <<proc, warm>>
poolVars == <<queue, inFlight>>
jobLocals == <<snap, todo, newest, count, size>>
jobVars  == <<pc, chat, jobLocals>>
callVars == <<phase, asks, waitsOn>>
metaVars == <<state, indexed, total, watermark, lastError>>
vars == <<mailVars, cached, procVars, poolVars, jobVars, callVars, rows, metaVars, base, faults>>

\* what chat and asks hold while a future is done or a caller is idle
AnyChat == CHOOSE c \in Chats : TRUE

Running == {"start", "begin", "open", "announce", "since", "scan", "save"}
Active(j) == pc[j] \in Running \cup {"pending"}

Wanted_Textless(c, S) == {m \in S : ChatOf[m] = c}
\* the messages of chat c that a job over snapshot S has to index
Wanted(c, S) == {m \in S \cap Text : ChatOf[m] = c}

TypeOK ==
  /\ arrived \subseteq Msgs /\ late \subseteq arrived
  /\ cached \subseteq SUBSET Msgs
  /\ proc \in {"down", "warming", "up", "closed"} /\ warm \subseteq Chats
  /\ queue \in Seq(Jobs) /\ inFlight \in [Chats -> Jobs \cup {NoJob}]
  /\ pc \in [Jobs -> Running \cup {"pending", "done"}]
  /\ chat \in [Jobs -> Chats]
  /\ snap \in [Jobs -> SUBSET Msgs] /\ todo \in [Jobs -> SUBSET Text]
  /\ newest \in [Jobs -> Nat] /\ count \in [Jobs -> Nat] /\ size \in [Jobs -> Nat]
  /\ phase \in [Callers -> {"idle", "waiting", "reading"}]
  /\ asks \in [Callers -> Chats] /\ waitsOn \in [Callers -> Jobs \cup {NoJob}]
  /\ rows \subseteq Text
  /\ state \in [Chats -> {"absent", "indexing", "ready", "error"}]
  /\ indexed \in [Chats -> Nat] /\ total \in [Chats -> Nat]
  /\ watermark \in [Chats -> Nat]      \* 0 is NULL
  /\ lastError \in [Chats -> BOOLEAN]
  /\ base \in [Chats -> SUBSET Msgs]
  /\ faults \in Nat

Init ==
  /\ arrived = {} /\ late = {} /\ cached = {}
  /\ proc = "down" /\ warm = {}
  /\ queue = <<>> /\ inFlight = [c \in Chats |-> NoJob]
  /\ pc = [j \in Jobs |-> "done"] /\ chat = [j \in Jobs |-> AnyChat]
  /\ snap = [j \in Jobs |-> {}] /\ todo = [j \in Jobs |-> {}]
  /\ newest = [j \in Jobs |-> 0] /\ count = [j \in Jobs |-> 0] /\ size = [j \in Jobs |-> 0]
  /\ phase = [k \in Callers |-> "idle"] /\ asks = [k \in Callers |-> AnyChat]
  /\ waitsOn = [k \in Callers |-> NoJob]
  /\ rows = {} /\ state = [c \in Chats |-> "absent"]
  /\ indexed = [c \in Chats |-> 0] /\ total = [c \in Chats |-> 0]
  /\ watermark = [c \in Chats |-> 0] /\ lastError = [c \in Chats |-> FALSE]
  /\ base = [c \in Chats |-> {}]
  /\ faults = 0

Fault == faults < MaxFaults /\ faults' = faults + 1

-----------------------------------------------------------------------------
(* Messages.app: a message reaches chat.db.  iCloud may deliver it after     *)
(* messages that were sent later, and the instant a watermark keeps for a    *)
(* message may be rounded up past the next one, or past one of the same date. *)
Shadowed(m) ==
  \E k \in Text \ {m} : ChatOf[k] = ChatOf[m] /\ Date[k] <= Date[m] /\ Date[m] < SentAt[k]

Overtaken(m) == Shadowed(m) \/ \E k \in arrived : ChatOf[k] = ChatOf[m] /\ Date[m] < SentAt[k]

Arrive(m) ==
  /\ m \in Msgs \ arrived
  /\ arrived' = arrived \cup {m}
  /\ late' = IF Overtaken(m) THEN late \cup {m} ELSE late
  /\ UNCHANGED <<cached, procVars, poolVars, jobVars, callVars, rows, metaVars, base, faults>>

-----------------------------------------------------------------------------
(* The executor and the futures                                              *)

\* nobody holds the future j any more
Unused(j) ==
  /\ ~Active(j)
  /\ \A c \in Chats : inFlight[c] # j
  /\ \A k \in Callers : waitsOn[k] # j

\* submit finds the chat's future not done and returns it
Joins(c, j) == inFlight[c] = j /\ j # NoJob /\ Active(j)

\* the chat has no future, or its future is done
NoneInFlight_ForgetsRunning(c) == inFlight[c] # NoJob => pc[inFlight[c]] # "pending"
NoneInFlight(c) == inFlight[c] # NoJob => ~Active(inFlight[c])

\* submit hands a new job to the executor
Launches(c, j) ==
  /\ NoneInFlight(c)
  /\ proc \in {"warming", "up"}
  /\ Unused(j)
  /\ pc' = [pc EXCEPT ![j] = "pending"]
  /\ chat' = [chat EXCEPT ![j] = c]
  /\ queue' = Append(queue, j)
  /\ inFlight' = [inFlight EXCEPT ![c] = j]

\* the jobs that hold a worker
Occupying_Reserves == {j \in Jobs : pc[j] \in Running \cup {"pending"}}
Occupying == {j \in Jobs : pc[j] \in Running}

\* an idle worker takes the oldest job of the queue
Dispatch ==
  /\ queue # <<>> /\ pc[Head(queue)] = "pending"
  /\ Cardinality(Occupying) < Workers
  /\ pc' = [pc EXCEPT ![Head(queue)] = "start"]
  /\ queue' = Tail(queue)
  /\ UNCHANGED <<mailVars, cached, procVars, inFlight, chat, jobLocals, callVars, rows, metaVars,
                 base, faults>>

-----------------------------------------------------------------------------
(* A job, statement by statement                                             *)

\* the job returns or raises: its locals are gone, its future is done
Ends(j) ==
  /\ pc' = [pc EXCEPT ![j] = "done"]
  /\ snap' = [snap EXCEPT ![j] = {}] /\ todo' = [todo EXCEPT ![j] = {}]
  /\ newest' = [newest EXCEPT ![j] = 0] /\ count' = [count EXCEPT ![j] = 0]
  /\ size' = [size EXCEPT ![j] = 0]
  /\ chat' = [chat EXCEPT ![j] = AnyChat]

MarksError(c) ==
  /\ state' = [state EXCEPT ![c] = "error"] /\ lastError' = [lastError EXCEPT ![c] = TRUE]
  /\ UNCHANGED <<indexed, total, watermark>>

\* Cache.snapshot: the cached copy while its TTL lasts, else a new copy
SnapshotOf_NeverExpires(S) == S \in (IF cached = {} THEN {arrived} ELSE cached) /\ cached' = {S}
SnapshotOf(S) == S \in cached \cup {arrived} /\ cached' = {S}

TakeSnapshot(j, S) ==
  /\ pc[j] = "start" /\ SnapshotOf(S)
  /\ pc' = [pc EXCEPT ![j] = "begin"] /\ snap' = [snap EXCEPT ![j] = S]
  /\ UNCHANGED <<mailVars, procVars, poolVars, chat, todo, newest, count, size, callVars, rows,
                 metaVars, base, faults>>

SnapshotFails(j) ==
  /\ pc[j] = "start" /\ Fault
  /\ MarksError(chat[j]) /\ Ends(j)
  /\ UNCHANGED <<mailVars, cached, procVars, poolVars, callVars, rows, base>>

Begin(j) ==
  /\ pc[j] = "begin"
  /\ pc' = [pc EXCEPT ![j] = "open"]
  /\ state' = [state EXCEPT ![chat[j]] = "indexing"]
  /\ lastError' = [lastError EXCEPT ![chat[j]] = FALSE]
  /\ base' = [base EXCEPT ![chat[j]] = snap[j]]
  /\ UNCHANGED <<mailVars, cached, procVars, poolVars, chat, jobLocals, callVars, rows, indexed,
                 total, watermark, faults>>

\* message_guids_for_chat
AlreadyIndexed_Ignored(c) == {}
AlreadyIndexed(c) == {m \in rows : ChatOf[m] = c}

\* message_count_for_chat answers 0 when the snapshot's directory is already gone
Open(j) ==
  /\ pc[j] = "open"
  /\ pc' = [pc EXCEPT ![j] = "announce"]
  /\ \E n \in {0, Cardinality({m \in snap[j] \cap Counted : ChatOf[m] = chat[j]})} :
       size' = [size EXCEPT ![j] = n]
  /\ todo' = [todo EXCEPT ![j] = Wanted(chat[j], snap[j]) \ AlreadyIndexed(chat[j])]
  /\ count' = [count EXCEPT ![j] = Cardinality(AlreadyIndexed(chat[j]))]
  /\ UNCHANGED <<mailVars, cached, procVars, poolVars, chat, snap, newest, callVars, rows, metaVars,
                 base, faults>>

Announce(j) ==
  /\ pc[j] = "announce"
  /\ pc' = [pc EXCEPT ![j] = "since"]
  /\ indexed' = [indexed EXCEPT ![chat[j]] = count[j]]
  /\ total' = [total EXCEPT ![chat[j]] = size[j]]
  /\ UNCHANGED <<mailVars, cached, procVars, poolVars, chat, jobLocals, callVars, rows, state,
                 watermark, lastError, base, faults>>

\* the stream starts at the stored watermark, the message at it included
Streams_After(m, w) == Date[m] > w
Streams(m, w) == Date[m] >= w

\* newest_dt before the loop
NewestAtStart_None(c) == 0
NewestAtStart(c) == watermark[c]

Since(j) ==
  /\ pc[j] = "since"
  /\ pc' = [pc EXCEPT ![j] = "scan"]
  /\ newest' = [newest EXCEPT ![j] = NewestAtStart(chat[j])]
  /\ todo' = [todo EXCEPT ![j] = {m \in todo[j] : Streams(m, watermark[chat[j]])}]
  /\ UNCHANGED <<mailVars, cached, procVars, poolVars, chat, snap, count, size, callVars, rows,
                 metaVars, base, faults>>

\* B is a first part of the stream, which is in the order of the dates
Earliest(B, S) == \A m \in B, n \in S \ B : Date[m] <= Date[n]

\* embed the batch B and upsert its rows in one transaction
Flush(j, B) ==
  LET instants == {newest[j]} \cup {SentAt[m] : m \in B} IN
  /\ rows' = rows \cup B
  /\ todo' = [todo EXCEPT ![j] = todo[j] \ B]
  /\ count' = [count EXCEPT ![j] = count[j] + Cardinality(B)]
  /\ \E w \in instants :
       /\ \A x \in instants : x <= w
       /\ newest' = [newest EXCEPT ![j] = w]
  /\ UNCHANGED <<mailVars, cached, procVars, poolVars, chat, snap, size, callVars, metaVars, base,
                 faults>>

FlushBatch(j, B) ==
  /\ pc[j] = "scan" /\ Cardinality(B) = Batch /\ Earliest(B, todo[j])
  /\ Flush(j, B)
  /\ pc' = [pc EXCEPT ![j] = "save"]

SaveProgress(j) ==
  /\ pc[j] = "save"
  /\ pc' = [pc EXCEPT ![j] = "scan"]
  /\ indexed' = [indexed EXCEPT ![chat[j]] = count[j]]
  /\ watermark' = [watermark EXCEPT ![chat[j]] = newest[j]]
  /\ UNCHANGED <<mailVars, cached, procVars, poolVars, chat, jobLocals, callVars, rows, state, total,
                 lastError, base, faults>>

\* the last, incomplete batch
FlushRest(j) ==
  /\ pc[j] = "scan" /\ todo[j] # {} /\ Cardinality(todo[j]) < Batch
  /\ Flush(j, todo[j])
  /\ UNCHANGED pc

\* the loop is over and the last batch is flushed
Drained_KeepsLastBatch(j) == Cardinality(todo[j]) < Batch
Drained(j) == todo[j] = {}

Finish(j) ==
  /\ pc[j] = "scan" /\ Drained(j)
  /\ indexed' = [indexed EXCEPT ![chat[j]] = count[j]]
  /\ total' = [total EXCEPT ![chat[j]] = IF size[j] > count[j] THEN size[j] ELSE count[j]]
  /\ watermark' = [watermark EXCEPT ![chat[j]] = newest[j]]
  /\ state' = [state EXCEPT ![chat[j]] = "ready"]
  /\ lastError' = [lastError EXCEPT ![chat[j]] = FALSE]
  /\ Ends(j)
  /\ UNCHANGED <<mailVars, cached, procVars, poolVars, callVars, rows, base, faults>>

\* the snapshot, the model or the vector store raises and the error is recorded
JobFails(j) ==
  /\ pc[j] \in Running \ {"start", "begin"} /\ Fault
  /\ MarksError(chat[j]) /\ Ends(j)
  /\ UNCHANGED <<mailVars, cached, procVars, poolVars, callVars, rows, base>>

\* the vector store refuses the status row too, so nothing records the failure
JobFailsSilently(j) ==
  /\ pc[j] \in Running /\ Fault
  /\ Ends(j)
  /\ UNCHANGED <<mailVars, cached, procVars, poolVars, callVars, rows, metaVars, base>>

-----------------------------------------------------------------------------
(* A tool call: submit_and_wait, then the chat's status row                  *)

Call(k, c) ==
  /\ phase[k] = "idle" /\ proc \in {"up", "closed"}
  /\ \E j \in Jobs :
       /\ \/ Joins(c, j) /\ UNCHANGED <<poolVars, pc, chat>>
          \/ Launches(c, j)
       /\ waitsOn' = [waitsOn EXCEPT ![k] = j]
  /\ asks' = [asks EXCEPT ![k] = c]
  /\ phase' = [phase EXCEPT ![k] = "waiting"]
  /\ UNCHANGED <<mailVars, cached, procVars, jobLocals, rows, metaVars, base, faults>>

\* the future is done, or the wait timed out; either way the call goes on
StopWaiting(k) ==
  /\ phase[k] = "waiting"
  /\ phase' = [phase EXCEPT ![k] = "reading"]
  /\ waitsOn' = [waitsOn EXCEPT ![k] = NoJob]
  /\ UNCHANGED <<mailVars, cached, procVars, poolVars, jobVars, asks, rows, metaVars, base, faults>>

ReadStatus(k) ==
  /\ phase[k] = "reading"
  /\ phase' = [phase EXCEPT ![k] = "idle"]
  /\ asks' = [asks EXCEPT ![k] = AnyChat]
  /\ UNCHANGED <<mailVars, cached, procVars, poolVars, jobVars, waitsOn, rows, metaVars, base,
                 faults>>

-----------------------------------------------------------------------------
(* The process                                                               *)

RealIn(c, S) == {m \in S \cap Real : ChatOf[m] = c}

\* T are the WarmTop most recently active chats of S with WarmMin messages
MostRecent(T, S) ==
  LET eligible == {c \in Chats : RealIn(c, S) # {} /\ Cardinality(RealIn(c, S)) >= WarmMin}
  IN  /\ T \subseteq eligible
      /\ Cardinality(T) = WarmTop \/ (T = eligible /\ Cardinality(T) < WarmTop)
      /\ \A c \in T, d \in eligible \ T :
           \E m \in RealIn(c, S) : \A n \in RealIn(d, S) : Date[n] <= Date[m]

\* the server is imported: warm_start takes a snapshot, or gives up
Start ==
  /\ proc = "down"
  /\ proc' = "warming"
  /\ \/ SnapshotOf(arrived) /\ \E T \in SUBSET Chats : MostRecent(T, arrived) /\ warm' = T
     \/ warm' = {} /\ UNCHANGED cached
  /\ UNCHANGED <<mailVars, poolVars, jobVars, callVars, rows, metaVars, base, faults>>

WarmSubmit(c) ==
  /\ proc = "warming" /\ c \in warm
  /\ warm' = warm \ {c}
  /\ \E j \in Jobs : Launches(c, j)
  /\ UNCHANGED <<mailVars, cached, proc, jobLocals, callVars, rows, metaVars, base, faults>>

Serve ==
  /\ proc = "warming" /\ warm = {}
  /\ proc' = "up"
  /\ UNCHANGED <<mailVars, cached, warm, poolVars, jobVars, callVars, rows, metaVars, base, faults>>

\* Indexer.shutdown: what has not started is cancelled, what runs may finish
Shutdown ==
  /\ proc = "up" /\ Fault
  /\ proc' = "closed"
  /\ queue' = <<>>
  /\ pc' = [j \in Jobs |-> IF pc[j] = "pending" THEN "done" ELSE pc[j]]
  /\ chat' = [j \in Jobs |-> IF pc[j] = "pending" THEN AnyChat ELSE chat[j]]
  /\ UNCHANGED <<mailVars, cached, warm, inFlight, jobLocals, callVars, rows, metaVars, base>>

\* the process is gone: only vectors.db is left
Dies ==
  /\ proc' = "down" /\ warm' = {} /\ cached' = {}
  /\ queue' = <<>> /\ inFlight' = [c \in Chats |-> NoJob]
  /\ pc' = [j \in Jobs |-> "done"] /\ chat' = [j \in Jobs |-> AnyChat]
  /\ snap' = [j \in Jobs |-> {}] /\ todo' = [j \in Jobs |-> {}]
  /\ newest' = [j \in Jobs |-> 0] /\ count' = [j \in Jobs |-> 0] /\ size' = [j \in Jobs |-> 0]
  /\ phase' = [k \in Callers |-> "idle"] /\ waitsOn' = [k \in Callers |-> NoJob]
  /\ asks' = [k \in Callers |-> AnyChat]
  /\ UNCHANGED <<mailVars, rows, metaVars, base>>

Exit == proc = "closed" /\ (\A j \in Jobs : ~Active(j)) /\ Dies /\ UNCHANGED faults
Crash == proc # "down" /\ Fault /\ Dies

-----------------------------------------------------------------------------
JobStep(j) ==
  \/ \E S \in SUBSET Msgs : TakeSnapshot(j, S)
  \/ Begin(j) \/ Open(j) \/ Announce(j) \/ Since(j)
  \/ \E B \in SUBSET todo[j] : FlushBatch(j, B)
  \/ SaveProgress(j) \/ FlushRest(j) \/ Finish(j)

Next ==
  \/ \E m \in Msgs : Arrive(m)
  \/ Dispatch
  \/ \E j \in Jobs : JobStep(j) \/ SnapshotFails(j) \/ JobFails(j) \/ JobFailsSilently(j)
  \/ \E k \in Callers : (\E c \in Chats : Call(k, c)) \/ StopWaiting(k) \/ ReadStatus(k)
  \/ Start \/ (\E c \in Chats : WarmSubmit(c)) \/ Serve
  \/ Shutdown \/ Exit \/ Crash

Spec == Init /\ [][Next]_vars

\* The executor runs what is submitted, the waits are bounded, the server is
\* started again by its supervisor; a TTL expires again and again.  Nothing is
\* said of Messages.app, of the client or of faults.
Fairness ==
  /\ WF_vars(Start) /\ WF_vars(Serve) /\ WF_vars(Exit) /\ WF_vars(Dispatch)
  /\ \A c \in Chats : WF_vars(WarmSubmit(c))
  /\ \A j \in Jobs : WF_vars(JobStep(j))
  /\ \A k \in Callers : WF_vars(StopWaiting(k)) /\ WF_vars(ReadStatus(k))
  /\ SF_vars(\E j \in Jobs : TakeSnapshot(j, arrived))

FairSpec == Spec /\ Fairness

-----------------------------------------------------------------------------
(* Properties                                                                *)

\* indexer.py:111-143.  A later job starts at the watermark, so no message
\* before it may be missing from the index: whatever failed, crashed or arrived
\* in between, only a message that arrived behind a later one, or that the
\* rounding of another one's instant overtakes, can be lost.
Covered ==
  \A c \in Chats, m \in (arrived \ late) \cap Text :
    ChatOf[m] = c /\ Date[m] < watermark[c] => m \in rows

\* indexer.py:3, "one worker per chat at a time, up to N workers total": the
\* future _in_flight holds for a chat is its only unfinished job.
OneJobPerChat ==
  /\ \A i, j \in Jobs : Active(i) /\ Active(j) /\ chat[i] = chat[j] => i = j
  /\ Cardinality(Occupying) <= Workers

\* tools.py:268-284 report indexed_messages, a number each job counts up on its
\* own from the rows it found: once the chat is ready it is the number of rows,
\* after failed jobs and restarts too, and indexed_pct is at most 1.
ReadyCountsRows ==
  \A c \in Chats : state[c] = "ready" =>
    /\ indexed[c] = Cardinality({m \in rows : ChatOf[m] = c})
    /\ indexed[c] <= total[c]

\* indexer.py:133-152, index.py:85-124.  No step, not even that of a failed or
\* restarted job, takes a row out of the index or moves a watermark back.
ProgressIsKept ==
  [][rows \subseteq rows' /\ \A c \in Chats : watermark[c] <= watermark'[c]]_vars

\* indexer.py:44-60.  A submitted job runs and its future is done, whatever
\* the other jobs do: a job that raises gives its worker back.
JobsFinish == \A j \in Jobs : pc[j] = "pending" ~> ~Active(j)

\* the client asks for every chat again and again
ClientAsks == \A c \in Chats : SF_vars(\E k \in Callers : Call(k, c))

\* indexer.py:111-143.  With a client that keeps asking and finitely many
\* faults, every message with text that is not late reaches the index.
EventuallyIndexed ==
  ClientAsks => \A m \in Text : m \in arrived ~> m \in rows \cup late

Promise == INSTANCE ChatIndex WITH
  Msgs <- Msgs, Chats <- Chats, ChatOf <- ChatOf, SentAt <- SentAt, Date <- Date, Text <- Text,
  arrived <- arrived, late <- late, rows <- rows, state <- state, base <- base

\* What the client relies on, stated without jobs, batches, watermarks and
\* counters (ChatIndex.tla): a chat is declared ready only when every message
\* of the snapshot its indexing began with is in the index, or is late.
KeepsPromise == Promise!Spec
-----------------------------------------------------------------------------
(* The inductive invariant behind OneJobPerChat, Covered and ProgressIsKept  *)

\* an unfinished job is the one its chat's entry of _in_flight names
JobInv == \A j \in Jobs : Active(j) => inFlight[chat[j]] = j

\* whatever arrives after the snapshot S and is not late is behind all of S
InOrderAfter(S) ==
  \A k \in S, m \in arrived \ (late \cup S) : ChatOf[k] = ChatOf[m] => SentAt[k] <= Date[m]

\* no other instant of the chat is rounded past a message that is not late
LateInv == \A m \in arrived \ late : ~Shadowed(m)

SnapInv ==
  /\ \A S \in cached : S \subseteq arrived /\ InOrderAfter(S)
  /\ \A j \in Jobs : /\ snap[j] \subseteq arrived /\ InOrderAfter(snap[j])
                     /\ todo[j] \subseteq Wanted(chat[j], snap[j])
                     /\ pc[j] \in {"pending", "start", "done"} => todo[j] = {}

\* w is NULL or the instant kept for some message of c
IsInstantOf(c, w) == w # 0 => \E k \in arrived : ChatOf[k] = c /\ SentAt[k] = w

IndexedBefore(c, w) ==
  \A m \in (arrived \ late) \cap Text : ChatOf[m] = c /\ Date[m] < w => m \in rows

\* from Open on, todo is what the job's snapshot still lacks in the index, save
\* for late messages that are before the watermark
CoverInv ==
  /\ \A c \in Chats : IsInstantOf(c, watermark[c]) /\ IndexedBefore(c, watermark[c])
  /\ \A j \in Jobs :
       /\ pc[j] \in {"announce", "since", "scan", "save"} =>
            Wanted(chat[j], snap[j]) \ late \subseteq rows \cup todo[j]
       /\ pc[j] \in {"scan", "save"} =>
            /\ IsInstantOf(chat[j], newest[j]) /\ IndexedBefore(chat[j], newest[j])
            /\ watermark[chat[j]] <= newest[j]

IInv == TypeOK /\ JobInv /\ LateInv /\ SnapInv /\ CoverInv
=============================================================================
