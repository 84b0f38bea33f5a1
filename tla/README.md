# iContext in TLA+

iContext lets a person ask questions about their iMessage history through a Telegram bot. It
consists of two programs. `messages/` is a Python package on the Mac: it copies `chat.db`, embeds
messages, keeps a resumable vector index per chat, serves both over MCP and, in production,
publishes the vectors to a cloud Postgres. `ghostwriter/` is a Spring Boot service: it takes Telegram
webhooks, answers through a semantic cache or an LLM with search tools, stores the exchange and
sends the reply, over two Kafka topics in development and over a small thread pool in production.

This directory holds the specifications of the parts of both where interleavings, crashes, retries
and resumption decide whether the program is right.

## 1. Inventory

| Component | Source | State | Operations | What makes it correct |
|---|---|---|---|---|
| Indexer | `imsg_mcp/indexer.py` | `_in_flight`, executor queue, locals of the running jobs | `submit`, `submit_and_wait`, `warm_start`, `shutdown`, `_run_job`, `_flush` | one job per chat; at most N run; a job that fails or dies is resumed without a gap |
| Vector store | `imsg_mcp/index.py` | `messages`, `vec_index`, `chat_meta` in `vectors.db` | `upsert_batch`, `upsert_chat_meta`, `knn`, guids of a chat | rows and vectors agree, and rows and watermark although they are written by different transactions, of two servers too |
| Snapshot copy | `imsg/db.py` | the files of the destination directory | `safe_copy_chatdb` | the copy is a state `chat.db` was in, with all that was committed before |
| Snapshot cache | `imsg_mcp/store_cache.py` | cached path, time taken, directories in `/tmp`, timers | `snapshot`, `store`, clean-up timer | a reader's files stay; what it reads is recent |
| MCP tools | `imsg_mcp/tools.py`, `server.py` | none of their own | `semantic_search_messages`, `index_chat`, `index_status`, `list_chats`, `find_contacts` | the status row a call reports is about rows that exist; hits are the nearest ones of the chat; the chat a caller means is the best match |
| Snapshot queries, message store | `imsg_mcp/snapshot_queries.py`, `imsg/queries.py`, `imsg/models.py` | a read-only connection | streams, counts, summaries, bulk fetch | the counts and the stream agree on what a message is |
| Decoder, contacts, time | `imsg/decoder.py`, `contacts.py`, `time_utils.py`, `constants.py` | none | pure conversions | phone numbers normalise consistently; instants survive the round trip |
| Embeddings | `imsg_mcp/embeddings.py` | the model, loaded once | `embed`, `warmup` | loaded before any worker needs it |
| Publisher | `imsg_mcp/push.py` | rows of `MessageVector` in Postgres; locals of a run | `push_all`, `push_chat`, upsert, commit, rollback | incremental and idempotent; one chat's failure does not stop the others; no gap |
| Cloud search | `common/service/search`, `common/db/repos/vector` | reads `MessageVector` | `searchMessages`, `latestSyncedAt` | hits and an honest freshness note |
| Conversation | `common/service/agent/ConversationService`, `cache`, `llm`, `repos/message` | tables `QuestionCache` and `Message`; a turn's locals | lookup, generate, store, persist | a reply is persisted before it is sent; a cached answer is the user's own |
| Kafka pipeline (dev) | `kafka/*`, `AgentService`, `KafkaMessageIntake` | topics `task` and `reply`, offsets, retry count | webhook, consume, retry or give up, send, commit | each message answered, retries bounded and never duplicating a reply |
| Inline intake (prod) | `InlineMessageIntake` | queue and two threads | `accept`, the task, `shutdown` | a failed turn is logged and dropped, never repeated |
| Telegram delivery | `TelegramService` | none | HTML, then plain text | a reply is delivered although its markup is broken |

### How the parts interact

- A tool call (`tools.py`) resolves a chat, submits it to the indexer, waits for the future a while
  and then reads the chat's row in `chat_meta`. The job runs on a worker thread: it reads a cached
  snapshot of `chat.db` and writes rows and watermark to `vectors.db`. The callers, the workers and
  `warm_start` share `_in_flight` and the database; the job never reports to the caller directly.
- The publisher is a process of its own, started by launchd. It reads its own copy of `chat.db` and
  keeps its progress nowhere but in the rows of `MessageVector`; the Java service reads that table.
- A webhook hands a question to `MessageIntake`. In development that is the topic `task`, consumed by
  `AgentService`, which publishes to `reply`, consumed by `ReplyConsumer`, which calls
  `TelegramService`. In production one thread of a pool does all of it. Both run
  `ConversationService.respond`.

### What is hard

Resumption from a watermark that is not in one transaction with the rows it speaks of; several
messages of one instant; an instant that is rounded on its way through Python and SQL; late
messages; concurrent submits of one chat; jobs that raise, or whose error handler raises; crashes
between any two statements; retries of a turn part of which is done; at-least-once delivery at three
places (Telegram's webhook, the two topics, the post to Telegram); a cache without a lock; a queue
that dies with its process. PROJECT.json lists these as hazards, at the line where they bite, with
the properties that are about them.

## 2. Plan

| Step | Module | State |
|---|---|---|
| 1 | `Indexer`, with its abstract specification `ChatIndex`; its proofs | done |
| 2 | `Conversation`, the turn; its proofs | done |
| 3 | `Telegram`; `KafkaPipeline` and `InlineIntake`, which compose it with `Conversation` | done |
| 4 | `Publisher` and its proofs; `CloudSearch`, which composes it with the reader and the clock | done |
| 5 | `SnapshotCopy`: chat.db, the writer's WAL, the copy and its checkpoint; `SnapshotCache`: TTL, lock, grace window, timers; the proofs of both | done |
| 6 | `VectorStore` under several servers, with its abstract specification `RowStore`; `Search` over it; the proofs of the store | done |
| 7 | `AppleTime`, `Names`, `MessageStore`: the pure parts as operators; `Library`, which asks them | done |
| 8 | `InlineIntake_proofs`, `KafkaPipeline_proofs`: they implement `ConvSpec` and keep `RecordedFirst`; `CloudSearch_proofs` | done |
| 9 | proofs: `NeverRepeated`, `RepliesAreBounded`; `CallsAreBounded`, `RepliesInOrder`, `RetriesRepeatNoReply`; `ReadyCountsRows`; `KeepsPromise` | done |
| 10 | proofs: `NeverOverstated`, `HitsAreNearest`, `OwnRowsAreFetched`; `Library_proofs`: `TimesAreKept`, `TextIsRecovered`, the order of ISO strings | done |
| 11 | `Ordering`, sorting and filtering by what they return; proofs: `RecentAreRecent`, `BestMatchesFirst`, `LookupIsExact`, `StreamIsExact`, `CountedAreStreamed` | done |
| 12 | the models: what section 6 leaves out of the tools and of the queries | open |

The order puts first what the program would be wrong without: an index, and a replica, that never
silently miss a message, and turns that are neither lost in one another nor repeated.

## 3. The modules and the code

**`Indexer`** models `indexer.py` with the stores on both sides. A future is a member of `Jobs`; it
is used again when nobody holds it any more. `pc[j]` is the next statement of `_run_job` on a store:
`TakeSnapshot` (88-90), `Begin` (97), `Open` (99-104), `Announce` (105-109), `Since` (111-116),
`FlushBatch` (129-132), `SaveProgress` (133-139), `FlushRest` (141-143), `Finish` (145-152). A
failure may come at each of them: `SnapshotFails` (91-94), `JobFails` (160-163), and
`JobFailsSilently` when the error handler's own write raises. `todo[j]` is what the stream still
holds after the filters of 118-123; its order is that of `MESSAGE_SQL`. `rows`, `state`, `indexed`,
`total`, `watermark` and `lastError` are the tables; they survive `Exit` and `Crash`, which lose
everything else. `Call`, `StopWaiting` and `ReadStatus` are a tool call's submit, its bounded wait
and its read. `Date` is the instant in `chat.db` and `SentAt` the one that comes back from the ISO
watermark, which rounding makes a little earlier or later. A message is `late` when it is
`Overtaken`: a later one arrived before it, or the instant kept for another message is rounded past
it. `AppleTime` says by how much that can be.

**`ChatIndex`** is the promise: no jobs, no batches, no watermark and no counters. A chat is indexed
from some snapshot, rows are added only for messages of it, rows stay, and the chat becomes ready
only when the snapshot is in, late messages excepted. `KeepsPromise` says that `Indexer` implements
it; `base` is the history variable that names the snapshot.

**`VectorStore`** models `index.py` again, and closer, for several servers on one `vectors.db`: a
second server warm-starts its indexer on import, before it finds its port taken. A batch is a
transaction: `BeginBatch` (BEGIN and the first SELECT, which fixes the snapshot), `Put` per row
(97-120: the old vector deleted, the new one inserted, the row upserted), `Commit` or `Refused` (the
rollback of 122-124). `mutex` is a server's `_lock`, `view` what its transaction sees, `writer` and
`stale` are SQLite's rules for WAL mode: one writer, and no first write by a transaction that is
behind. `Reads` is a tool taking a snapshot by its server's cache, outside of any job. `WritesStatus` is `upsert_chat_meta`, one statement; `TimesOut` is its wait for another
server's lock coming to an end. The jobs are those of `Indexer`, without queue, rounding and late
messages, and with a message that sits in two chats or is deleted. **`RowStore`** is what the store
promises: batches are filed whole, what is filed stays filed, a status write files nothing.

**`Search`** extends it with `semantic_search_messages`: `Ask` reads the status (119-121), `Knn` is
`VectorStore.knn` (the `KnnLimit` nearest vectors of all chats, then chat, window and `min_score`),
`Fetch` reads the messages from the snapshot of that moment, drops those from me and keeps `TopK` of
the highest `Score`, the similarity clipped and rounded to four digits (186-190), by which farther
messages may tie with nearer ones (`AnswersBest`). When the snapshot cannot be read,
`fetch_messages_by_guids` swallows the error (139-141) and the answer has no hits (`AnswersUnread`,
which the history variable `unread` remembers, as the caller cannot tell). `Raises` is an error
anywhere else, which the tool hands on.
That `Reads` is the only step a search takes on the store. `filed` remembers what each server has
filed; `OwnRowsAreFetched` compares it with the snapshot in the step that reads it, not later, when
the same server may have filed messages the answer could not know of.

**`AppleTime`**, **`Names`** and **`MessageStore`** are the pure parts as operators: `apple_to_dt` and
`dt_to_apple_ns` in exact doubles and ISO strings; `_normalize_phone`, the contact book, `lookup`,
`resolve_name`, `_resolve_chat_guid`, `recent_chat_guids` and `list_chats`; `MessageStore.messages`
with reactions and batches, the counts, the decoder's byte scan and the text of a message.
**`Ordering`** is what they share of Python and SQL: a stable sort and a filter, defined by what they
return. TLC computes `SortSeq` and `SelectSeq` in the same way, but those have no definition that a
proof could expand.
**`Library`** asks them questions: an action per function, and properties that say what the answer
should be in other terms than the code's.

**`Conversation`** models `respond` (36-53): `Take`, then `HitCache` or `MissCache` (the lookup),
`Generate`, `Store`, `Persist`, and `Returns`. Any call may raise (`Raises`); whether its effect
happened before is a matter of the step at which it raises. A cached answer is named by the update
it was generated for. `ExactSearch` says which index Postgres answers `findSimilar` from: with the
approximate one a lookup may miss a live row, or find one that is not the nearest.

**`Telegram`** models `sendMessage`: a post with markup, and one without when the first raises. A
post is delivered, refused, or delivered with its answer lost.

**`KafkaPipeline`** and **`InlineIntake`** extend both. Their actions are conjunctions of an action
of `Conversation` or `Telegram` with what the profile adds: positions, commits, retries and two
asynchronous sends there; the queue, the pool, shutdown and restart here. Each fault kind has a
counter of its own, so that a property can say how much of what it excuses.

**`Publisher`** models `push_all` and `push_chat`: `StartRun` (snapshot and targets), `NextChat`,
`ReadSince` (84 and the stream's start), `Flush` (one commit), `ChatPushed`, and the ways to fail:
`BatchBreaks` (a message that can never be stored), `ChatFails`, `RunDies`.

**`CloudSearch`** extends it with the clock and `searchMessages`' freshness note.

**`SnapshotCopy`** models `safe_copy_chatdb` beside a writer in WAL mode. The writer is SQLite's
protocol: `Commit` appends to the WAL or, when all of it is checkpointed, begins it anew;
`CheckpointPage` moves a page to `chat.db`; `Close` removes the WAL. The copy is `CopyPage` by page,
`CopyWal` (which leaves what it does not replace), `Checkpoint`; `CopyFails` cuts it off and leaves
its files. A page holds the transactions that wrote it, so that a torn copy is seen. The copy of a
file is not atomic, but that of the WAL is one step: SQLite ignores a half-copied last transaction.

**`SnapshotCache`** models `Cache`: `Call` reads the clock, `Hit` and `Refresh` take the lock,
`Copy` and `Refreshed` hold it, `RefreshFails` leaves everything as it was but for a directory;
`Remove` is the timer. A copy is known by the moment it is of, which is what `SnapshotCopy` shows of
one that is not torn. `Indexer` and `Publisher` rest on that too: their snapshots are what `chat.db`
held at one moment.

`MC*` modules hold the constants of the runs and nothing else. Definitions with a suffix after an
underscore (`Wanted_Textless`) are wrong variants of the definition below them; no specification
uses them. PROJECT.json names, for each property, the one that breaks it.

## 4. The runs

| Run | Asks | Bounds, and why they are enough |
|---|---|---|
| `indexer_stream` | does the resumable index skip a message, count wrongly, go backwards or break its promise? | one chat, since chats share only the pool; four messages: two of one instant, one textless, one later; batches of two, so that there is a full batch and a rest; instants that are rounded up; one fault, from which the index recovers |
| `indexer_pool` | can one chat have two jobs, does every job end, and is everything indexed at last? | two chats, one worker, three futures (two in flight and one that is let go); a message that arrives before or after any snapshot; one fault. Resumption between batches is for `indexer_stream` |
| `kafka_order` | are replies recorded, in order, and never repeated by retries? | two like questions, a blank text and a photo; one fault of any kind at any place |
| `kafka_live` | is the pipeline held up by a question that always fails, is a blip survived, and how many LLM calls can a question cost? | that question, which exhausts its retries, and one good one; one fault, a crash or a repeated webhook among them |
| `kafka_transient` | (violation) is a transient LLM failure retried? | as before |
| `inline` | can a user get another's answer or one that is not recorded, is a stampede bounded, is a question ever repeated, answered too often, or lost to another's failure? | two threads, two like questions of one user and one of another, a photo; one fault of any kind. More like rows than threads need a third turn of one user, which a repeated webhook gives. A user's questions are all alike here; that the bound is on rows all alike to one another, and a question in between unlike ones can hit more, is for the theorem, which has every distance |
| `replica` | does the newest row of a chat hide a missing message, is the other chat published, is silence honest? | two chats; ties, a textless and late messages; a chat that always fails and one more failure; the clock runs past the last message by more than `StaleAfter` |
| `search` | do rows and vectors agree, do watermarks cover and counts stay honest with two servers, and what may a search leave out? | two servers with a worker each, two jobs, so that both may index one chat or two; three messages, one in both chats, one that may be deleted; batches of two; a rowid more than messages; one failure or crash, any number of refusals; `top_k` 1 and twice that many vectors, fewer than there are. Three questions: one whose only match other chats crowd out, one with a window and without messages from me, and one to which two messages at different distances have the same score and a third is beyond `min_score` |
| `library` | do the pure parts return what they should? | time: every third nanosecond of 130 microseconds, which holds many midpoints of each rounding; two address books of one entry; three chats or names; tables of three messages in batches of two; text lengths around 128, 256, 0x8181 and 65535 |
| `snapshot_copy` | is a copy made beside a writer a state that was committed? | two pages, one of which every transaction writes, four transactions, so that two WALs follow one another; one directory, used again after a copy that was cut off |
| `snapshot_missed` | (violation) is everything in the copy that was committed before? | two transactions |
| `snapshot_cache` | do readers keep their files, and are they recent? | two threads, three directories, so that two copies are superseded; the clock runs over two TTLs and two windows |

Where a run says `CHECK_DEADLOCK FALSE` the system may really stop: Telegram has nothing more to
post and all that was taken has been answered or dropped; in `snapshot_cache`, the directories and
the clock of the instance are used up; in `search` all messages are there, the jobs used up
and nothing to ask; in `library` a question is answered once.

Fault counters are bounded by `MaxFaults` only; LLM calls are counted up to `MaxCalls`, above what
`CallsAreBounded` allows. The clock stops at `MaxNow`.

### What the violations show

- `NothingMissed`: `chat.db` and its WAL are copied one after the other. When Messages.app begins its
  WAL anew in between, the frames it has checkpointed are in neither copy, and the documentation's
  "don't miss any in-flight messages" fails. The publisher, whose next start is its newest row, may
  then never see a message that such a copy missed.
- `TransientIsRetried`: `AnthropicException` is the SDK's base class, of its 5xx and I/O errors as
  well, so those are not retried, though the comment above the handler says so.

What no run shows but the models make plain: the freshness note's "last synced" is the newest
message's date, so that in a quiet hour it blames a Mac that is awake (`Stale` in `CloudSearch`); a
contact saved as a bare ten-digit number is not found under its handle with +1, since the fallback
of `lookup` goes the other way; with two servers a status may be ready with a count of 0, when one
announces after the other has finished; a message in two chats is found in the one indexed last; a
search whose snapshot cannot be read answers without hits, as if nothing had matched
(`AnswersUnread` in `Search`), and of two messages that four digits make equal it may keep the
farther one.

### Fairness

- The thread pools of Python and Java run what they were given and a thread that can go on does:
  weak fairness of a job's and of a turn's steps. A wait with a timeout ends.
- launchd starts the publisher every ten minutes; the server and the container are started again
  by what runs them: weak fairness of `Start`, `Restart`, `StartRun`. Telegram posts what it holds.
- The snapshot cache has a TTL, so that jobs again and again work on a fresh snapshot: strong
  fairness of taking one (`TakeSnapshot(j, arrived)`). The client of `EventuallyIndexed` calls again
  and again: that is the property's premise (`ClientAsks`) and not part of the specification.
- Never fair: arrival of messages, expiry, commits of offsets, faults of any kind.

## 5. The proofs

Eight modules hold them; an `X_proofs` extends `X`, and `Snapshots_proofs` extends the two snapshot
modules, which share no name. All are for every value of the constants. The theorems PROJECT.json
lists are introduced here along their argument; what is said of an invariant is why the property
alone is not inductive.

**`Indexer_proofs`**, for every set of messages, chats, futures and callers and every batch size:

1. `TypeCorrect`, from which the others draw.
2. `JobInvariant`: an unfinished job is the one `_in_flight` names for its chat. `OneJobTheorem`
   follows; the pool's bound is preserved because only `Dispatch` occupies a worker.
3. `SnapshotInvariant`: what arrives after a snapshot and is not late is behind all of it. It holds
   of the cached snapshot and of each job's, however stale. It rests on `LateInvariant`: what is not
   late when it arrives is not overtaken afterwards either.
4. `CoverInvariant`: `Covered` alone is not inductive. What a job has still in `todo`, its `newest`
   and the stored watermark must be related: everything of its snapshot that is not late is a row
   or in `todo`, and everything before `newest` is a row. A batch is a first part of the stream, so
   raising `newest` to the last of it skips nothing (`FlushCovers`).
5. `CoverageTheorem` (no gap before the watermark) and `ProgressTheorem` (no row is lost, no
   watermark moves back) follow.
6. `BaseInvariant`: the cached snapshot, and the one a job begins with, is never older than the one
   a chat was last indexed from. `WorkInvariant`: a job that works is the one its chat is being indexed by, and nothing in its
   `todo` is a row. Both are needed before a counter can be trusted: `count` starts from the rows
   there are and goes up by the size of a batch, and is their number only because a batch is
   disjoint from them (`FlushCounts`). `CountInvariant` says so at every statement of a job, and
   `ReadyTheorem` is what a client sees of it.
7. `PromiseTheorem`: `Indexer` implements `ChatIndex` in each chat. A statement of a job is a step of
   its chat's index or none (`StatementRefines`): `Open` begins, a flush adds rows of the base,
   `Finish` declares ready, and by `CoverInvariant` all that is in the base and not late is in then.

**`Conversation_proofs`**: `ConvInvariant` adds to the type that each thread's own live rows are apart,
and apart from the question with which it has missed (`OwnRowsApart`, for exact search). A thread
thus never inserts a second like row while its first is live, so that rows all alike to one another
have different writers and are at most as many as the threads: `StampedeTheorem`, by an injection into the
threads. `OwnAnswerTheorem` needs that the answer in a thread's hands is an alike one from the step
where it is found. The bound is on rows that are all alike to one another. A question in between may
hit more of them than there are threads: likeness is a threshold on the cosine and not transitive,
so that one thread can have rows of two unlike questions, and the question in between is like
both. The distance is assumed symmetric and zero on a question itself; no triangle
inequality is used. The module also holds the lemmas on counting and on the places of an element in
a sequence that both intakes cite.

**`CloudSearch_proofs`**: `PublisherInvariant` relates the run's snapshot to what arrives later
(`RunInv`), as for the indexer, but here the rows themselves are the watermark: a chat's rest of the
stream and its rows cover the snapshot. `NoGapTheorem` and `CompletenessTheorem` are parts of it.
Then the composition implements the publisher (`PublisherImplemented`), so that
`PublisherInvariant` holds in it. `FreshInv` adds that no row is dated after the last push, because
what a push adds had arrived by then; a newest row that is recent thus means a recent push
(`HonestyTheorem`).

**`InlineIntake_proofs`** and **`KafkaPipeline_proofs`** both begin with `TurnsImplemented`: every step
of the intake is, on the variables of `Conversation`, a step of a turn, an expiry, a crash of turns or
a stutter. What was proved of turns then holds of both intakes; in particular an answer in a thread's
hands is recorded. This needs that the queue holds questions only (`QueueInv`), and that a
listener with a turn is within its log (`TaskInv`), since a turn is started for the record there.
`RecordedFirstTheorem` follows the answer from the turn to the chat: `DeliveryInv` says that what a
thread is posting is recorded and so is what was posted; `ReplyInv` says it of the records of the
topic `reply`, of the listener's parcel and of what was posted, across re-reads after a crash.
`KafkaPipeline_proofs` adds `CountInv`, and from the three `TypeCorrect`, which holds the bounds of
retries and commits.

How often, inline: the bounds of `NeverRepeated` and `RepliesAreBounded` leave room until the end of
a turn, so the invariants account for every acceptance of a question. `CallInv`: the calls made, the
places in the queue and the threads before their call are together at most the acceptances.
`AnswerInv` does it with the queue, the turns, the deliveries and the posts, where only a post that
got through and raised counts twice. `NeverRepeatedTheorem` and `BoundedRepliesTheorem` follow.

How often, by Kafka: `BudgetInv` gives a record its budget, one call and `MaxRetries` retries. A record
that is ahead of the listener has all of it left, the one it is at what its tries have not used, and
a crash or a repeated webhook pays for each record that comes back. `CallsBoundedTheorem` follows
since what is used belongs to a record that is still ahead. In which order: as long as nothing
crashed and no webhook was repeated (`CalmInv`), a question is in `task` once, the replies are to
records behind the listener in their order, and what was sent is in the order of the replies, twice
only after a post that got through and raised (`OrderInv`). `InOrderTheorem` and `NoRepeatTheorem`
follow; neither property is inductive, since it speaks only of what has been posted and not of the
two logs it came through.

**`Snapshots_proofs`**, of the copy: a page that is copied while the WAL grows is some version since the
WAL began (`SinceWal`), and folding the WAL into versions since its beginning gives the state it ends
with (`ReplayCompletes`). That is `CopyInv` in the phase "db" (`CopyInvariant`); `ExactTheorem` is its last phase. It is
why checkpoints during a copy do no harm, and it breaks exactly where the WAL is begun anew. Of the
cache: `CacheInvariant` follows a directory through its life: being filled by the holder of the lock,
cached without a timer and at least as fresh as `takenAt`, superseded with a timer that is due a
window after everybody was given it, removed. `GraceTheorem` and `FreshTheorem` are parts.

**`Search_proofs`**, for any number of servers, workers, callers, chats and messages, and any batch
size. Of the store:

1. `TablesAgreeTheorem` takes one fact of rows and vectors (`Agree`) through each row of a batch, in
   the database and in every open transaction, with `LockInv`: a thread that writes holds its
   server's lock, so that a server has one transaction.
2. `RefinementTheorem` needs more, because the abstract batch is filed at once on top of the
   committed rows: `TodoInv` (a batch is of its chat) and `TxInv` (a transaction that is not left
   behind sees the database and its own rows, and the writer is never left behind). A commit of a
   stale view would undo another server's rows; SQLite's refusal is what rules it out, and
   `MayWrite_Blindly` breaks the refinement.
3. `WatermarkTheorem`: `WatermarksCover` is not inductive; `CoverInv` relates each snapshot to what
   arrives after it, each job's rest of the stream to what its chat still lacks, and each watermark,
   stored or in a job's hands, to the first message that is not filed. Since filings stay
   (`FilingsStay`), what one server's watermark covers another server's job cannot uncover.
4. `OverstatedTheorem`: two jobs may count one chat at once. `OverInv` says of each that what it has
   counted is indexed and not in the rest of its stream, so that a commit moves messages from the
   one to the other and no job counts a message twice (`Counted`).

Of the search:

5. `SearchIsAStore`: a search takes no step on the store but `Reads`, so 1 to 4 hold while
   messages are searched (`StoreUnderSearch`).
6. `NearestTheorem`: the invariant follows a call through its stages, from scores that belong to the
   vectors it saw to the best of what it fetched. A message that fits and is missing before `Fetch`
   has `KnnLimit` vectors in front of it; rows and vectors agree, so these are as many messages that
   are no farther (`KnnCrowds`, by an injection). What `Fetch` then leaves out has `TopK` scores as
   high in front of it, or the caller is in `unread` and has nothing.
7. `OwnRowsTheorem`: what a server has filed came from a snapshot of its own, and its snapshots only
   lose what is deleted. `EditInv` says so of the copies of a server and the mailbox, `HeldInv` of
   what its jobs hold, `KeptInv` of what it filed.

**`Library_proofs`**, of the pure parts, for every question and data of any length.

1. `RoundsToNearest` is what rounding to a spacing does; three roundings move an instant by less
   than 679 ns on its way to a datetime (`AppleToDtIsNear`), and less than half a microsecond in all
   on the way back from one (`MicrosecondsStay`): together `TimesTheorem`, for every instant from
   April 2019 to 2035, the years for which `AppleTime` has the spacings of doubles; the run can only
   try a stretch of 130 microseconds. `IsoSortsByTime`: ISO strings, which `tools.py` and the
   watermark compare, are in the order of their instants, with or without a fraction. `TextTheorem`:
   the byte scan finds the text for every body that is `Complete` and every length up to 65535,
   which one or two length bytes can declare.
2. Sorting. The rank of an element of a finite set under a strict total order is a bijection
   (`RankGrows`, `ArrangedIsSorted`), so that `Stably` returns each item once, in an order that
   extends the one asked for (`StablyIs`), and `Taken` some places of a list in theirs (`TakenIs`).
   `Listing(s, S, W)` says that s has the items of S, each once, and none behind one that it is
   less than; what the other lemmas know of a sort is that. `RecentTheorem`: with
   `IsoSortsByTime`, sorting by strings is sorting by activity, and what a limit cuts off comes
   no earlier. A chat without a dated
   message sorts as the empty string, behind all others (`StampsSort`).
3. `BestTheorem`: that `Precedes` is a total order of sequences (`PrecedesIsOrder`), that the exact
   match, the sorted prefixes and the sorted rest are one listing by rank and alphabet
   (`RankedAreListed`, by `ListingsJoin`), and that the three passes over the chats find the oldest
   of the best rank (`ChatIsBest`).
4. Folds. The induction theorems of the library are out of reach, as they take an operator; but
   induction over a set of numbers needs only its least missing member (`UpTo`), and `FoldLeft` can
   be expanded to the function it chooses. So a claim about each first part of a list is a set of
   lengths. `LookupTheorem`: the book that the sources are folded into has, for each normal form,
   the name of the first entry that has it (`ListedGoesOn`, `SourceIsListed`, `BookOfSources`), two
   numbers have one normal form just when they have the same digits (`NumberIsDigits`), and the
   fallback looks for the number behind a 1.
5. The stream. `BatchesAreAll`: the batches one behind the other are the list they were made of
   (`FillHolds`), whatever `Chunk` is. `Covers(out, s, F, M)` says that out is what F makes of the
   items of s, one or none of each, in their places; it is kept by joining (`CoversJoin`) and
   flattening (`FlattenCovers`), so that what comes out batch by batch is what would come out of
   the whole (`MessagesCover`). With the listings of the selection and of its tapbacks
   (`SelectedIs`, `ReactionsAre`, `KeptAre`), which need that both definitions of a tapback agree
   (`TapbacksAgree`), the output is a listing by date of the dated messages (`StreamIsListing`).
   `StreamTheorem` counts in it: a row and a chat have one place or none, and a tapback has as many
   places on its target as chats (`PlacesOfRow`, by a bijection). `CountTheorem` compares the count
   with that listing for one chat, where what is streamed is named row by row (`StreamedAre`).

What is assumed: the constants' types; finiteness where cardinalities are taken; of the questions of
`Library`, what the tables they are asked of hold (`QuestionAssumption`): guids are unique and not
the name that stands for NULL, a message is in finitely many chats, a "+" is at most in front of a
number, and bodies are as the archiver writes them; in
`StampedeTheorem` alone, that the cache's search is exact. Each but the last is an `ASSUME` that TLC
evaluates in the runs; the last is a hypothesis of its theorem.

Every invariant and every action property of the runs that pass is the subject of a theorem. Only
model-checked:

- liveness and everything under fairness, which the proof system does not reach, nor `ENABLED`:
  `JobsFinish`, `EventuallyIndexed`, `OthersArePublished`, `TasksPass`, `AnsweredDespiteBlips`,
  `RaisesCostOneAnswerEach`;
- `TransientIsRetried` and `NothingMissed`, which the code does not keep.

## 6. What is not modelled, and why

- Embeddings, the LLM, cosine distances, HNSW: numbers out of TLC's reach. The distance is a
  parameter, the LLM one step that answers or raises; `ExactSearch` is what is kept of HNSW.
- Of the package `imsg`: the e-mail book, which is a dictionary; attachments, edit history, balloons
  and senders' handles, which are fields copied out of rows and property lists; `message_by_guid`,
  which scans the stream.
- Of the tools: the wrappers of `server.py` with their argument ranges, the percentage of a status,
  the parsing of ISO dates. `Search` compares a message's instant with its window; the rounding in
  between is `TimesAreKept`.
- Embeddings are loaded on import, before there is a worker, so that their lock is never contended.
- A restart of the server forgets its snapshot directories and their timers; so does a refresh that
  fails with the directory it had begun. They stay on disk; no property says otherwise.
- `MessageStore` has no errors of SQLite: `message_count_for_chat` answers 0 when its query fails,
  which only `Indexer` has (`Open`). `AppleTime` converts instants in nanoseconds; that
  `apple_to_dt` takes a float, as the property lists of edits hold, and any small number for seconds
  is left out.
- A copy that is torn: `Indexer` and `Publisher` assume whole ones. `SnapshotCopy` says when they are.
- Two publishers at once, two copies into one directory at once, two servers' snapshot directories:
  only `VectorStore` and `Search` have several processes.
- Messages that are edited; in `Indexer` and `Publisher` also those that are deleted or sit in two
  chats, which `VectorStore` has. The publisher's order of arrival and lateness is not in
  `VectorStore`.
- Topics with several partitions: the listeners run with one thread and one partition each, the
  defaults of the development set-up.
- Truncation, markup, logging, time to live in seconds, SQL text: data that no property tells apart.
- Configuration, data classes, build, containers, CI: no behaviour of their own.
