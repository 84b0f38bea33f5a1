------------------------ MODULE KafkaPipeline_proofs ------------------------
(* Theorems about the development pipeline of KafkaPipeline.tla.           *)
EXTENDS KafkaPipeline, Conversation_proofs

\* The listener of task is within its log, and in a turn only over a record.
TaskInv ==
  /\ task \in Seq(Updates)
  /\ taskPos \in 0..Len(task) /\ taskCommitted \in 0..taskPos
  /\ tries \in 0..MaxRetries
  /\ DOMAIN pc = Threads /\ (pc[Consumer] # "idle" => taskPos < Len(task))

\* Failing or passing over a record keeps the listener within its log.
LEMMA HandlesKeepsTask ==
  ASSUME TaskInv, NEW k, Handles(k), taskPos < Len(task),
         DOMAIN pc' = Threads, pc'[Consumer] = "idle"
  PROVE  TaskInv'
<1> USE KafkaAssumption DEF KafkaAssumption, TaskInv, Handles
<1>1. CASE Retries(k)
  BY <1>1 DEF Retries, CountsTry
<1>2. CASE ~Retries(k)
  BY <1>2 DEF Advances
<1> QED BY <1>1, <1>2

\* In every reachable state the listener of the topic task is within its log.
LEMMA TaskInvariant == Spec => []TaskInv
<1> USE KafkaAssumption DEF KafkaAssumption
<1>1. Init => TaskInv
  <2>1. <<>> \in Seq(Updates) /\ Len(<<>>) = 0
    OBVIOUS
  <2> QED BY <2>1 DEF Init, ConvInit, TaskInv
<1>2. TaskInv /\ [Next]_vars => TaskInv'
  <2> SUFFICES ASSUME TaskInv, [Next]_vars PROVE TaskInv'
    OBVIOUS
  <2>0. Consumer \in Threads /\ DOMAIN pc = Threads
    BY DEF TaskInv
  <2>1. ASSUME NEW u \in Updates, Webhook(u) PROVE TaskInv'
    BY <2>1 DEF Webhook, TaskInv, convVars, turnVars
  <2>2. CASE SkipBlank
    BY <2>2 DEF SkipBlank, HasRecord, Advances, TaskInv, convVars, turnVars
  <2>3. CASE Consume
    BY <2>3 DEF Consume, Take, HasRecord, TaskInv, taskVars
  <2>4. CASE Respond
    <3>1. pc[Consumer] # "idle" /\ DOMAIN pc' = DOMAIN pc
      BY <2>4 DEF Respond, TurnStep, HitCache, MissCache, Generate, Store, Persist
    <3> QED BY <2>4, <3>1 DEF Respond, TaskInv, taskVars
  <2>5. CASE SendReply
    BY <2>0, <2>5 DEF SendReply, Returns, Drops, Advances, TaskInv
  <2>6. ASSUME NEW k \in Failures, ConsumeFails(k) PROVE TaskInv'
    BY <2>0, <2>6, HandlesKeepsTask DEF ConsumeFails, Raises, Drops, TaskInv
  <2>7. CASE StoreRefused
    BY <2>0, <2>7, HandlesKeepsTask DEF StoreRefused, Raises, Drops, TaskInv
  <2>8. CASE CommitTask
    BY <2>8 DEF CommitTask, TaskInv, convVars, turnVars
  <2>9. CASE Crash
    <3>1. PICK n \in taskPos..Len(task) : task' = SubSeq(task, 1, n)
      BY <2>9 DEF Crash
    <3>2. task' \in Seq(Updates) /\ Len(task') = n
      BY <3>1 DEF TaskInv
    <3>3. taskPos' = taskCommitted /\ taskCommitted' = taskCommitted /\ tries' = 0
      BY <2>9 DEF Crash
    <3>4. pc'[Consumer] = "idle" /\ DOMAIN pc' = Threads
      BY <2>0, <2>9 DEF Crash, Dies, Drops
    <3>5. taskPos' \in 0..Len(task') /\ taskCommitted' \in 0..taskPos'
      <4>1. taskCommitted \in 0..taskPos /\ taskPos \in Nat /\ n >= taskPos /\ n \in Nat
        BY <3>1 DEF TaskInv
      <4> QED BY <3>2, <3>3, <4>1
    <3>6. tries' \in 0..MaxRetries
      BY <3>3
    <3> QED BY <3>2, <3>4, <3>5, <3>6 DEF TaskInv
  <2>10. CASE ReplyStep \/ CommitReply \/ Expires \/ UNCHANGED vars
    BY <2>10 DEF ReplyStep, ConsumeReply, PostReply, CommitReply, Expires, Expire, vars,
                 taskVars, convVars, turnVars, TaskInv
  <2> QED BY <2>1, <2>2, <2>3, <2>4, <2>5, <2>6, <2>7, <2>8, <2>9, <2>10 DEF Next, TaskStep
<1> QED BY <1>1, <1>2, PTL DEF Spec

\* AgentService.java:26-43.  Whatever the topics, retries and crashes do, the
\* listener's turns are turns of Conversation.
THEOREM TurnsImplemented == Spec => ConvSpec
<1> USE KafkaAssumption DEF KafkaAssumption
<1>1. Init => ConvInit
  BY DEF Init
<1>2. TaskInv /\ [Next]_vars => [ConvNext]_convVars
  <2> SUFFICES ASSUME TaskInv, [Next]_vars PROVE [ConvNext]_convVars
    OBVIOUS
  <2>1. CASE Consume
    <3>1. Record \in Updates
      BY <2>1 DEF Consume, HasRecord, Record, TaskInv
    <3> QED BY <2>1, <3>1 DEF Consume, ConvNext
  <2>2. CASE Respond
    BY <2>2 DEF Respond, ConvNext
  <2>3. CASE SendReply
    BY <2>3 DEF SendReply, ConvNext
  <2>4. CASE StoreRefused \/ \E k \in Failures : ConsumeFails(k)
    BY <2>4 DEF StoreRefused, ConsumeFails, ConvNext
  <2>5. CASE Crash
    BY <2>5 DEF Crash, ConvNext
  <2>6. CASE Expires
    BY <2>6 DEF Expires, ConvNext
  <2>7. CASE (\E u \in Updates : Webhook(u)) \/ SkipBlank \/ CommitTask \/ ReplyStep
             \/ CommitReply \/ UNCHANGED vars
    BY <2>7 DEF Webhook, SkipBlank, CommitTask, ReplyStep, ConsumeReply, PostReply,
                CommitReply, vars
  <2> QED BY <2>1, <2>2, <2>3, <2>4, <2>5, <2>6, <2>7 DEF Next, TaskStep
<1> QED BY <1>1, <1>2, TaskInvariant, PTL DEF Spec, ConvSpec

\* The listener of reply is within its log, and what the log holds, what is being
\* delivered and what has been delivered is in Message.
ReplyInv ==
  /\ reply \in Seq(messages)
  /\ replyPos \in 0..Len(reply) /\ replyCommitted \in 0..replyPos
  /\ sending \in [Senders -> {"idle", "html", "plain"}] /\ DOMAIN parcel = Senders
  /\ sending["reply"] # "idle" => replyPos < Len(reply) /\ parcel["reply"] \in messages
  /\ sent \in Seq(messages)

\* One step of anybody keeps the topic reply and what is being sent recorded.
LEMMA ReplyStepInv ==
  ASSUME ReplyInv, ConvInv, [Next]_vars, [ConvNext]_convVars
  PROVE  ReplyInv'
<1> USE KafkaAssumption DEF KafkaAssumption
<1>1. messages \subseteq messages'
  BY DEF ConvNext, TurnStep, Take, HitCache, MissCache, Generate, Store, Persist, Returns,
         Raises, Dies, Drops, Expire, convVars
<1>2. reply \in Seq(messages') /\ sent \in Seq(messages')
  BY <1>1 DEF ReplyInv
<1>3. CASE SendReply
  <2>1. Exchange(Consumer) \in messages
    BY <1>3 DEF SendReply, Returns, ConvInv, RecordedOwnAnswer
  <2>2. reply' \in {reply, Append(reply, Exchange(Consumer))}
    BY <1>3 DEF SendReply
  <2>3. reply' \in Seq(messages') /\ Len(reply') >= Len(reply)
    BY <1>1, <1>2, <2>1, <2>2
  <2>4. UNCHANGED <<telegramVars, replyPos, replyCommitted>>
    BY <1>3 DEF SendReply
  <2> QED BY <1>1, <1>2, <2>3, <2>4 DEF telegramVars, ReplyInv
<1>4. CASE ConsumeReply
  <2>1. replyPos < Len(reply) /\ reply[replyPos + 1] \in messages
    BY <1>4 DEF ConsumeReply, ReplyInv
  <2> QED BY <1>1, <1>2, <1>4, <2>1 DEF ConsumeReply, SendMessage, replyVars, ReplyInv
<1>5. ASSUME NEW o \in Outcomes, PostReply(o) PROVE ReplyInv'
  <2>1. sending["reply"] # "idle" /\ replyPos < Len(reply) /\ parcel["reply"] \in messages
    BY <1>5 DEF PostReply, Post, ReplyInv
  <2>2. sent' \in Seq(messages')
    BY <1>1, <1>2, <1>5, <2>1 DEF PostReply, Post
  <2>3. /\ sending' \in [Senders -> {"idle", "html", "plain"}] /\ DOMAIN parcel' = Senders
        /\ sending'["reply"] # "idle" => parcel'["reply"] \in messages'
    BY <1>1, <1>5, <2>1 DEF PostReply, Post, ReplyInv
  <2>4. /\ replyPos' = IF sending'["reply"] = "idle" THEN replyPos + 1 ELSE replyPos
        /\ UNCHANGED <<reply, replyCommitted>>
    BY <1>5 DEF PostReply
  <2> QED BY <1>2, <2>1, <2>2, <2>3, <2>4 DEF ReplyInv
<1>6. CASE CommitReply
  BY <1>1, <1>2, <1>6 DEF CommitReply, telegramVars, ReplyInv
<1>7. CASE Crash
  <2>1. PICK n \in replyPos..Len(reply) : reply' = SubSeq(reply, 1, n)
    BY <1>7 DEF Crash
  <2>2. n \in Nat /\ n <= Len(reply) /\ replyPos <= n /\ replyCommitted \in 0..replyPos
        /\ replyPos \in Nat
    BY <2>1 DEF ReplyInv
  <2>3. reply' \in Seq(messages') /\ Len(reply') = n
    BY <1>2, <2>1, <2>2
  <2>4. replyPos' = replyCommitted /\ replyCommitted' = replyCommitted /\ sent' = sent
        /\ sending' = [s \in Senders |-> "idle"] /\ parcel' = [s \in Senders |-> NoParcel]
    BY <1>7 DEF Crash, SendersDie
  <2>5. replyPos' \in 0..Len(reply') /\ replyCommitted' \in 0..replyPos'
    BY <2>2, <2>3, <2>4
  <2> QED BY <1>2, <2>3, <2>4, <2>5 DEF ReplyInv
<1>8. CASE UNCHANGED <<telegramVars, replyVars>>
  BY <1>1, <1>2, <1>8 DEF telegramVars, replyVars, ReplyInv
<1>9. (\E u \in Updates : Webhook(u)) \/ SkipBlank \/ Consume \/ Respond \/ StoreRefused
      \/ (\E k \in Failures : ConsumeFails(k)) \/ CommitTask \/ Expires \/ UNCHANGED vars
      => UNCHANGED <<telegramVars, replyVars>>
  BY DEF Webhook, SkipBlank, Consume, Respond, StoreRefused, ConsumeFails, Handles, CommitTask,
         Expires, vars
<1> QED BY <1>3, <1>4, <1>5, <1>6, <1>7, <1>8, <1>9 DEF Next, TaskStep, ReplyStep

\* Every record of the topic reply is recorded, through crashes and lost sends.
THEOREM ReplyInvariant == Spec => []ReplyInv
<1>1. Init => ReplyInv
  <2>1. <<>> \in Seq(messages) /\ Len(<<>>) = 0
    OBVIOUS
  <2> QED BY <2>1, KafkaAssumption DEF KafkaAssumption, Init, TelegramInit, ReplyInv
<1>2. ReplyInv /\ ConvInv /\ [Next]_vars /\ [ConvNext]_convVars => ReplyInv'
  BY ReplyStepInv
<1> QED BY <1>1, <1>2, TurnsImplemented, ConvInvariant, PTL DEF Spec, ConvSpec

\* ConversationService.java:45-52 before AgentService.java:38.  No reply reaches
\* Telegram that is not in Message, whatever is retried, lost or crashes.
THEOREM RecordedFirstTheorem == Spec => []RecordedFirst
<1>1. ReplyInv => RecordedFirst
  BY DEF ReplyInv, RecordedFirst
<1> QED BY <1>1, ReplyInvariant, PTL

\* What is left to post, and the histories.
CountInv ==
  /\ outbox \subseteq Updates
  /\ calls \in [Updates -> Nat] /\ faults \in [FaultKinds -> Nat]
  /\ parcel \in [Senders -> Exchanges \cup {NoParcel}]

\* In every reachable state the counters and the outbox are well typed.
LEMMA CountInvariant == Spec => []CountInv
<1> USE KafkaAssumption DEF KafkaAssumption
<1>1. Init => CountInv
  BY DEF Init, TelegramInit, CountInv
<1>2. CountInv /\ ReplyInv /\ ConvInv /\ [Next]_vars => CountInv'
  <2> SUFFICES ASSUME CountInv, ReplyInv, ConvInv, [Next]_vars PROVE CountInv'
    OBVIOUS
  <2>1. \A k \in FaultKinds : Fault(k) => faults' \in [FaultKinds -> Nat]
    BY DEF Fault, CountInv
  <2>2. FaultKinds = {"client", "transient", "blip", "repeat", "lost", "post", "crash"}
    BY DEF FaultKinds, Failures
  <2>3. ASSUME CountsCall PROVE calls' \in [Updates -> Nat]
    <3>1. \A u \in Updates : calls'[u] \in {calls[u], calls[u] + 1}
      BY <2>3 DEF CountsCall, CountInv
    <3>2. calls' = [u \in Updates |-> calls'[u]]
      BY <2>3 DEF CountsCall, CountInv
    <3> QED BY <3>1, <3>2 DEF CountInv
  <2>4. ASSUME NEW u \in Updates, Webhook(u) PROVE CountInv'
    BY <2>1, <2>2, <2>4 DEF Webhook, CountInv, telegramVars
  <2>5. CASE Respond
    BY <2>3, <2>5 DEF Respond, CountInv, telegramVars
  <2>6. CASE SendReply
    BY <2>1, <2>2, <2>6 DEF SendReply, CountInv, telegramVars
  <2>7. ASSUME NEW k \in Failures, ConsumeFails(k) PROVE CountInv'
    BY <2>1, <2>2, <2>3, <2>7 DEF ConsumeFails, Handles, Failures, CountInv, telegramVars
  <2>8. CASE ConsumeReply
    <3>1. reply[replyPos + 1] \in messages /\ messages \subseteq Exchanges
      BY <2>8 DEF ConsumeReply, ReplyInv, ConvInv, ConvTypeOK
    <3> QED BY <2>8, <3>1 DEF ConsumeReply, SendMessage, CountInv
  <2>9. ASSUME NEW o \in Outcomes, PostReply(o) PROVE CountInv'
    <3>1. faults' \in [FaultKinds -> Nat]
      BY <2>1, <2>2, <2>9 DEF PostReply, CountInv
    <3> QED BY <2>9, <3>1 DEF PostReply, Post, CountInv
  <2>10. CASE Crash
    BY <2>1, <2>2, <2>10 DEF Crash, SendersDie, CountInv
  <2>11. CASE SkipBlank \/ Consume \/ StoreRefused \/ CommitTask \/ CommitReply \/ Expires
              \/ UNCHANGED vars
    BY <2>11 DEF SkipBlank, Consume, StoreRefused, Handles, CommitTask, CommitReply, Expires,
                 vars, telegramVars, CountInv
  <2> QED BY <2>4, <2>5, <2>6, <2>7, <2>8, <2>9, <2>10, <2>11 DEF Next, TaskStep, ReplyStep
<1> QED BY <1>1, <1>2, ReplyInvariant, TurnsImplemented, ConvInvariant, PTL DEF Spec

\* Every reachable state of the pipeline is well typed: the retries are never
\* more than MaxRetries, and no listener runs past its log or behind its commit.
THEOREM TypeCorrect == Spec => []TypeOK
<1> USE KafkaAssumption DEF KafkaAssumption
<1>1. ConvInv /\ TaskInv /\ ReplyInv /\ CountInv => TypeOK
  <2> SUFFICES ASSUME ConvInv, TaskInv, ReplyInv, CountInv PROVE TypeOK
    OBVIOUS
  <2>1. messages \subseteq Exchanges /\ ConvTypeOK
    BY DEF ConvInv, ConvTypeOK
  <2>2. reply \in Seq(Exchanges) /\ sent \in Seq(Exchanges)
    BY <2>1 DEF ReplyInv
  <2>3. parcel \in [Senders -> Parcels \cup {NoParcel}]
    BY DEF CountInv
  <2>4. TelegramTypeOK
    <3>1. \A s \in Senders : sending[s] # "idle" => parcel[s] \in Parcels
      BY <2>1 DEF ReplyInv
    <3>2. sent \in Seq(Parcels)
      BY <2>2
    <3>3. sending \in [Senders -> {"idle", "html", "plain"}]
      BY DEF ReplyInv
    <3> QED BY <2>3, <3>1, <3>2, <3>3 DEF TelegramTypeOK
  <2> QED BY <2>1, <2>2, <2>4 DEF TypeOK, TaskInv, ReplyInv, CountInv
<1> QED BY <1>1, TaskInvariant, ReplyInvariant, CountInvariant, TurnsImplemented, ConvInvariant,
           PTL

-----------------------------------------------------------------------------
(* How often the LLM is called for a question                                *)

\* A turn is over the record the listener is at.
TurnInv == pc[Consumer] # "idle" => asked[Consumer] = Record

LEMMA TurnInvariant == Spec => []TurnInv
<1> USE KafkaAssumption DEF KafkaAssumption
<1>1. Init => TurnInv
  BY DEF Init, ConvInit, TurnInv
<1>2. TaskInv /\ ConvInv /\ TurnInv /\ [Next]_vars => TurnInv'
  <2> SUFFICES ASSUME TaskInv, ConvInv, TurnInv, [Next]_vars PROVE TurnInv'
    OBVIOUS
  <2>1. ASSUME UNCHANGED <<turnVars, task, taskPos>> PROVE TurnInv'
    BY <2>1 DEF turnVars, TurnInv, Record
  <2>2. ASSUME NEW u \in Updates, Webhook(u) PROVE TurnInv'
    <3>1. pc[Consumer] # "idle" => taskPos + 1 \in 1..Len(task)
      BY DEF TaskInv
    <3>2. task' \in {task, Append(task, u)} /\ UNCHANGED <<turnVars, taskPos>>
      BY <2>2 DEF Webhook, convVars
    <3>3. \A i \in 1..Len(task) : task'[i] = task[i]
      BY <3>2 DEF TaskInv
    <3> QED BY <3>1, <3>2, <3>3 DEF turnVars, TurnInv, Record
  <2>3. CASE Consume
    BY <2>3 DEF Consume, Take, taskVars, ConvInv, ConvTypeOK, TurnInv, Record
  <2>4. CASE Respond
    BY <2>4 DEF Respond, TurnStep, HitCache, MissCache, Generate, Store, Persist, taskVars,
                TurnInv, Record
  <2>5. CASE SendReply \/ StoreRefused \/ Crash \/ \E k \in Failures : ConsumeFails(k)
    BY <2>5 DEF SendReply, StoreRefused, Crash, ConsumeFails, Returns, Raises, Dies, Drops, TurnInv
  <2>6. CASE SkipBlank
    BY <2>6 DEF SkipBlank, HasRecord, convVars, turnVars, TurnInv
  <2>7. CASE CommitTask \/ ReplyStep \/ CommitReply \/ Expires \/ UNCHANGED vars
    BY <2>1, <2>7 DEF CommitTask, ReplyStep, ConsumeReply, PostReply, CommitReply, Expires, Expire,
                      vars, taskVars, convVars
  <2> QED BY <2>2, <2>3, <2>4, <2>5, <2>6, <2>7 DEF Next, TaskStep
<1> QED BY <1>1, <1>2, TaskInvariant, TurnsImplemented, ConvInvariant, PTL DEF Spec

\* Where a question can be: at Telegram, in task ahead of the listener, or behind it.
AheadOf(u) == {i \in Copies(u) : i > taskPos}
Held(u) == IF u \in outbox THEN 1 ELSE 0
Left(u) == Cardinality(AheadOf(u)) + Held(u)
Total(u) == Cardinality(Copies(u)) + Held(u)

\* what is spent of the calls a delivery may cost, by its turn and by its retries
Called(u) == IF pc[Consumer] \in {"store", "persist", "return"} /\ asked[Consumer] = u THEN 1 ELSE 0
Used(u) == IF taskPos < Len(task) /\ Record = u THEN tries + Called(u) ELSE 0

Deliveries == (1 + faults["repeat"]) * (1 + faults["crash"])

\* the calls n deliveries may cost
Cost(n) == (MaxRetries + 1) * n

\* A delivery still ahead has its whole budget left, and is one of those the
\* webhook and the crashes account for.
BudgetOf(u) ==
  /\ Total(u) <= 1 + faults["repeat"]
  /\ calls[u] + Cost(Left(u)) <= Cost(Deliveries) + Used(u)
  /\ u \notin Unstorable => calls[u] + Left(u) <= Deliveries + faults["blip"] + Called(u)

BudgetInv == \A u \in Updates : BudgetOf(u)

Numbers ==
  /\ faults["repeat"] \in Nat /\ faults["crash"] \in Nat /\ faults["blip"] \in Nat
  /\ Deliveries \in Nat /\ MaxRetries \in Nat /\ tries \in 0..MaxRetries
  /\ \A u \in Updates :
       /\ Left(u) \in Nat /\ Total(u) \in Nat /\ Left(u) <= Total(u)
       /\ Cardinality(AheadOf(u)) \in Nat /\ Cardinality(Copies(u)) \in Nat
       /\ IsFiniteSet(AheadOf(u)) /\ IsFiniteSet(Copies(u))
       /\ Held(u) \in 0..1 /\ Called(u) \in 0..1 /\ Used(u) \in Nat /\ calls[u] \in Nat

LEMMA NumbersInvariant == Spec => []Numbers
<1>1. TaskInv /\ CountInv => Numbers
  <2> SUFFICES ASSUME TaskInv, CountInv PROVE Numbers
    OBVIOUS
  <2>1. /\ faults["repeat"] \in Nat /\ faults["crash"] \in Nat /\ faults["blip"] \in Nat
        /\ MaxRetries \in Nat /\ tries \in 0..MaxRetries
    BY KafkaAssumption DEF KafkaAssumption, CountInv, TaskInv, FaultKinds, Failures
  <2>2. Deliveries \in Nat
    BY <2>1 DEF Deliveries
  <2>3. ASSUME NEW u \in Updates
        PROVE  /\ Left(u) \in Nat /\ Total(u) \in Nat /\ Left(u) <= Total(u)
               /\ Cardinality(AheadOf(u)) \in Nat /\ Cardinality(Copies(u)) \in Nat
               /\ IsFiniteSet(AheadOf(u)) /\ IsFiniteSet(Copies(u))
               /\ Held(u) \in 0..1 /\ Called(u) \in 0..1 /\ Used(u) \in Nat /\ calls[u] \in Nat
    <3>1. IsFiniteSet(Copies(u)) /\ Cardinality(Copies(u)) \in Nat
      BY PlacesAreFinite DEF Places, Copies, TaskInv
    <3>2. IsFiniteSet(AheadOf(u)) /\ Cardinality(AheadOf(u)) <= Cardinality(Copies(u))
      BY <3>1, FS_Subset DEF AheadOf
    <3>3. Cardinality(AheadOf(u)) \in Nat
      BY <3>2, FS_CardinalityType
    <3>4. Held(u) \in 0..1 /\ Called(u) \in 0..1
      BY DEF Held, Called
    <3>5. Used(u) \in Nat
      BY <2>1, <3>4 DEF Used
    <3>6. Left(u) \in Nat /\ Total(u) \in Nat /\ Left(u) <= Total(u)
      BY <3>1, <3>2, <3>3, <3>4 DEF Left, Total
    <3> QED BY <3>1, <3>2, <3>3, <3>4, <3>5, <3>6 DEF CountInv
  <2> QED BY <2>1, <2>2, <2>3 DEF Numbers
<1> QED BY <1>1, TaskInvariant, CountInvariant, PTL

\* A fault of one kind is counted once, and no other kind is.
LEMMA FaultCounts ==
  ASSUME CountInv, NEW k \in FaultKinds, Fault(k)
  PROVE  faults'[k] = faults[k] + 1 /\ \A l \in FaultKinds \ {k} : faults'[l] = faults[l]
  BY DEF CountInv, Fault

\* Arithmetic of the budgets: one delivery less frees a whole budget, one more
\* fault of a kind that repeats deliveries pays for it.
LEMMA CostGrows ==
  \A a, b \in Nat : /\ Cost(a) \in Nat /\ Cost(a + b) = Cost(a) + Cost(b)
                    /\ Cost(1) = MaxRetries + 1 /\ Cost(0) = 0 /\ a <= Cost(a)
                    /\ b <= a => Cost(b) <= Cost(a)
                    /\ b + 1 <= a => Cost(b) + MaxRetries + 1 <= Cost(a)
<1>1. \A m, a, b \in Nat : /\ (m + 1) * a \in Nat /\ (m + 1) * (a + b) = (m + 1) * a + (m + 1) * b
                           /\ (m + 1) * 1 = m + 1 /\ (m + 1) * 0 = 0 /\ a <= (m + 1) * a
                           /\ b <= a => (m + 1) * b <= (m + 1) * a
                           /\ b + 1 <= a => (m + 1) * b + m + 1 <= (m + 1) * a
  OBVIOUS
<1>2. MaxRetries \in Nat
  BY KafkaAssumption DEF KafkaAssumption
<1> QED BY <1>1, <1>2 DEF Cost

LEMMA BudgetIsPaid ==
  ASSUME NEW p \in Nat, NEW x \in Nat
  PROVE  /\ (1 + (p + 1)) * (1 + x) = (1 + p) * (1 + x) + (1 + x)
         /\ (1 + p) * (1 + (x + 1)) = (1 + p) * (1 + x) + (1 + p)
         /\ 1 + p <= (1 + p) * (1 + x)
  OBVIOUS

\* The webhook: what is queued was held, or is paid for by the fault that repeats it.
LEMMA WebhookBudget ==
  ASSUME BudgetInv, Numbers, Numbers', TaskInv, CountInv, NEW v \in Updates, Webhook(v),
         NEW u \in Updates
  PROVE  BudgetOf(u)'
<1> DEFINE d == faults'["repeat"] - faults["repeat"]
<1>1. /\ d \in 0..1
      /\ faults'["crash"] = faults["crash"] /\ faults'["blip"] = faults["blip"]
      /\ Total(u)' <= Total(u) + d /\ Left(u)' <= Left(u) + d
  <2>1. /\ Cardinality(Copies(u)) \in Nat /\ Cardinality(AheadOf(u)) \in Nat
        /\ Cardinality(Copies(u)') \in Nat /\ Cardinality(AheadOf(u)') \in Nat
        /\ IsFiniteSet(Copies(u)) /\ IsFiniteSet(AheadOf(u)) /\ Held(u) \in 0..1 /\ Held(u)' \in 0..1
        /\ faults["repeat"] \in Nat /\ faults["crash"] \in Nat /\ faults["blip"] \in Nat
        /\ Total(u) \in Nat /\ Left(u) \in Nat /\ Total(u)' \in Nat /\ Left(u)' \in Nat
    BY DEF Numbers
  <2>2. /\ taskPos' = taskPos /\ v \in outbox
        /\ Len(task) \in Nat
    BY DEF Webhook, TaskInv
  <2>3. ASSUME task' = task, outbox' = outbox \ {v}
        PROVE  Total(u)' <= Total(u) /\ Left(u)' <= Left(u)
    <3>1. Copies(u)' = Copies(u) /\ AheadOf(u)' = AheadOf(u)
      BY <2>2, <2>3 DEF Copies, AheadOf
    <3>2. Held(u)' <= Held(u)
      BY <2>3 DEF Held
    <3> QED BY <2>1, <3>1, <3>2 DEF Total, Left
  <2>4. ASSUME task' = Append(task, v)
        PROVE  /\ Cardinality(Copies(u)') <= Cardinality(Copies(u)) + (IF u = v THEN 1 ELSE 0)
               /\ Cardinality(AheadOf(u)') <= Cardinality(AheadOf(u)) + (IF u = v THEN 1 ELSE 0)
    <3>1. /\ Copies(u)' \subseteq Copies(u) \cup {Len(task) + 1}
          /\ AheadOf(u)' \subseteq AheadOf(u) \cup {Len(task) + 1}
          /\ u # v => Copies(u)' = Copies(u) /\ AheadOf(u)' = AheadOf(u)
      BY <2>2, <2>4 DEF Copies, AheadOf, TaskInv
    <3>2. /\ Cardinality(Copies(u)') <= Cardinality(Copies(u)) + 1
          /\ Cardinality(AheadOf(u)') <= Cardinality(AheadOf(u)) + 1
      BY <2>1, <3>1, OneMore
    <3> QED BY <2>1, <3>1, <3>2
  <2>5. CASE task' = task /\ outbox' = outbox \ {v} /\ (UNCHANGED faults \/ Fault("lost"))
    <3>1. \A k \in {"repeat", "crash", "blip"} : faults'[k] = faults[k]
      BY <2>5, FaultCounts DEF FaultKinds, Failures
    <3>2. d = 0
      BY <2>1, <3>1
    <3> QED BY <2>1, <2>3, <2>5, <3>1, <3>2
  <2>6. CASE task' = Append(task, v) /\ outbox' = outbox \ {v} /\ UNCHANGED faults
    <3>1. Held(u)' = IF u = v THEN 0 ELSE Held(u)
      BY <2>6 DEF Held
    <3>2. u = v => Held(u) = 1
      BY <2>2 DEF Held
    <3>3. Total(u)' <= Total(u) /\ Left(u)' <= Left(u)
      <4>1. /\ Cardinality(Copies(u)') <= Cardinality(Copies(u)) + (IF u = v THEN 1 ELSE 0)
            /\ Cardinality(AheadOf(u)') <= Cardinality(AheadOf(u)) + (IF u = v THEN 1 ELSE 0)
        BY <2>4, <2>6
      <4> QED BY ONLY <2>1, <3>1, <3>2, <4>1 DEF Total, Left
    <3>4. d = 0 /\ faults' = faults
      BY <2>1, <2>6
    <3> QED BY ONLY <2>1, <3>3, <3>4
  <2>7. CASE task' = Append(task, v) /\ outbox' = outbox /\ Fault("repeat")
    <3>1. /\ faults'["repeat"] = faults["repeat"] + 1
          /\ faults'["crash"] = faults["crash"] /\ faults'["blip"] = faults["blip"]
      BY <2>7, FaultCounts DEF FaultKinds, Failures
    <3>2. Held(u)' = Held(u)
      BY <2>7 DEF Held
    <3>3. Total(u)' <= Total(u) + 1 /\ Left(u)' <= Left(u) + 1
      <4>1. /\ Cardinality(Copies(u)') <= Cardinality(Copies(u)) + (IF u = v THEN 1 ELSE 0)
            /\ Cardinality(AheadOf(u)') <= Cardinality(AheadOf(u)) + (IF u = v THEN 1 ELSE 0)
        BY <2>4, <2>7
      <4> QED BY ONLY <2>1, <3>2, <4>1 DEF Total, Left
    <3>4. d = 1
      BY <2>1, <3>1
    <3> QED BY <2>1, <3>1, <3>3, <3>4
  <2> QED BY <2>5, <2>6, <2>7 DEF Webhook
<1>0. faults'["repeat"] = faults["repeat"] + d
  BY DEF Numbers
<1> HIDE DEF d
<1>2. Called(u)' = Called(u) /\ calls' = calls
  BY DEF Webhook, convVars, turnVars, Called
<1>3. Used(u)' >= Used(u)
  <2>1. CASE taskPos < Len(task) /\ Record = u
    <3>1. taskPos + 1 \in 1..Len(task)
      BY <2>1 DEF TaskInv
    <3>2. task' \in {task, Append(task, v)} /\ UNCHANGED <<taskPos, tries>>
      BY DEF Webhook
    <3>3. taskPos' < Len(task') /\ task'[taskPos + 1] = task[taskPos + 1]
      <4>1. task \in Seq(Updates) /\ taskPos \in Nat
        BY DEF TaskInv
      <4>2. CASE task' = task
        BY ONLY <2>1, <3>2, <4>2
      <4>3. CASE task' = Append(task, v)
        BY ONLY <2>1, <3>1, <3>2, <4>1, <4>3
      <4> QED BY <3>2, <4>2, <4>3
    <3>4. Used(u)' = Used(u)
      BY <1>2, <2>1, <3>2, <3>3 DEF Used, Record
    <3> QED BY <3>4 DEF Numbers
  <2>2. CASE ~(taskPos < Len(task) /\ Record = u)
    <3>1. Used(u) = 0
      BY <2>2 DEF Used
    <3> QED BY <3>1 DEF Numbers
  <2> QED BY <2>1, <2>2
<1>4. /\ Deliveries' \in Nat /\ Deliveries' >= Deliveries + d
  <2>1. faults["repeat"] \in Nat /\ faults["crash"] \in Nat /\ Deliveries \in Nat
    BY DEF Numbers
  <2>2. CASE d = 0
    BY <1>0, <1>1, <2>1, <2>2 DEF Deliveries
  <2>3. CASE d = 1
    <3>1. Deliveries' = Deliveries + (1 + faults["crash"])
      BY <1>0, <1>1, <2>1, <2>3, BudgetIsPaid DEF Deliveries
    <3> QED BY <2>1, <2>3, <3>1
  <2> QED BY <1>1, <2>2, <2>3
<1>5. Cost(Left(u)') <= Cost(Left(u)) + Cost(d) /\ Cost(Deliveries) + Cost(d) <= Cost(Deliveries')
  <2>1. /\ Left(u) \in Nat /\ Left(u)' \in Nat /\ Deliveries \in Nat /\ Deliveries' \in Nat
        /\ d \in Nat /\ Left(u) + d \in Nat /\ Deliveries + d \in Nat
    BY <1>1 DEF Numbers
  <2>2. Cost(Left(u)') <= Cost(Left(u) + d) /\ Cost(Deliveries + d) <= Cost(Deliveries')
    BY <1>1, <1>4, <2>1, CostGrows
  <2> QED BY <2>1, <2>2, CostGrows
<1>6. /\ Cost(Left(u)) \in Nat /\ Cost(Left(u)') \in Nat /\ Cost(d) \in Nat
      /\ Cost(Deliveries) \in Nat /\ Cost(Deliveries') \in Nat
  <2>1. \A a \in Nat : Cost(a) \in Nat
    BY CostGrows
  <2>2. Left(u) \in Nat /\ Left(u)' \in Nat /\ d \in Nat /\ Deliveries \in Nat /\ Deliveries' \in Nat
    BY <1>1 DEF Numbers
  <2> QED BY <2>1, <2>2
<1>7. /\ calls[u] \in Nat /\ Used(u) \in Nat /\ Used(u)' \in Nat /\ Left(u) \in Nat /\ Left(u)' \in Nat
      /\ Called(u) \in Nat /\ Deliveries \in Nat /\ Total(u) \in Nat /\ Total(u)' \in Nat
      /\ faults["repeat"] \in Nat /\ faults["blip"] \in Nat
  BY DEF Numbers
<1>8. (calls[u] + Cost(Left(u)) <= Cost(Deliveries) + Used(u))'
  <2>1. calls[u] + Cost(Left(u)) <= Cost(Deliveries) + Used(u)
    BY DEF BudgetInv, BudgetOf
  <2> QED BY ONLY <1>2, <1>3, <1>5, <1>6, <1>7, <2>1
<1>9. (u \notin Unstorable => calls[u] + Left(u) <= Deliveries + faults["blip"] + Called(u))'
  BY <1>1, <1>2, <1>4, <1>7 DEF BudgetInv, BudgetOf
<1>10. (Total(u) <= 1 + faults["repeat"])'
  BY <1>0, <1>1, <1>7 DEF BudgetInv, BudgetOf
<1> QED BY <1>8, <1>9, <1>10 DEF BudgetOf

\* What is called for the record the listener is at, and paid for by its budget.
CallsOnce(u) ==
  /\ calls'[u] + Called(u) <= calls[u] + 1
  /\ pc[Consumer] = "idle" \/ asked[Consumer] # u => calls'[u] <= calls[u]

LEMMA CountsCallOnce ==
  ASSUME Numbers, CountInv, CountsCall \/ UNCHANGED calls, pc[Consumer] = "generate" \/ UNCHANGED calls,
         NEW u \in Updates
  PROVE  CallsOnce(u)
<1>1. calls[u] \in Nat /\ Called(u) \in 0..1
  BY DEF Numbers
<1>2. CASE UNCHANGED calls
  BY <1>1, <1>2 DEF CallsOnce
<1>3. CASE CountsCall /\ pc[Consumer] = "generate"
  <2>1. Called(u) = 0
    BY <1>3 DEF Called
  <2>2. calls'[u] \in {calls[u], calls[u] + 1} /\ (asked[Consumer] # u => calls'[u] = calls[u])
        /\ pc[Consumer] # "idle"
    BY <1>1, <1>3 DEF CountsCall, CountInv
  <2> QED BY <1>1, <2>1, <2>2 DEF CallsOnce
<1> QED BY <1>2, <1>3

\* The listener passes over the record it is at: a whole budget is freed, and no
\* more than that was used.
LEMMA AdvanceBudget ==
  ASSUME BudgetInv, Numbers, Numbers', TaskInv, TurnInv, NEW u \in Updates, CallsOnce(u),
         taskPos < Len(task), Advances, UNCHANGED <<outbox, task>>, pc'[Consumer] = "idle",
         faults'["repeat"] = faults["repeat"], faults'["crash"] = faults["crash"],
         faults["blip"] <= faults'["blip"]
  PROVE  BudgetOf(u)'
<1>1. /\ calls[u] \in Nat /\ calls'[u] \in Nat /\ Left(u) \in Nat /\ Left(u)' \in Nat
      /\ Used(u)' \in Nat /\ Called(u)' \in Nat /\ Called(u) \in Nat
      /\ Deliveries \in Nat /\ faults["blip"] \in Nat /\ faults'["blip"] \in Nat
      /\ tries \in Nat /\ tries <= MaxRetries /\ MaxRetries \in Nat
      /\ Held(u) \in Nat /\ IsFiniteSet(AheadOf(u))
      /\ Cardinality(AheadOf(u)) \in Nat /\ Cardinality(AheadOf(u)') \in Nat
  <2>1. /\ calls[u] \in Nat /\ Left(u) \in Nat /\ Called(u) \in 0..1 /\ Held(u) \in 0..1
        /\ Deliveries \in Nat /\ faults["blip"] \in Nat /\ tries \in 0..MaxRetries
        /\ MaxRetries \in Nat /\ IsFiniteSet(AheadOf(u)) /\ Cardinality(AheadOf(u)) \in Nat
    BY DEF Numbers
  <2>2. (/\ calls[u] \in Nat /\ Left(u) \in Nat /\ Called(u) \in 0..1 /\ Used(u) \in Nat
         /\ faults["blip"] \in Nat /\ Cardinality(AheadOf(u)) \in Nat)'
    BY DEF Numbers
  <2>3. Called(u)' \in Nat
    BY <2>2
  <2> QED BY <2>1, <2>2, <2>3
<1>2. BudgetOf(u)
  BY DEF BudgetInv
<1>3. Total(u)' = Total(u) /\ Deliveries' = Deliveries /\ Held(u)' = Held(u)
  BY DEF Total, Copies, Held, Deliveries
<1>4. taskPos \in Nat /\ taskPos + 1 \in DOMAIN task /\ taskPos' = taskPos + 1
  BY DEF TaskInv, Advances
<1>5. AheadOf(u)' \subseteq AheadOf(u) \ {taskPos + 1}
  BY <1>4 DEF AheadOf, Copies, TaskInv
<1>6. Cost(Left(u)) \in Nat /\ Cost(Left(u)') \in Nat /\ Cost(Deliveries) \in Nat
  <2>1. \A a \in Nat : Cost(a) \in Nat
    BY CostGrows
  <2> QED BY <1>1, <2>1
<1>7. CASE Record = u
  <2>1. taskPos + 1 \in AheadOf(u)
    BY <1>4, <1>7 DEF AheadOf, Copies, Record
  <2>2. Cardinality(AheadOf(u)') + 1 <= Cardinality(AheadOf(u))
    BY <1>1, <1>5, <2>1, OneLess
  <2>3. Left(u)' + 1 <= Left(u)
    BY ONLY <1>1, <1>3, <2>2 DEF Left
  <2>4. Cost(Left(u)') + MaxRetries + 1 <= Cost(Left(u))
    BY <1>1, <2>3, CostGrows
  <2>5. Used(u) = tries + Called(u)
    BY <1>7 DEF Used
  <2>6. calls'[u] + Called(u) <= calls[u] + 1
    BY DEF CallsOnce
  <2>7. calls[u] + Cost(Left(u)) <= Cost(Deliveries) + tries + Called(u)
    <3>1. calls[u] + Cost(Left(u)) <= Cost(Deliveries) + Used(u)
      BY <1>2 DEF BudgetOf
    <3> QED BY ONLY <1>1, <1>6, <2>5, <3>1
  <2>8. calls'[u] + Cost(Left(u)') <= Cost(Deliveries) + Used(u)'
    <3>0. /\ calls[u] \in Nat /\ calls'[u] \in Nat /\ Called(u) \in Nat
          /\ tries \in Nat /\ tries <= MaxRetries /\ MaxRetries \in Nat
          /\ Cost(Left(u)) \in Nat /\ Cost(Left(u)') \in Nat /\ Cost(Deliveries) \in Nat
      BY <1>1, <1>6
    <3>1. calls'[u] + Cost(Left(u)') <= Cost(Deliveries)
      BY ONLY <2>4, <2>6, <2>7, <3>0
    <3> QED BY ONLY <1>1, <3>0, <3>1
  <2>9. ASSUME u \notin Unstorable
        PROVE  calls'[u] + Left(u)' <= Deliveries + faults'["blip"] + Called(u)'
    <3>0. /\ calls[u] \in Nat /\ calls'[u] \in Nat /\ Left(u) \in Nat /\ Left(u)' \in Nat
          /\ Called(u) \in Nat /\ Called(u)' \in Nat /\ Deliveries \in Nat
          /\ faults["blip"] \in Nat /\ faults'["blip"] \in Nat /\ faults["blip"] <= faults'["blip"]
      BY <1>1
    <3>1. calls[u] + Left(u) <= Deliveries + faults["blip"] + Called(u)
      BY <1>2, <2>9 DEF BudgetOf
    <3> QED BY ONLY <2>3, <2>6, <3>0, <3>1
  <2> QED BY <1>2, <1>3, <2>8, <2>9 DEF BudgetOf
<1>8. CASE Record # u
  <2>1. Cardinality(AheadOf(u)') <= Cardinality(AheadOf(u))
    BY <1>1, <1>5, FS_Subset
  <2>2. Left(u)' <= Left(u)
    BY <1>1, <1>3, <2>1 DEF Left
  <2>3. Cost(Left(u)') <= Cost(Left(u))
    BY <1>1, <2>2, CostGrows
  <2>4. Used(u) = 0 /\ Called(u) = 0 /\ calls'[u] <= calls[u]
    <3>1. pc[Consumer] # "idle" => asked[Consumer] # u
      BY <1>8 DEF TurnInv
    <3>2. Used(u) = 0 /\ Called(u) = 0
      BY <1>8, <3>1 DEF Used, Called
    <3>3. calls'[u] <= calls[u]
      BY <3>1 DEF CallsOnce
    <3> QED BY <3>2, <3>3
  <2>5. calls'[u] + Cost(Left(u)') <= Cost(Deliveries) + Used(u)'
    <3>0. /\ calls[u] \in Nat /\ calls'[u] \in Nat /\ Used(u)' \in Nat
          /\ Cost(Left(u)) \in Nat /\ Cost(Left(u)') \in Nat /\ Cost(Deliveries) \in Nat
      BY <1>1, <1>6
    <3>1. calls[u] + Cost(Left(u)) <= Cost(Deliveries) + Used(u)
      BY <1>2 DEF BudgetOf
    <3> QED BY ONLY <2>3, <2>4, <3>0, <3>1
  <2>6. ASSUME u \notin Unstorable
        PROVE  calls'[u] + Left(u)' <= Deliveries + faults'["blip"] + Called(u)'
    <3>0. /\ calls[u] \in Nat /\ calls'[u] \in Nat /\ Left(u) \in Nat /\ Left(u)' \in Nat
          /\ Called(u) \in Nat /\ Called(u)' \in Nat /\ Deliveries \in Nat
          /\ faults["blip"] \in Nat /\ faults'["blip"] \in Nat /\ faults["blip"] <= faults'["blip"]
      BY <1>1
    <3>1. calls[u] + Left(u) <= Deliveries + faults["blip"] + Called(u)
      BY <1>2, <2>6 DEF BudgetOf
    <3> QED BY ONLY <2>2, <2>4, <3>0, <3>1
  <2> QED BY <1>2, <1>3, <2>5, <2>6 DEF BudgetOf
<1> QED BY <1>7, <1>8

\* While the listener stays at its record the budget is used up by the calls, and
\* by a retry of what failed.
LEMMA StayBudget ==
  ASSUME BudgetInv, Numbers, Numbers', NEW u \in Updates, UNCHANGED <<outbox, task, taskPos>>,
         faults'["repeat"] = faults["repeat"], faults'["crash"] = faults["crash"],
         calls'[u] + Used(u) <= calls[u] + Used(u)',
         u \notin Unstorable =>
           calls'[u] + faults["blip"] + Called(u) <= calls[u] + faults'["blip"] + Called(u)'
  PROVE  BudgetOf(u)'
<1>1. /\ calls[u] \in Nat /\ calls'[u] \in Nat /\ Left(u) \in Nat
      /\ Used(u) \in Nat /\ Used(u)' \in Nat /\ Called(u)' \in Nat /\ Called(u) \in Nat
      /\ Deliveries \in Nat /\ faults["blip"] \in Nat /\ faults'["blip"] \in Nat
  BY DEF Numbers
<1>2. BudgetOf(u)
  BY DEF BudgetInv
<1>3. Total(u)' = Total(u) /\ Deliveries' = Deliveries /\ Left(u)' = Left(u)
  BY DEF Total, Left, AheadOf, Copies, Held, Deliveries
<1>4. Cost(Left(u)) \in Nat /\ Cost(Deliveries) \in Nat
  <2>1. \A a \in Nat : Cost(a) \in Nat
    BY CostGrows
  <2> QED BY <1>1, <2>1
<1>5. calls'[u] + Cost(Left(u)) <= Cost(Deliveries) + Used(u)'
  <2>1. calls[u] + Cost(Left(u)) <= Cost(Deliveries) + Used(u)
    BY <1>2 DEF BudgetOf
  <2>2. calls'[u] + Used(u) <= calls[u] + Used(u)'
    OBVIOUS
  <2> QED BY ONLY <1>1, <1>4, <2>1, <2>2
<1>6. u \notin Unstorable => calls'[u] + Left(u) <= Deliveries + faults'["blip"] + Called(u)'
  BY <1>1, <1>2 DEF BudgetOf
<1> QED BY <1>2, <1>3, <1>5, <1>6 DEF BudgetOf

\* What is used of the budget belongs to a delivery that is still ahead, so what
\* was called is paid for by the deliveries alone.
LEMMA CallsArePaid ==
  ASSUME Numbers, TaskInv, TurnInv, NEW u \in Updates, BudgetOf(u)
  PROVE  /\ calls[u] <= Cost(Deliveries)
         /\ u \notin Unstorable => calls[u] <= Deliveries + faults["blip"]
<1>1. /\ calls[u] \in Nat /\ Left(u) \in Nat /\ Called(u) \in 0..1 /\ Held(u) \in 0..1
      /\ Deliveries \in Nat /\ faults["blip"] \in Nat /\ tries \in 0..MaxRetries
      /\ MaxRetries \in Nat /\ IsFiniteSet(AheadOf(u)) /\ Cardinality(AheadOf(u)) \in Nat
  BY DEF Numbers
<1>2. Cost(Left(u)) \in Nat /\ Cost(Deliveries) \in Nat
  <2>1. \A a \in Nat : Cost(a) \in Nat
    BY CostGrows
  <2> QED BY <1>1, <2>1
<1>3. calls[u] + Cost(Left(u)) <= Cost(Deliveries) + Used(u)
  BY DEF BudgetOf
<1>4. ASSUME u \notin Unstorable
      PROVE  calls[u] + Left(u) <= Deliveries + faults["blip"] + Called(u)
  BY <1>4 DEF BudgetOf
<1>5. CASE taskPos < Len(task) /\ Record = u
  <2>1. taskPos + 1 \in AheadOf(u)
    BY <1>5 DEF AheadOf, Copies, Record, TaskInv
  <2>2. Cardinality({}) + 1 <= Cardinality(AheadOf(u)) /\ Cardinality({}) = 0
    <3>1. {} \subseteq AheadOf(u) \ {taskPos + 1}
      OBVIOUS
    <3>2. Cardinality({}) = 0
      BY FS_EmptySet
    <3>3. Cardinality({}) + 1 <= Cardinality(AheadOf(u))
      BY <1>1, <2>1, <3>1, OneLess
    <3> QED BY <3>2, <3>3
  <2>3. 1 <= Left(u)
    BY <1>1, <2>2 DEF Left
  <2>4. MaxRetries + 1 <= Cost(Left(u))
    <3>1. Cost(0) = 0 /\ 0 \in Nat /\ 0 + 1 <= Left(u)
      BY <2>3, CostGrows
    <3>2. Cost(0) + MaxRetries + 1 <= Cost(Left(u))
      BY <1>1, <3>1, CostGrows
    <3> QED BY <1>1, <3>1, <3>2
  <2>5. Used(u) = tries + Called(u)
    BY <1>5 DEF Used
  <2>6. Used(u) \in Nat /\ Used(u) <= MaxRetries + 1
    BY <1>1, <2>5
  <2>7. calls[u] <= Cost(Deliveries)
    BY <1>1, <1>2, <1>3, <2>4, <2>6
  <2>8. u \notin Unstorable => calls[u] <= Deliveries + faults["blip"]
    BY <1>1, <1>4, <2>3
  <2> QED BY <2>7, <2>8
<1>6. CASE ~(taskPos < Len(task) /\ Record = u)
  <2>1. Used(u) = 0
    BY <1>6 DEF Used
  <2>2. Called(u) = 0
    BY <1>6 DEF Called, TurnInv, TaskInv
  <2>3. u \notin Unstorable => calls[u] <= Deliveries + faults["blip"]
    BY <1>1, <1>4, <2>2
  <2> QED BY <1>1, <1>2, <1>3, <2>1, <2>3
<1> QED BY <1>5, <1>6

\* The process dies: every record may be delivered once more, which the crash pays for.
LEMMA CrashBudget ==
  ASSUME BudgetInv, Numbers, Numbers', TaskInv, TurnInv, CountInv, Crash, NEW u \in Updates
  PROVE  BudgetOf(u)'
<1>1. /\ calls[u] \in Nat /\ Left(u) \in Nat /\ Left(u)' \in Nat /\ Total(u) \in Nat
      /\ Total(u)' \in Nat /\ Left(u)' <= Total(u)' /\ Cardinality(AheadOf(u)) \in Nat
      /\ Cardinality(Copies(u)) \in Nat /\ Cardinality(Copies(u)') \in Nat
      /\ IsFiniteSet(Copies(u)) /\ IsFiniteSet(AheadOf(u))
      /\ Used(u)' \in Nat /\ Called(u)' \in Nat /\ Held(u) \in Nat
      /\ Deliveries \in Nat /\ Deliveries' \in Nat
      /\ faults["repeat"] \in Nat /\ faults["crash"] \in Nat /\ faults["blip"] \in Nat
  BY DEF Numbers
<1>2. BudgetOf(u)
  BY DEF BudgetInv
<1>3. /\ faults'["repeat"] = faults["repeat"] /\ faults'["blip"] = faults["blip"]
      /\ faults'["crash"] = faults["crash"] + 1
  BY FaultCounts DEF Crash, FaultKinds, Failures
<1>4. calls' = calls /\ outbox' = outbox
  BY DEF Crash
<1>5. Total(u)' <= Total(u)
  <2>1. PICK n \in taskPos..Len(task) : task' = SubSeq(task, 1, n)
    BY DEF Crash
  <2>2. DOMAIN task' \subseteq DOMAIN task /\ \A i \in DOMAIN task' : task'[i] = task[i]
    BY <2>1 DEF TaskInv
  <2>3. Copies(u)' \subseteq Copies(u)
    BY <2>2 DEF Copies
  <2>4. Cardinality(Copies(u)') <= Cardinality(Copies(u)) /\ Held(u)' = Held(u)
    BY <1>1, <1>4, <2>3, FS_Subset DEF Held
  <2>5. Cardinality(Copies(u)) \in Nat /\ Cardinality(Copies(u)') \in Nat /\ Held(u) \in 0..1
    BY DEF Numbers
  <2> QED BY ONLY <2>4, <2>5 DEF Total
<1>6. Deliveries' = Deliveries + (1 + faults["repeat"])
  BY <1>1, <1>3, BudgetIsPaid DEF Deliveries
<1>7. Total(u)' <= 1 + faults["repeat"]
  BY <1>1, <1>2, <1>5 DEF BudgetOf
<1>8. Left(u)' <= 1 + faults["repeat"]
  BY <1>1, <1>7
<1>9. /\ Cost(Left(u)) \in Nat /\ Cost(Left(u)') \in Nat /\ Cost(Deliveries) \in Nat
      /\ Cost(1 + faults["repeat"]) \in Nat /\ 1 + faults["repeat"] \in Nat
      /\ Cost(Left(u)') <= Cost(1 + faults["repeat"])
      /\ Cost(Deliveries') = Cost(Deliveries) + Cost(1 + faults["repeat"])
  <2>1. \A a \in Nat : Cost(a) \in Nat
    BY CostGrows
  <2>2. 1 + faults["repeat"] \in Nat
    BY <1>1
  <2>3. Cost(Left(u)') <= Cost(1 + faults["repeat"])
    BY <1>1, <1>8, <2>2, CostGrows
  <2>4. Cost(Deliveries + (1 + faults["repeat"])) = Cost(Deliveries) + Cost(1 + faults["repeat"])
    BY <1>1, <2>2, CostGrows
  <2> QED BY <1>1, <1>6, <2>1, <2>2, <2>3, <2>4
<1>10. calls[u] <= Cost(Deliveries) /\ (u \notin Unstorable => calls[u] <= Deliveries + faults["blip"])
  BY <1>2, CallsArePaid
<1>11. calls'[u] + Cost(Left(u)') <= Cost(Deliveries') + Used(u)'
  BY <1>1, <1>4, <1>9, <1>10
<1>12. u \notin Unstorable => calls'[u] + Left(u)' <= Deliveries' + faults'["blip"] + Called(u)'
  BY <1>1, <1>3, <1>4, <1>6, <1>8, <1>10
<1> QED BY <1>3, <1>7, <1>11, <1>12 DEF BudgetOf

\* No step calls the LLM for a question beyond what its deliveries pay for.
LEMMA BudgetStep ==
  ASSUME BudgetInv, Numbers, Numbers', TaskInv, TurnInv, CountInv, ConvInv, [Next]_vars,
         NEW u \in Updates
  PROVE  BudgetOf(u)'
<1> USE KafkaAssumption DEF KafkaAssumption
<1>0. /\ calls[u] \in Nat /\ Used(u) \in Nat /\ Called(u) \in 0..1 /\ faults["blip"] \in Nat
      /\ tries \in 0..MaxRetries /\ Consumer \in Threads /\ DOMAIN pc = Threads
  BY DEF Numbers, TaskInv
<1>1. ASSUME UNCHANGED calls PROVE CallsOnce(u)
  BY <1>1, CountsCallOnce
<1>2. ASSUME UNCHANGED <<outbox, task, taskPos, calls>>, Used(u)' = Used(u), Called(u)' = Called(u),
             \A k \in {"repeat", "crash", "blip"} : faults'[k] = faults[k]
      PROVE  BudgetOf(u)'
  BY <1>0, <1>2, StayBudget
<1>3. ASSUME UNCHANGED <<turnVars, outbox, task, taskPos, tries, calls>>,
             \A k \in {"repeat", "crash", "blip"} : faults'[k] = faults[k]
      PROVE  BudgetOf(u)'
  <2>1. Called(u)' = Called(u) /\ Used(u)' = Used(u)
    BY <1>3 DEF turnVars, Called, Used, Record
  <2> QED BY <1>2, <1>3, <2>1
<1>4. ASSUME Advances, taskPos < Len(task), UNCHANGED <<outbox, task>>, pc'[Consumer] = "idle",
             CallsOnce(u), faults'["repeat"] = faults["repeat"], faults'["crash"] = faults["crash"],
             faults["blip"] <= faults'["blip"]
      PROVE  BudgetOf(u)'
  BY <1>4, AdvanceBudget
<1>5. ASSUME NEW v \in Updates, Webhook(v) PROVE BudgetOf(u)'
  BY <1>5, WebhookBudget
<1>6. CASE SkipBlank
  BY <1>0, <1>1, <1>4, <1>6 DEF SkipBlank, HasRecord, convVars, turnVars
<1>7. CASE Consume
  <2>1. Called(u)' = Called(u)
    BY <1>0, <1>7 DEF Consume, HasRecord, Take, Called, ConvInv, ConvTypeOK
  <2>2. Used(u)' = Used(u)
    BY <1>7, <2>1 DEF Consume, taskVars, Used, Record
  <2> QED BY <1>2, <1>7, <2>1, <2>2 DEF Consume, taskVars
<1>8. CASE Respond
  <2>1. pc[Consumer] # "idle" /\ taskPos < Len(task) /\ asked[Consumer] = Record
    BY <1>8 DEF Respond, TurnStep, HitCache, MissCache, Generate, Store, Persist, TaskInv, TurnInv
  <2>2. UNCHANGED <<outbox, task, taskPos, tries, faults, asked>>
    BY <1>8 DEF Respond, taskVars, TurnStep, HitCache, MissCache, Generate, Store, Persist
  <2>3. calls'[u] + Called(u) <= calls[u] + Called(u)'
    <3>1. CASE pc[Consumer] = "generate"
      <4>1. pc'[Consumer] = "store" /\ CountsCall
        BY <1>0, <1>8, <3>1 DEF Respond, TurnStep, HitCache, MissCache, Generate, Store, Persist,
                                ConvInv, ConvTypeOK
      <4>2. Called(u) = 0 /\ Called(u)' = (IF asked[Consumer] = u THEN 1 ELSE 0)
        BY <2>2, <3>1, <4>1 DEF Called
      <4>3. calls'[u] <= calls[u] + (IF asked[Consumer] = u THEN 1 ELSE 0)
        BY <1>0, <4>1 DEF CountsCall, CountInv
      <4>4. calls'[u] \in Nat
        BY DEF Numbers
      <4> QED BY ONLY <1>0, <4>2, <4>3, <4>4
    <3>2. CASE pc[Consumer] # "generate"
      <4>1. pc[Consumer] \in {"store", "persist", "return"} =>
              pc'[Consumer] \in {"store", "persist", "return"}
        BY <1>0, <1>8, <3>2 DEF Respond, TurnStep, HitCache, MissCache, Generate, Store, Persist,
                                ConvInv, ConvTypeOK
      <4>2. Called(u)' \in 0..1 /\ (Called(u) = 1 => Called(u)' = 1)
        BY <2>2, <4>1 DEF Called
      <4>3. calls' = calls
        BY <1>8, <3>2 DEF Respond
      <4>4. Called(u) <= Called(u)'
        BY <1>0, <4>2
      <4> QED BY <1>0, <4>2, <4>3, <4>4
    <3> QED BY <3>1, <3>2
  <2>4. calls'[u] + Used(u) <= calls[u] + Used(u)'
    <3>0. calls'[u] \in Nat /\ Called(u)' \in 0..1
      BY DEF Numbers
    <3>1. CASE Record = u
      <4>1. Used(u) = tries + Called(u) /\ Used(u)' = tries + Called(u)'
        BY <2>1, <2>2, <3>1 DEF Used, Record
      <4> QED BY ONLY <1>0, <2>3, <3>0, <4>1
    <3>2. CASE Record # u
      <4>1. Used(u) = 0 /\ Used(u)' = 0 /\ Called(u) = 0 /\ Called(u)' = 0
        BY <2>1, <2>2, <3>2 DEF Used, Called, Record
      <4> QED BY ONLY <1>0, <2>3, <3>0, <4>1
    <3> QED BY <3>1, <3>2
  <2>5. calls'[u] + faults["blip"] + Called(u) <= calls[u] + faults'["blip"] + Called(u)'
    <3>0. calls'[u] \in Nat /\ Called(u)' \in 0..1
      BY DEF Numbers
    <3> QED BY ONLY <1>0, <2>2, <2>3, <3>0
  <2> QED BY <2>2, <2>4, <2>5, StayBudget
<1>9. ASSUME CallsOnce(u), pc[Consumer] # "idle", pc'[Consumer] = "idle", CountsTry,
             UNCHANGED <<outbox, task, taskPos>>,
             faults'["repeat"] = faults["repeat"], faults'["crash"] = faults["crash"],
             \/ faults'["blip"] = faults["blip"] + 1
             \/ faults'["blip"] = faults["blip"] /\ asked[Consumer] \in Unstorable
      PROVE  BudgetOf(u)'
  <2>1. taskPos < Len(task) /\ asked[Consumer] = Record
    BY <1>9 DEF TaskInv, TurnInv
  <2>2. calls'[u] + Called(u) <= calls[u] + 1 /\ (asked[Consumer] # u => calls'[u] <= calls[u])
    BY <1>9 DEF CallsOnce
  <2>3. calls'[u] \in Nat /\ Called(u)' = 0 /\ (asked[Consumer] # u => Called(u) = 0)
    BY <1>9 DEF Numbers, Called
  <2>4. calls'[u] + Used(u) <= calls[u] + Used(u)'
    <3>1. CASE Record = u
      <4>1. Used(u) = tries + Called(u) /\ Used(u)' = tries + 1
        BY <1>0, <1>9, <2>1, <2>3, <3>1 DEF Used, Record, CountsTry
      <4> QED BY ONLY <1>0, <2>2, <2>3, <4>1
    <3>2. CASE Record # u
      <4>1. Used(u) = 0 /\ Used(u)' = 0
        BY <1>9, <3>2 DEF Used, Record
      <4> QED BY <1>0, <2>1, <2>2, <2>3, <3>2, <4>1
    <3> QED BY <3>1, <3>2
  <2>5. ASSUME u \notin Unstorable
        PROVE  calls'[u] + faults["blip"] + Called(u) <= calls[u] + faults'["blip"] + Called(u)'
    BY ONLY <1>0, <1>9, <2>2, <2>3, <2>5
  <2> QED BY <1>9, <2>4, <2>5, StayBudget
<1>10. CASE SendReply
  <2>1. pc[Consumer] # "idle" /\ pc'[Consumer] = "idle" /\ UNCHANGED <<outbox, task, calls>> /\ Advances
    BY <1>0, <1>10 DEF SendReply, Returns, Drops
  <2>2. \A k \in {"repeat", "crash", "blip"} : faults'[k] = faults[k]
    BY <1>10, FaultCounts DEF SendReply, FaultKinds, Failures
  <2> QED BY <1>0, <1>1, <1>4, <2>1, <2>2 DEF TaskInv
<1>11. ASSUME NEW k \in Failures, ConsumeFails(k) PROVE BudgetOf(u)'
  <2>1. pc[Consumer] # "idle" /\ pc'[Consumer] = "idle" /\ UNCHANGED <<outbox, task>> /\ Handles(k)
    BY <1>0, <1>11 DEF ConsumeFails, Raises, Drops, Handles
  <2>2. /\ faults'["repeat"] = faults["repeat"] /\ faults'["crash"] = faults["crash"]
        /\ faults'["blip"] = faults["blip"] + (IF k = "blip" THEN 1 ELSE 0)
    <3>1. faults'[k] = faults[k] + 1 /\ \A l \in FaultKinds \ {k} : faults'[l] = faults[l]
      BY <1>11, FaultCounts DEF ConsumeFails, FaultKinds
    <3> QED BY <1>0, <3>1 DEF FaultKinds, Failures
  <2>3. CallsOnce(u)
    BY <1>11, CountsCallOnce DEF ConsumeFails
  <2>4. CASE Retries(k)
    <3>1. k = "blip" /\ CountsTry /\ UNCHANGED taskPos
      BY <2>1, <2>4 DEF Retries, NotRetryable, Failures, Handles
    <3> QED BY <1>9, <2>1, <2>2, <2>3, <3>1
  <2>5. CASE ~Retries(k)
    <3>1. Advances /\ taskPos < Len(task) /\ faults["blip"] <= faults'["blip"]
      BY <1>0, <2>1, <2>2, <2>5 DEF Handles, TaskInv
    <3> QED BY <1>4, <2>1, <2>2, <2>3, <3>1
  <2> QED BY <2>4, <2>5
<1>12. CASE StoreRefused
  <2>1. /\ pc[Consumer] # "idle" /\ pc'[Consumer] = "idle" /\ UNCHANGED <<outbox, task, calls, faults>>
        /\ Handles("blip") /\ asked[Consumer] \in Unstorable
    BY <1>0, <1>12 DEF StoreRefused, Refused, Raises, Drops, Handles
  <2>2. CASE Retries("blip")
    <3>1. CountsTry /\ UNCHANGED taskPos
      BY <2>1, <2>2 DEF Handles
    <3> QED BY <1>1, <1>9, <2>1, <3>1
  <2>3. CASE ~Retries("blip")
    <3>1. Advances /\ taskPos < Len(task) /\ faults["blip"] <= faults'["blip"]
      BY <1>0, <2>1, <2>3 DEF Handles, TaskInv
    <3> QED BY <1>1, <1>4, <2>1, <3>1
  <2> QED BY <2>2, <2>3
<1>13. CASE CommitTask \/ ConsumeReply \/ CommitReply \/ Expires \/ UNCHANGED vars
  BY <1>3, <1>13 DEF CommitTask, ConsumeReply, CommitReply, Expires, Expire, vars, convVars, taskVars
<1>14. ASSUME NEW o \in Outcomes, PostReply(o) PROVE BudgetOf(u)'
  <2>1. \A k \in {"repeat", "crash", "blip"} : faults'[k] = faults[k]
    BY <1>14, FaultCounts DEF PostReply, FaultKinds, Failures
  <2> QED BY <1>3, <1>14, <2>1 DEF PostReply, convVars, taskVars
<1>15. CASE Crash
  BY <1>15, CrashBudget
<1> QED BY <1>5, <1>6, <1>7, <1>8, <1>10, <1>11, <1>12, <1>13, <1>14, <1>15
        DEF Next, TaskStep, ReplyStep

\* At first every question is to be delivered once, and nothing was called.
LEMMA BudgetInit ==
  ASSUME Init, Numbers
  PROVE  BudgetInv
<1> SUFFICES ASSUME NEW u \in Updates PROVE BudgetOf(u)
  BY DEF BudgetInv
<1> USE KafkaAssumption DEF KafkaAssumption
<1>1. /\ faults["repeat"] = 0 /\ faults["crash"] = 0 /\ faults["blip"] = 0
      /\ calls[u] = 0 /\ Held(u) = 1
  BY DEF Init, FaultKinds, Failures, Held
<1>2. Copies(u) = {} /\ AheadOf(u) = {} /\ Cardinality({}) = 0
  BY FS_EmptySet DEF Init, Copies, AheadOf
<1>3. Total(u) = 1 /\ Left(u) = 1 /\ Deliveries = 1
  BY <1>1, <1>2 DEF Total, Left, Deliveries
<1>4. Used(u) \in Nat /\ Called(u) = 0 /\ Cost(1) \in Nat
  <2>1. \A a \in Nat : Cost(a) \in Nat
    BY CostGrows
  <2>2. pc[Consumer] = "idle"
    BY DEF Init, ConvInit
  <2> QED BY <2>1, <2>2 DEF Numbers, Called
<1> QED BY <1>1, <1>3, <1>4 DEF BudgetOf

\* KafkaErrorHandlerConfig.java:15-26.  An LLM call too many needs a second
\* delivery of the question or the failure of something other than the LLM, and
\* a delivery never costs more than one call and MaxRetries retries: whatever
\* the questions, the topics' contents and the order of faults.
THEOREM CallsBoundedTheorem == Spec => []CallsAreBounded
<1>1. Init /\ Numbers => BudgetInv
  BY BudgetInit
<1>2. /\ BudgetInv /\ Numbers /\ Numbers' /\ TaskInv /\ TurnInv /\ CountInv /\ ConvInv
      /\ [Next]_vars
      => BudgetInv'
  BY BudgetStep DEF BudgetInv
<1>3. BudgetInv /\ Numbers /\ TaskInv /\ TurnInv => CallsAreBounded
  <2> SUFFICES ASSUME BudgetInv, Numbers, TaskInv, TurnInv, NEW u \in Updates
               PROVE  /\ u \notin Unstorable => calls[u] <= Deliveries + faults["blip"]
                      /\ calls[u] <= Deliveries * (MaxRetries + 1)
    BY DEF CallsAreBounded, Deliveries
  <2>1. /\ calls[u] <= Cost(Deliveries)
        /\ u \notin Unstorable => calls[u] <= Deliveries + faults["blip"]
    BY CallsArePaid DEF BudgetInv
  <2>2. Cost(Deliveries) = Deliveries * (MaxRetries + 1)
    <3>1. \A a, b \in Nat : a * b = b * a
      OBVIOUS
    <3>2. Deliveries \in Nat /\ MaxRetries + 1 \in Nat
      BY DEF Numbers
    <3> QED BY <3>1, <3>2 DEF Cost
  <2> QED BY <2>1, <2>2
<1> QED BY <1>1, <1>2, <1>3, NumbersInvariant, TaskInvariant, TurnInvariant, CountInvariant,
           TurnsImplemented, ConvInvariant, PTL DEF Spec

-----------------------------------------------------------------------------
(* The order of the replies                                                  *)

\* Without a crash or a repeated webhook a question is in task once.
TaskOnce ==
  /\ \A i, j \in DOMAIN task : task[i] = task[j] => i = j
  /\ \A i \in DOMAIN task : task[i] \notin outbox

\* The replies are to questions the listener is past, in their order.
ReplyOrder ==
  /\ \A m \in DOMAIN reply : \E i \in 1..taskPos : task[i] = reply[m].ask
  /\ \A m, n \in DOMAIN reply : m < n =>
       \A k \in Copies(reply[m].ask), l \in Copies(reply[n].ask) : k < l

\* What was sent is a reply the other listener is past, or the one it is at when
\* the first of its two posts got through although it raised.
SentOrder ==
  /\ sending["reply"] # "idle" => parcel["reply"] = reply[replyPos + 1]
  /\ \A i \in DOMAIN sent : \E m \in DOMAIN reply :
       /\ sent[i] = reply[m]
       /\ m <= replyPos \/ (m = replyPos + 1 /\ sending["reply"] = "plain" /\ faults["post"] > 0)
  /\ \A i, j \in DOMAIN sent : i < j =>
       \A k \in Copies(sent[i].ask), l \in Copies(sent[j].ask) :
         k <= l /\ (faults["post"] = 0 => k # l)

OrderInv == TaskOnce /\ ReplyOrder /\ SentOrder

Calm == faults["crash"] = 0 /\ faults["repeat"] = 0
CalmInv == Calm => OrderInv

Logs ==
  /\ task \in Seq(Updates) /\ DOMAIN task = 1..Len(task) /\ Len(task) \in Nat
  /\ taskPos \in Nat /\ taskPos <= Len(task)
  /\ DOMAIN reply = 1..Len(reply) /\ Len(reply) \in Nat
  /\ replyPos \in Nat /\ replyPos <= Len(reply)
  /\ DOMAIN sent = 1..Len(sent) /\ Len(sent) \in Nat
  /\ faults["post"] \in Nat

LEMMA LogsAreSequences ==
  ASSUME TaskInv, ReplyInv, CountInv
  PROVE  Logs
<1>1. faults["post"] \in Nat
  BY DEF CountInv, FaultKinds
<1> QED BY <1>1 DEF Logs, TaskInv, ReplyInv

\* A step of the listener of task that answers nothing keeps the order.
LEMMA QuietOrder ==
  ASSUME OrderInv, Logs, UNCHANGED <<telegramVars, outbox, task, reply, replyPos>>,
         taskPos' \in Nat, taskPos <= taskPos', faults'["post"] = faults["post"]
  PROVE  OrderInv'
<1>1. TaskOnce'
  BY DEF OrderInv, TaskOnce
<1>2. \A u : Copies(u)' = Copies(u)
  BY DEF Copies
<1>3. ReplyOrder'
  <2>1. 1..taskPos \subseteq 1..taskPos'
    BY DEF Logs
  <2> QED BY <1>2, <2>1 DEF OrderInv, ReplyOrder
<1>4. SentOrder'
  BY <1>2 DEF OrderInv, SentOrder, telegramVars
<1> QED BY <1>1, <1>3, <1>4 DEF OrderInv

\* The webhook that is not repeated queues a question that is not in task yet.
LEMMA WebhookOrder ==
  ASSUME OrderInv, Logs, CountInv, NEW u \in outbox, outbox' = outbox \ {u},
         task' = Append(task, u), UNCHANGED <<telegramVars, taskPos, reply, replyPos>>,
         faults'["post"] = faults["post"]
  PROVE  OrderInv'
<1>1. /\ DOMAIN task' = 1..(Len(task) + 1) /\ task'[Len(task) + 1] = u
      /\ \A i \in DOMAIN task : task'[i] = task[i]
  BY DEF Logs, CountInv
<1>2. \A i \in DOMAIN task : task[i] # u
  BY DEF OrderInv, TaskOnce
<1>3. TaskOnce'
  BY <1>1, <1>2 DEF OrderInv, TaskOnce, Logs
<1>4. ASSUME NEW v, v # u PROVE Copies(v)' = Copies(v)
  BY <1>1, <1>4 DEF Copies, Logs
<1>5. \A m \in DOMAIN reply : reply[m].ask # u
  <2>1. 1..taskPos \subseteq DOMAIN task
    BY DEF Logs
  <2> QED BY <1>2, <2>1 DEF OrderInv, ReplyOrder
<1>6. \A i \in DOMAIN sent : sent[i].ask # u
  BY <1>5 DEF OrderInv, SentOrder
<1>7. ReplyOrder'
  <2>1. \A i \in 1..taskPos : task'[i] = task[i]
    BY <1>1 DEF Logs
  <2>2. \A m \in DOMAIN reply' : \E i \in 1..taskPos' : task'[i] = reply'[m].ask
    BY <2>1 DEF OrderInv, ReplyOrder
  <2>3. \A m \in DOMAIN reply : Copies(reply[m].ask)' = Copies(reply[m].ask)
    BY <1>4, <1>5
  <2>4. \A m, n \in DOMAIN reply' : m < n =>
          \A k \in Copies(reply[m].ask)', l \in Copies(reply[n].ask)' : k < l
    BY <2>3 DEF OrderInv, ReplyOrder
  <2> QED BY <2>2, <2>4 DEF ReplyOrder
<1>8. SentOrder'
  BY <1>4, <1>6 DEF OrderInv, SentOrder, telegramVars
<1> QED BY <1>3, <1>7, <1>8 DEF OrderInv

\* The listener of task answers the question it is at.
LEMMA AnswerOrder ==
  ASSUME OrderInv, Logs, NEW e, e.ask = Record, taskPos < Len(task), taskPos' = taskPos + 1,
         reply \in Seq(messages \cup {e}), reply' = Append(reply, e),
         sending["reply"] # "idle" => replyPos < Len(reply),
         UNCHANGED <<telegramVars, outbox, task, replyPos>>, faults'["post"] = faults["post"]
  PROVE  OrderInv'
<1>1. /\ DOMAIN reply' = 1..(Len(reply) + 1) /\ reply'[Len(reply) + 1] = e
      /\ \A m \in DOMAIN reply : reply'[m] = reply[m]
  BY DEF Logs
<1>2. \A u : Copies(u)' = Copies(u)
  BY DEF Copies
<1>3. TaskOnce'
  BY DEF OrderInv, TaskOnce
<1>4. \A l \in Copies(e.ask) : l = taskPos + 1
  BY DEF OrderInv, TaskOnce, Copies, Record, Logs
<1>5. \A m \in DOMAIN reply : \A k \in Copies(reply[m].ask) : k <= taskPos
  <2> SUFFICES ASSUME NEW m \in DOMAIN reply, NEW k \in Copies(reply[m].ask) PROVE k <= taskPos
    OBVIOUS
  <2>1. PICK i \in 1..taskPos : task[i] = reply[m].ask
    BY DEF OrderInv, ReplyOrder
  <2>2. k = i
    BY <2>1 DEF OrderInv, TaskOnce, Copies, Logs
  <2> QED BY <2>1, <2>2 DEF Logs
<1>6. ReplyOrder'
  <2>1. \A m \in DOMAIN reply' : \E i \in 1..taskPos' : task'[i] = reply'[m].ask
    <3>1. 1..taskPos \subseteq 1..taskPos' /\ taskPos + 1 \in 1..taskPos'
      BY DEF Logs
    <3> QED BY <1>1, <3>1 DEF OrderInv, ReplyOrder, Record, Logs
  <2>2. ASSUME NEW m \in DOMAIN reply', NEW n \in DOMAIN reply', m < n,
               NEW k \in Copies(reply'[m].ask), NEW l \in Copies(reply'[n].ask)
        PROVE  k < l
    <3>1. m \in DOMAIN reply
      BY <1>1, <2>2 DEF Logs
    <3>2. CASE n \in DOMAIN reply
      BY <1>1, <2>2, <3>1, <3>2 DEF OrderInv, ReplyOrder
    <3>3. CASE n = Len(reply) + 1
      <4>1. k <= taskPos /\ l = taskPos + 1 /\ k \in Nat
        BY <1>1, <1>4, <1>5, <2>2, <3>1, <3>3 DEF Copies, Logs
      <4> QED BY <4>1 DEF Logs
    <3> QED BY <1>1, <3>2, <3>3 DEF Logs
  <2> QED BY <1>2, <2>1, <2>2 DEF ReplyOrder
<1>7. SentOrder'
  <2>1. sending["reply"] # "idle" => reply'[replyPos + 1] = reply[replyPos + 1]
    BY <1>1 DEF Logs
  <2>2. DOMAIN reply \subseteq DOMAIN reply' /\ \A m \in DOMAIN reply : reply'[m] = reply[m]
    BY <1>1 DEF Logs
  <2>3. (sending["reply"] # "idle" => parcel["reply"] = reply[replyPos + 1])'
    BY <2>1 DEF OrderInv, SentOrder, telegramVars
  <2>4. (\A i \in DOMAIN sent : \E m \in DOMAIN reply :
           /\ sent[i] = reply[m]
           /\ m <= replyPos \/ (m = replyPos + 1 /\ sending["reply"] = "plain" /\ faults["post"] > 0))'
    BY <2>2 DEF OrderInv, SentOrder, telegramVars
  <2>5. (\A i, j \in DOMAIN sent : i < j =>
           \A k \in Copies(sent[i].ask), l \in Copies(sent[j].ask) :
             k <= l /\ (faults["post"] = 0 => k # l))'
    BY <1>2 DEF OrderInv, SentOrder, telegramVars
  <2> QED BY <2>3, <2>4, <2>5 DEF SentOrder
<1> QED BY <1>3, <1>6, <1>7 DEF OrderInv

\* A post is of the reply the listener is at, behind all those it is past.
LEMMA PostOrder ==
  ASSUME OrderInv, Logs, ReplyInv, CountInv, NEW o \in Outcomes, PostReply(o)
  PROVE  OrderInv'
<1> USE KafkaAssumption DEF KafkaAssumption
<1>1. /\ UNCHANGED <<outbox, task, taskPos, reply>> /\ sending["reply"] # "idle"
      /\ replyPos < Len(reply) /\ parcel["reply"] = reply[replyPos + 1]
      /\ DOMAIN sending = {"reply"} /\ DOMAIN parcel = {"reply"}
      /\ sending["reply"] \in {"html", "plain"}
  BY DEF PostReply, Post, taskVars, OrderInv, SentOrder, ReplyInv
<1>2. \A u : Copies(u)' = Copies(u)
  BY <1>1 DEF Copies
<1>3. TaskOnce' /\ ReplyOrder'
  BY <1>1, <1>2 DEF OrderInv, TaskOnce, ReplyOrder
<1>4. faults'["post"] = faults["post"] + (IF Harmless("reply", o) THEN 0 ELSE 1)
  BY FaultCounts DEF PostReply, FaultKinds, Logs
<1>5. \/ sending'["reply"] = "idle" /\ replyPos' = replyPos + 1
      \/ /\ sending["reply"] = "html" /\ o # "delivered"
         /\ sending'["reply"] = "plain" /\ replyPos' = replyPos /\ parcel'["reply"] = parcel["reply"]
  BY <1>1 DEF PostReply, Post, FallsBack
<1>6. (sending["reply"] # "idle" => parcel["reply"] = reply[replyPos + 1])'
  BY <1>1, <1>5
<1>7. ASSUME NEW m \in DOMAIN reply,
             m <= replyPos \/ (m = replyPos + 1 /\ sending["reply"] = "plain" /\ faults["post"] > 0)
      PROVE  (m <= replyPos \/ (m = replyPos + 1 /\ sending["reply"] = "plain" /\ faults["post"] > 0))'
  <2>1. (m \in Nat /\ replyPos \in Nat /\ sending["reply"] # "html") \/ m <= replyPos
    BY <1>7 DEF Logs
  <2> QED BY <1>5, <1>7, <2>1 DEF Logs
<1>8. CASE o = "refused"
  <2>1. sent' = sent
    BY <1>8 DEF PostReply, Post
  <2>2. faults'["post"] = 0 => faults["post"] = 0
    BY <1>4 DEF Logs
  <2>3. (\A i \in DOMAIN sent : \E m \in DOMAIN reply :
           /\ sent[i] = reply[m]
           /\ m <= replyPos \/ (m = replyPos + 1 /\ sending["reply"] = "plain" /\ faults["post"] > 0))'
    BY <1>1, <1>7, <2>1 DEF OrderInv, SentOrder
  <2>4. (\A i, j \in DOMAIN sent : i < j =>
           \A k \in Copies(sent[i].ask), l \in Copies(sent[j].ask) :
             k <= l /\ (faults["post"] = 0 => k # l))'
    BY <1>2, <2>1, <2>2 DEF OrderInv, SentOrder
  <2> QED BY <1>3, <1>6, <2>3, <2>4 DEF OrderInv, SentOrder
<1>9. CASE o # "refused"
  <2>1. /\ DOMAIN sent' = 1..(Len(sent) + 1) /\ sent'[Len(sent) + 1] = reply[replyPos + 1]
        /\ \A i \in DOMAIN sent : sent'[i] = sent[i]
    BY <1>1, <1>9 DEF PostReply, Post, Logs, ReplyInv
  <2>2. replyPos + 1 \in DOMAIN reply
    BY <1>1 DEF Logs
  <2>3. sending'["reply"] = "plain" => faults'["post"] > 0
    BY <1>4, <1>5, <1>9 DEF Outcomes, Harmless, Logs
  <2>4. (\A i \in DOMAIN sent : \E m \in DOMAIN reply :
           /\ sent[i] = reply[m]
           /\ m <= replyPos \/ (m = replyPos + 1 /\ sending["reply"] = "plain" /\ faults["post"] > 0))'
    <3> SUFFICES ASSUME NEW i \in DOMAIN sent'
                 PROVE  \E m \in DOMAIN reply :
                          /\ sent'[i] = reply[m]
                          /\ \/ m <= replyPos'
                             \/ m = replyPos' + 1 /\ sending'["reply"] = "plain" /\ faults'["post"] > 0
      BY <1>1
    <3>1. CASE i = Len(sent) + 1
      <4>1. replyPos + 1 <= replyPos' \/ (replyPos + 1 = replyPos' + 1 /\ sending'["reply"] = "plain")
        BY <1>5 DEF Logs
      <4> WITNESS replyPos + 1 \in DOMAIN reply
      <4> QED BY <2>1, <2>3, <3>1, <4>1
    <3>2. CASE i \in DOMAIN sent
      BY <1>7, <2>1, <3>2 DEF OrderInv, SentOrder
    <3> QED BY <2>1, <3>1, <3>2 DEF Logs
  <2>5. ASSUME NEW i \in DOMAIN sent, NEW k \in Copies(sent[i].ask),
               NEW l \in Copies(reply[replyPos + 1].ask)
        PROVE  k <= l /\ (faults'["post"] = 0 => k # l)
    <3>1. PICK m \in DOMAIN reply :
            /\ sent[i] = reply[m]
            /\ m <= replyPos \/ (m = replyPos + 1 /\ sending["reply"] = "plain" /\ faults["post"] > 0)
      BY DEF OrderInv, SentOrder
    <3>2. k \in Nat /\ l \in Nat
      BY DEF Copies, Logs
    <3>3. CASE m <= replyPos
      <4>1. m < replyPos + 1
        BY <3>3 DEF Logs
      <4>2. k < l
        BY <2>2, <3>1, <4>1 DEF OrderInv, ReplyOrder
      <4> QED BY <3>2, <4>2
    <3>4. CASE m = replyPos + 1 /\ faults["post"] > 0
      <4>1. k = l
        BY <3>1, <3>4 DEF OrderInv, TaskOnce, Copies
      <4>2. faults'["post"] # 0
        BY <1>4, <3>4 DEF Logs
      <4> QED BY <3>2, <4>1, <4>2
    <3> QED BY <3>1, <3>3, <3>4
  <2>6. (\A i, j \in DOMAIN sent : i < j =>
           \A k \in Copies(sent[i].ask), l \in Copies(sent[j].ask) :
             k <= l /\ (faults["post"] = 0 => k # l))'
    <3> SUFFICES ASSUME NEW i \in DOMAIN sent', NEW j \in DOMAIN sent', i < j,
                        NEW k \in Copies(sent'[i].ask), NEW l \in Copies(sent'[j].ask)
                 PROVE  k <= l /\ (faults'["post"] = 0 => k # l)
      BY <1>2
    <3>1. i \in DOMAIN sent
      BY <2>1 DEF Logs
    <3>2. CASE j \in DOMAIN sent
      <4>1. k <= l /\ (faults["post"] = 0 => k # l)
        BY <2>1, <3>1, <3>2 DEF OrderInv, SentOrder
      <4>2. faults'["post"] = 0 => faults["post"] = 0
        BY <1>4 DEF Logs
      <4> QED BY <4>1, <4>2
    <3>3. CASE j = Len(sent) + 1
      BY <2>1, <2>5, <3>1, <3>3
    <3> QED BY <2>1, <3>2, <3>3 DEF Logs
  <2> QED BY <1>3, <1>6, <2>4, <2>6 DEF OrderInv, SentOrder
<1> QED BY <1>8, <1>9

\* The listener of reply takes the next reply.
LEMMA ConsumeReplyOrder ==
  ASSUME OrderInv, Logs, ReplyInv, ConsumeReply
  PROVE  OrderInv'
<1> USE KafkaAssumption DEF KafkaAssumption
<1>1. /\ UNCHANGED <<outbox, task, taskPos, reply, replyPos, sent, faults>>
      /\ sending["reply"] = "idle" /\ parcel'["reply"] = reply[replyPos + 1]
  BY DEF ConsumeReply, SendMessage, taskVars, replyVars, ReplyInv
<1>2. \A u : Copies(u)' = Copies(u)
  BY <1>1 DEF Copies
<1>3. TaskOnce' /\ ReplyOrder'
  BY <1>1, <1>2 DEF OrderInv, TaskOnce, ReplyOrder
<1>4. \A i \in DOMAIN sent : \E m \in DOMAIN reply : sent[i] = reply[m] /\ m <= replyPos
  BY <1>1 DEF OrderInv, SentOrder
<1>5. (\A i, j \in DOMAIN sent : i < j =>
         \A k \in Copies(sent[i].ask), l \in Copies(sent[j].ask) :
           k <= l /\ (faults["post"] = 0 => k # l))'
  BY <1>1, <1>2 DEF OrderInv, SentOrder
<1> QED BY <1>1, <1>3, <1>4, <1>5 DEF OrderInv, SentOrder

\* No step without a crash or a repeated webhook disturbs the order.
LEMMA OrderStep ==
  ASSUME OrderInv, TaskInv, TurnInv, ReplyInv, CountInv, ConvInv, Calm, Calm', [Next]_vars
  PROVE  OrderInv'
<1> USE KafkaAssumption DEF KafkaAssumption
<1>1. Logs
  BY LogsAreSequences
<1>2. ~Fault("crash") /\ ~Fault("repeat")
  BY FaultCounts DEF Calm, FaultKinds
<1>3. ASSUME UNCHANGED <<telegramVars, outbox, task, taskPos, reply, replyPos, faults>> PROVE OrderInv'
  BY <1>1, <1>3, QuietOrder DEF Logs
<1>4. ASSUME NEW u \in Updates, Webhook(u) PROVE OrderInv'
  <2>1. u \in outbox /\ UNCHANGED <<telegramVars, taskPos, reply, replyPos>>
    BY <1>4 DEF Webhook, replyVars
  <2>2. CASE outbox' = outbox \ {u} /\ task' = task /\ (UNCHANGED faults \/ Fault("lost"))
    <3>1. faults'["post"] = faults["post"]
      BY <2>2, FaultCounts DEF FaultKinds
    <3>2. \A v : Copies(v)' = Copies(v)
      BY <2>2 DEF Copies
    <3>3. TaskOnce'
      BY <2>2 DEF OrderInv, TaskOnce
    <3>4. ReplyOrder'
      BY <2>1, <2>2, <3>2 DEF OrderInv, ReplyOrder
    <3>5. SentOrder'
      BY <2>1, <3>1, <3>2 DEF OrderInv, SentOrder, telegramVars
    <3> QED BY <3>3, <3>4, <3>5 DEF OrderInv
  <2>3. CASE outbox' = outbox \ {u} /\ task' = Append(task, u) /\ UNCHANGED faults
    BY <1>1, <2>1, <2>3, WebhookOrder
  <2> QED BY <1>2, <1>4, <2>2, <2>3 DEF Webhook
<1>5. CASE SendReply
  <2>1. Exchange(Consumer) \in messages /\ Exchange(Consumer).ask = Record /\ taskPos < Len(task)
        /\ Advances /\ UNCHANGED <<telegramVars, outbox, task, replyPos>>
    BY <1>5 DEF SendReply, Returns, ConvInv, RecordedOwnAnswer, Exchange, TurnInv, TaskInv
  <2>2. faults'["post"] = faults["post"]
    BY <1>5, FaultCounts DEF SendReply, FaultKinds
  <2>3. CASE reply' = Append(reply, Exchange(Consumer))
    <3>1. reply \in Seq(messages \cup {Exchange(Consumer)})
      BY DEF ReplyInv
    <3>2. sending["reply"] # "idle" => replyPos < Len(reply)
      BY DEF ReplyInv
    <3> QED BY <1>1, <2>1, <2>2, <2>3, <3>1, <3>2, AnswerOrder DEF Advances
  <2>4. CASE reply' = reply
    BY <1>1, <2>1, <2>2, <2>4, QuietOrder DEF Advances, Logs
  <2> QED BY <1>5, <2>3, <2>4 DEF SendReply
<1>6. ASSUME NEW k \in Failures, ConsumeFails(k) \/ StoreRefused PROVE OrderInv'
  <2>1. UNCHANGED <<telegramVars, outbox, task, reply, replyPos>> /\ taskPos' \in {taskPos, taskPos + 1}
    BY <1>6 DEF ConsumeFails, StoreRefused, Handles, Advances, replyVars
  <2>2. faults'["post"] = faults["post"]
    BY <1>6, FaultCounts DEF ConsumeFails, StoreRefused, Failures, FaultKinds
  <2> QED BY <1>1, <2>1, <2>2, QuietOrder DEF Logs
<1>7. CASE SkipBlank
  BY <1>1, <1>7, QuietOrder DEF SkipBlank, Advances, replyVars, Logs
<1>8. CASE Consume \/ Respond \/ CommitTask \/ CommitReply \/ Expires \/ UNCHANGED vars
  BY <1>3, <1>8 DEF Consume, Respond, CommitTask, CommitReply, Expires, vars, taskVars, replyVars
<1>9. CASE ConsumeReply
  BY <1>1, <1>9, ConsumeReplyOrder
<1>10. ASSUME NEW o \in Outcomes, PostReply(o) PROVE OrderInv'
  BY <1>1, <1>10, PostOrder
<1>11. ~Crash
  BY <1>2 DEF Crash
<1>12. StoreRefused => OrderInv'
  <2>1. "blip" \in Failures
    BY DEF Failures
  <2> QED BY <1>6, <2>1
<1> QED BY <1>4, <1>5, <1>6, <1>7, <1>8, <1>9, <1>10, <1>11, <1>12 DEF Next, TaskStep, ReplyStep

\* A crash or a repeated webhook is never forgotten.
LEMMA CalmBefore ==
  ASSUME CountInv, [Next]_vars, Calm'
  PROVE  Calm
<1>1. faults["crash"] \in Nat /\ faults["repeat"] \in Nat
  BY DEF CountInv, FaultKinds
<1>2. faults' = faults \/ \E k \in FaultKinds : Fault(k)
  BY DEF Next, TaskStep, ReplyStep, Webhook, SkipBlank, Consume, Respond, StoreRefused, SendReply,
         ConsumeFails, CommitTask, ConsumeReply, PostReply, CommitReply, Crash, Expires, vars,
         FaultKinds
<1>3. ASSUME NEW k \in FaultKinds, Fault(k)
      PROVE  faults'["crash"] >= faults["crash"] /\ faults'["repeat"] >= faults["repeat"]
  <2>1. faults'[k] = faults[k] + 1 /\ \A l \in FaultKinds \ {k} : faults'[l] = faults[l]
    BY <1>3, FaultCounts
  <2> QED BY <1>1, <2>1 DEF FaultKinds
<1> QED BY <1>1, <1>2, <1>3 DEF Calm

LEMMA CalmInvariant == Spec => []CalmInv
<1>1. Init => CalmInv
  <2>1. Init => TaskOnce /\ ReplyOrder /\ SentOrder
    BY KafkaAssumption DEF KafkaAssumption, Init, TelegramInit, TaskOnce, ReplyOrder, SentOrder
  <2> QED BY <2>1 DEF CalmInv, OrderInv
<1>2. /\ CalmInv /\ TaskInv /\ TurnInv /\ ReplyInv /\ CountInv /\ ConvInv /\ [Next]_vars
      => CalmInv'
  BY CalmBefore, OrderStep DEF CalmInv
<1> QED BY <1>1, <1>2, TaskInvariant, TurnInvariant, ReplyInvariant, CountInvariant,
           TurnsImplemented, ConvInvariant, PTL DEF Spec

\* KafkaProducerService.java:28-32, 55-59 key the records by user.  Without a
\* crash or a repeated webhook a user's replies keep the order of the questions:
\* retries, lost sends and Telegram's fallback reorder nothing.
THEOREM InOrderTheorem == Spec => []RepliesInOrder
<1>1. CalmInv => RepliesInOrder
  BY DEF CalmInv, Calm, OrderInv, SentOrder, RepliesInOrder
<1> QED BY <1>1, CalmInvariant, PTL

\* AgentService.java:36-42.  The retries of a failed turn never repeat a reply:
\* the user sees one twice only after a crash, a repeated webhook or a post that
\* got through although it raised.
THEOREM NoRepeatTheorem == Spec => []RetriesRepeatNoReply
<1>1. TaskInv /\ ReplyInv /\ CountInv /\ CalmInv => RetriesRepeatNoReply
  <2> SUFFICES ASSUME TaskInv, ReplyInv, CountInv, OrderInv, faults["post"] = 0, NEW u \in Updates
               PROVE  Cardinality(Sends(u)) <= 1
    BY DEF CalmInv, Calm, RetriesRepeatNoReply
  <2>1. Logs
    BY LogsAreSequences
  <2>2. ASSUME NEW i \in Sends(u), NEW j \in Sends(u), i < j PROVE FALSE
    <3>1. i \in DOMAIN sent /\ j \in DOMAIN sent /\ sent[i].ask = u /\ sent[j].ask = u
      BY DEF Sends
    <3>2. PICK k \in 1..taskPos : task[k] = u
      BY <3>1 DEF OrderInv, SentOrder, ReplyOrder
    <3>3. k \in Copies(u)
      BY <2>1, <3>2 DEF Copies, Logs
    <3> QED BY <2>2, <3>1, <3>3 DEF OrderInv, SentOrder
  <2>3. \A i, j \in Sends(u) : i = j
    BY <2>1, <2>2 DEF Sends, Logs
  <2>4. CASE Sends(u) = {}
    <3>1. Cardinality({}) = 0
      BY FS_EmptySet
    <3> QED BY <2>4, <3>1
  <2>5. CASE \E i : i \in Sends(u)
    <3>1. PICK i : Sends(u) = {i}
      BY <2>3, <2>5
    <3>2. \A x : Cardinality({x}) = 1
      BY FS_Singleton
    <3> QED BY <3>1, <3>2
  <2> QED BY <2>4, <2>5
<1> QED BY <1>1, TaskInvariant, ReplyInvariant, CountInvariant, CalmInvariant, PTL
=============================================================================
