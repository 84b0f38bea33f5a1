--------------------------- MODULE KafkaPipeline ---------------------------
(***************************************************************************)
(* ghostwriter in the dev profile: the webhook publishes to the topic task *)
(* (KafkaMessageIntake, KafkaProducerService), AgentService.consume runs   *)
(* the turn under the error handler of KafkaErrorHandlerConfig and         *)
(* publishes to the topic reply, and ReplyConsumer delivers to Telegram.   *)
(* Each topic is one log and each listener one thread.  The topics, their  *)
(* committed offsets and the tables survive a crash; the positions, the    *)
(* failed attempts and the turn do not.                                    *)
(***************************************************************************)
EXTENDS Conversation, Telegram

CONSTANTS
  Consumer,    \* the thread of the task listener
  Textless,    \* updates without a message or without text
  Blank,       \* updates whose text is empty once trimmed
  Unstorable,  \* questions the LLM answers without content, which aiResponse refuses
  MaxRetries,  \* FixedBackOff(1000L, 2)
  MaxFaults,   \* bound: faults in a behaviour
  MaxCalls     \* bound: LLM calls are counted up to this

KafkaAssumption ==
  /\ Threads = {Consumer}
  /\ Parcels = Exchanges /\ Senders = {"reply"}
  /\ Textless \subseteq Updates /\ Blank \subseteq Updates \ Textless
  /\ Unstorable \subseteq Updates
  /\ MaxRetries \in Nat /\ MaxFaults \in Nat /\ MaxCalls \in Nat

ASSUME KafkaAssumption

VARIABLES
  outbox,                         \* updates Telegram has still to post
  task, taskPos, taskCommitted,   \* the log, and the listener's two offsets in it
  tries,                          \* failed attempts of the record at taskPos + 1
  reply, replyPos, replyCommitted,
  calls,                          \* history: LLM calls for a question
  faults                          \* history: faults of each kind

taskVars == <<task, taskPos, taskCommitted, tries>>
replyVars == <<reply, replyPos, replyCommitted>>
vars == <<convVars, telegramVars, outbox, taskVars, replyVars, calls, faults>>

\* client: the LLM rejects the request; transient: the LLM answers 5xx or cannot
\* be reached; blip: the database, the embedding or a tool raises
Failures == {"client", "transient", "blip"}
FaultKinds == Failures \cup {"repeat", "lost", "post", "crash"}
FaultCount(f) == f["client"] + f["transient"] + f["blip"] + f["repeat"] + f["lost"] + f["post"]
                 + f["crash"]

Fault(k) ==
  /\ FaultCount(faults) < MaxFaults
  /\ faults' = [faults EXCEPT ![k] = @ + 1]

TypeOK ==
  /\ ConvTypeOK /\ TelegramTypeOK
  /\ outbox \subseteq Updates
  /\ task \in Seq(Updates) /\ taskPos \in 0..Len(task) /\ taskCommitted \in 0..taskPos
  /\ tries \in 0..MaxRetries
  /\ reply \in Seq(Exchanges) /\ replyPos \in 0..Len(reply) /\ replyCommitted \in 0..replyPos
  /\ calls \in [Updates -> Nat]
  /\ faults \in [FaultKinds -> Nat]

Init ==
  /\ ConvInit /\ TelegramInit
  /\ outbox = Updates
  /\ task = <<>> /\ taskPos = 0 /\ taskCommitted = 0 /\ tries = 0
  /\ reply = <<>> /\ replyPos = 0 /\ replyCommitted = 0
  /\ calls = [u \in Updates |-> 0]
  /\ faults = [k \in FaultKinds |-> 0]

-----------------------------------------------------------------------------
(* The webhook                                                               *)

\* answered at once; the send to task is asynchronous and its failure is logged
Webhook(u) ==
  /\ u \in outbox
  /\ \/ /\ u \in Textless
        /\ outbox' = outbox \ {u} /\ UNCHANGED <<task, faults>>
     \/ /\ u \notin Textless
        /\ \/ task' = Append(task, u) /\ outbox' = outbox \ {u} /\ UNCHANGED faults
           \/ UNCHANGED task /\ outbox' = outbox \ {u} /\ Fault("lost")
           \/ task' = Append(task, u) /\ UNCHANGED outbox /\ Fault("repeat")
  /\ UNCHANGED <<convVars, telegramVars, taskPos, taskCommitted, tries, replyVars, calls>>

-----------------------------------------------------------------------------
(* The listener of task: AgentService.consume                                *)

Record == task[taskPos + 1]
HasRecord == pc[Consumer] = "idle" /\ taskPos < Len(task)

Advances == taskPos' = taskPos + 1 /\ tries' = 0

SkipBlank ==
  /\ HasRecord /\ Record \in Blank
  /\ Advances
  /\ UNCHANGED <<convVars, telegramVars, outbox, task, taskCommitted, replyVars, calls, faults>>

Consume ==
  /\ HasRecord /\ Record \notin Blank
  /\ Take(Consumer, Record)
  /\ UNCHANGED <<telegramVars, outbox, taskVars, replyVars, calls, faults>>

\* history: the LLM is called for the question of the turn
CountsCall ==
  calls' = [calls EXCEPT ![asked[Consumer]] = IF @ < MaxCalls THEN @ + 1 ELSE @]

Refused == pc[Consumer] = "store" /\ asked[Consumer] \in Unstorable

Respond ==
  /\ ~Refused /\ TurnStep(Consumer)
  /\ IF pc[Consumer] = "generate" THEN CountsCall ELSE UNCHANGED calls
  /\ UNCHANGED <<telegramVars, outbox, taskVars, replyVars, faults>>

\* the send to reply is asynchronous too; consume returns and the offset moves on
SendReply ==
  /\ Returns(Consumer)
  /\ Advances
  /\ \/ reply' = Append(reply, Exchange(Consumer)) /\ UNCHANGED faults
     \/ UNCHANGED reply /\ Fault("lost")
  /\ UNCHANGED <<telegramVars, outbox, task, taskCommitted, replyPos, replyCommitted, calls>>

\* DefaultErrorHandler: an LLM exception, of either kind an AnthropicException or
\* an HttpClientErrorException, is not retried
NotRetryable_Nothing == {}
NotRetryable == {"client", "transient"}

Retries_OneMore(k) == k \notin NotRetryable /\ tries <= MaxRetries
Retries_Never(k) == FALSE
Retries(k) == k \notin NotRetryable /\ tries < MaxRetries

CountsTry_Forgotten == UNCHANGED tries
CountsTry == tries' = tries + 1

\* the record is sought again for a retry, or given up and passed over
Handles(k) ==
  /\ IF Retries(k) THEN CountsTry /\ UNCHANGED taskPos ELSE Advances
  /\ UNCHANGED <<telegramVars, outbox, task, taskCommitted, replyVars>>

ConsumeFails_Requeues(k) ==
  /\ Raises(Consumer) /\ Fault(k)
  /\ Advances /\ task' = Append(task, Record)
  /\ UNCHANGED <<telegramVars, outbox, taskCommitted, replyVars, calls>>
ConsumeFails(k) ==
  /\ Raises(Consumer)
  /\ k \in (IF pc[Consumer] = "generate" THEN Failures ELSE {"blip"})
  /\ Fault(k)
  /\ Handles(k)
  /\ IF pc[Consumer] = "generate" THEN CountsCall ELSE UNCHANGED calls

StoreRefused ==
  /\ Refused
  /\ Raises(Consumer) /\ Handles("blip")
  /\ UNCHANGED <<calls, faults>>

\* the container commits what the listener has done with
CommitTask ==
  /\ pc[Consumer] = "idle" /\ taskCommitted < taskPos
  /\ taskCommitted' = taskPos
  /\ UNCHANGED <<convVars, telegramVars, outbox, task, taskPos, tries, replyVars, calls, faults>>

-----------------------------------------------------------------------------
(* The listener of reply: ReplyConsumer.consume                              *)

ConsumeReply ==
  /\ replyPos < Len(reply)
  /\ SendMessage("reply", reply[replyPos + 1])
  /\ UNCHANGED <<convVars, outbox, taskVars, replyVars, calls, faults>>

PostReply(o) ==
  /\ Post("reply", o)
  /\ replyPos' = IF sending'["reply"] = "idle" THEN replyPos + 1 ELSE replyPos
  /\ IF Harmless("reply", o) THEN UNCHANGED faults ELSE Fault("post")
  /\ UNCHANGED <<convVars, outbox, taskVars, reply, replyCommitted, calls>>

CommitReply ==
  /\ sending["reply"] = "idle" /\ replyCommitted < replyPos
  /\ replyCommitted' = replyPos
  /\ UNCHANGED <<convVars, telegramVars, outbox, taskVars, reply, replyPos, calls, faults>>

-----------------------------------------------------------------------------

\* The process dies and is started again: the listeners resume at the committed
\* offsets, and what the producer had not yet flushed is gone.
Crash ==
  /\ Fault("crash")
  /\ Dies /\ SendersDie
  /\ \E n \in taskPos..Len(task) : task' = SubSeq(task, 1, n)
  /\ \E n \in replyPos..Len(reply) : reply' = SubSeq(reply, 1, n)
  /\ taskPos' = taskCommitted /\ replyPos' = replyCommitted /\ tries' = 0
  /\ UNCHANGED <<outbox, taskCommitted, replyCommitted, calls>>

Expires ==
  /\ \E e \in cache : Expire(e)
  /\ UNCHANGED <<telegramVars, outbox, taskVars, replyVars, calls, faults>>

TaskStep == SkipBlank \/ Consume \/ Respond \/ StoreRefused \/ SendReply
ReplyStep == ConsumeReply \/ \E o \in Outcomes : PostReply(o)

Next ==
  \/ \E u \in Updates : Webhook(u)
  \/ TaskStep \/ (\E k \in Failures : ConsumeFails(k)) \/ CommitTask
  \/ ReplyStep \/ CommitReply
  \/ Crash \/ Expires

Spec == Init /\ [][Next]_vars

\* Telegram posts what it holds, and each listener's thread runs.  Commits,
\* expiry and faults are not fair.
FairSpec ==
  /\ Spec
  /\ \A u \in Updates : WF_vars(Webhook(u))
  /\ WF_vars(TaskStep) /\ WF_vars(ReplyStep)

-----------------------------------------------------------------------------
(* Properties                                                                *)

Sends(u) == {i \in DOMAIN sent : sent[i].ask = u}
Copies(u) == {i \in DOMAIN task : task[i] = u}

\* ConversationService.java:45-52 before AgentService.java:38.  A reply that
\* reaches the user is in Message, for this question, also when the turn that
\* produced it was retried or cut off by a crash.
RecordedFirst == \A i \in DOMAIN sent : sent[i] \in messages

\* KafkaErrorHandlerConfig.java:15-26.  An LLM call too many needs a second
\* delivery of the question or the failure of something other than the LLM, and
\* a delivery never costs more than one call and MaxRetries retries.
CallsAreBounded ==
  \A u \in Updates :
    LET deliveries == (1 + faults["repeat"]) * (1 + faults["crash"])
    IN  /\ u \notin Unstorable => calls[u] <= deliveries + faults["blip"]
        /\ calls[u] <= deliveries * (MaxRetries + 1)

\* AgentService.java:36-42.  The retries of a failed turn never repeat a reply:
\* the user sees one twice only after a crash, a repeated webhook or a post that
\* got through although it raised.
RetriesRepeatNoReply ==
  faults["crash"] = 0 /\ faults["repeat"] = 0 /\ faults["post"] = 0 =>
    \A u \in Updates : Cardinality(Sends(u)) <= 1

\* KafkaProducerService.java:28-32, 55-59 key the records by user.  Without a
\* crash or a repeated webhook a user's replies keep the order of the questions.
RepliesInOrder ==
  faults["crash"] = 0 /\ faults["repeat"] = 0 =>
    \A i, j \in DOMAIN sent : i < j /\ UserOf[sent[i].ask] = UserOf[sent[j].ask] =>
      \A k \in Copies(sent[i].ask), l \in Copies(sent[j].ask) : k <= l

\* AgentService.java:27-43 with the error handler.  A record that always fails
\* holds up the records behind it for MaxRetries retries, not for ever.
TasksPass ==
  \A i \in 1..(Cardinality(Updates) + MaxFaults) :
    Len(task) >= i ~> taskPos >= i \/ Len(task) < i

\* The whole way from the webhook to the chat: failures a retry can mend, at most
\* MaxRetries of them, and repeated webhooks leave no question unanswered.
AnsweredDespiteBlips ==
  \A u \in Updates \ (Textless \cup Blank \cup Unstorable) :
    <>(\/ Sends(u) # {}
       \/ faults["blip"] > MaxRetries
       \/ \E k \in {"client", "transient", "lost", "post", "crash"} : faults[k] > 0)

\* KafkaErrorHandlerConfig.java:15-17, "Transient blips (5xx, network) still get
\* two retries": after a transient failure with retries left the record is tried
\* again.
TransientIsRetried ==
  [][ConsumeFails("transient") /\ faults'["transient"] > faults["transient"] /\ tries < MaxRetries
       => taskPos' = taskPos]_vars
=============================================================================
