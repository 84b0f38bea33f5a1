---------------------------- MODULE InlineIntake ----------------------------
(***************************************************************************)
(* ghostwriter in the prod profile: InlineMessageIntake.  The webhook puts *)
(* the question on the queue of a pool of daemon threads; a thread runs    *)
(* the turn and delivers its reply to Telegram itself.  A turn that raises *)
(* is logged and dropped.  The tables outlive the process, the queue and   *)
(* the turns do not.                                                       *)
(***************************************************************************)
EXTENDS Conversation, Telegram

CONSTANTS
  Textless,   \* updates without a message or without text
  MaxFaults   \* bound: faults in a behaviour

IntakeAssumption ==
  /\ Parcels = Exchanges /\ Senders = Threads
  /\ Textless \subseteq Updates /\ MaxFaults \in Nat

ASSUME IntakeAssumption

VARIABLES
  outbox,     \* updates Telegram has still to post
  proc,       \* life of the process
  queue,      \* queue of the executor
  accepted,   \* history: how often a question was put on the queue
  calls,      \* history: LLM calls for a question
  faults      \* history: faults of each kind

vars == <<convVars, telegramVars, outbox, proc, queue, accepted, calls, faults>>

FaultKinds == {"raise", "repeat", "post", "stop", "crash"}
FaultCount(f) == f["raise"] + f["repeat"] + f["post"] + f["stop"] + f["crash"]

Fault(k) ==
  /\ FaultCount(faults) < MaxFaults
  /\ faults' = [faults EXCEPT ![k] = @ + 1]

TypeOK ==
  /\ ConvTypeOK /\ TelegramTypeOK
  /\ outbox \subseteq Updates
  /\ proc \in {"up", "closing", "down"}
  /\ queue \in Seq(Updates)
  /\ accepted \in [Updates -> Nat] /\ calls \in [Updates -> Nat]
  /\ faults \in [FaultKinds -> Nat]

Init ==
  /\ ConvInit /\ TelegramInit
  /\ outbox = Updates /\ proc = "up" /\ queue = <<>>
  /\ accepted = [u \in Updates |-> 0] /\ calls = [u \in Updates |-> 0]
  /\ faults = [k \in FaultKinds |-> 0]

-----------------------------------------------------------------------------
\* ApiController and accept: answered 200 at once.  Telegram posts the update
\* again when it does not see the answer; nothing looks at its update_id.
Webhook(u) ==
  /\ u \in outbox /\ proc = "up"
  /\ \/ /\ u \in Textless
        /\ outbox' = outbox \ {u} /\ UNCHANGED <<queue, accepted, faults>>
     \/ /\ u \notin Textless
        /\ queue' = Append(queue, u) /\ accepted' = [accepted EXCEPT ![u] = @ + 1]
        /\ \/ outbox' = outbox \ {u} /\ UNCHANGED faults
           \/ UNCHANGED outbox /\ Fault("repeat")
  /\ UNCHANGED <<convVars, telegramVars, proc, calls>>

Idle(t) == pc[t] = "idle" /\ sending[t] = "idle"

\* an idle thread takes the oldest question, blank or not
Dequeues_Keeps == queue' = queue
Dequeues == queue' = Tail(queue)

Start(t) ==
  /\ proc # "down" /\ Idle(t) /\ queue # <<>>
  /\ Take(t, Head(queue)) /\ Dequeues
  /\ UNCHANGED <<telegramVars, outbox, proc, accepted, calls, faults>>

Counts(t) ==
  calls' = IF pc[t] = "generate" THEN [calls EXCEPT ![asked[t]] = @ + 1] ELSE calls

Respond(t) ==
  /\ TurnStep(t) /\ Counts(t)
  /\ UNCHANGED <<telegramVars, outbox, proc, queue, accepted, faults>>

Reply(t) ==
  /\ Returns(t) /\ SendMessage(t, Exchange(t))
  /\ UNCHANGED <<outbox, proc, queue, accepted, calls, faults>>

\* respond raises: the exception is logged
Drop_Requeues(t) ==
  /\ Raises(t) /\ Fault("raise") /\ Counts(t)
  /\ queue' = Append(queue, asked[t])
  /\ UNCHANGED <<telegramVars, outbox, proc, accepted>>
Drop_KeepsThread(t) ==
  /\ pc[t] # "idle" /\ Fault("raise") /\ Counts(t)
  /\ pc' = [pc EXCEPT ![t] = "dead"]
  /\ UNCHANGED <<asked, answer, cache, messages, telegramVars, outbox, proc, queue, accepted>>
Drop_ClearsQueue(t) ==
  /\ Raises(t) /\ Fault("raise") /\ Counts(t)
  /\ queue' = <<>>
  /\ UNCHANGED <<telegramVars, outbox, proc, accepted>>
Drop(t) ==
  /\ Raises(t) /\ Fault("raise") /\ Counts(t)
  /\ UNCHANGED <<telegramVars, outbox, proc, queue, accepted>>

PostReply(t, o) ==
  /\ Post(t, o)
  /\ IF Harmless(t, o) THEN UNCHANGED faults ELSE Fault("post")
  /\ UNCHANGED <<convVars, outbox, proc, queue, accepted, calls>>

-----------------------------------------------------------------------------
\* @PreDestroy: the pool takes nothing new and works its queue off
Shutdown ==
  /\ proc = "up" /\ Fault("stop") /\ proc' = "closing"
  /\ UNCHANGED <<convVars, telegramVars, outbox, queue, accepted, calls>>

\* the JVM does not wait for daemon threads
Gone ==
  /\ proc' = "down" /\ queue' = <<>> /\ Dies /\ SendersDie
  /\ UNCHANGED <<outbox, accepted, calls>>

Exit == proc = "closing" /\ Gone /\ UNCHANGED faults
Crash == proc = "up" /\ Fault("crash") /\ Gone

Restart ==
  /\ proc = "down" /\ proc' = "up"
  /\ UNCHANGED <<convVars, telegramVars, outbox, queue, accepted, calls, faults>>

Expires ==
  /\ \E e \in cache : Expire(e)
  /\ UNCHANGED <<telegramVars, outbox, proc, queue, accepted, calls, faults>>

ThreadStep(t) == Start(t) \/ Respond(t) \/ Reply(t) \/ \E o \in Outcomes : PostReply(t, o)

Next ==
  \/ \E u \in Updates : Webhook(u)
  \/ \E t \in Threads : ThreadStep(t) \/ Drop(t)
  \/ Shutdown \/ Exit \/ Crash \/ Restart \/ Expires

Spec == Init /\ [][Next]_vars

\* Telegram posts what it holds, every thread of the pool runs, and the
\* container's restart policy brings the process back.
FairSpec ==
  /\ Spec
  /\ \A u \in Updates : WF_vars(Webhook(u))
  /\ \A t \in Threads : WF_vars(ThreadStep(t))
  /\ WF_vars(Exit) /\ WF_vars(Restart)

-----------------------------------------------------------------------------
(* Properties                                                                *)

Sends(u) == {i \in DOMAIN sent : sent[i].ask = u}

\* ConversationService.java:45-52 before InlineMessageIntake.java:49.
RecordedFirst == \A i \in DOMAIN sent : sent[i] \in messages

\* InlineMessageIntake.java:18-20, DEPLOYMENT.md:88-93, "no retry storms".  For
\* each time a question was accepted the LLM is called at most once, whatever
\* failed, and a cache hit does not call it.
NeverRepeated == \A u \in Updates : calls[u] <= accepted[u]

\* InlineMessageIntake.java:48-51.  A question is answered at most as often as it
\* was accepted, save for posts that got through although they raised.
RepliesAreBounded ==
  \A u \in Updates : Cardinality(Sends(u)) <= accepted[u] + faults["post"]

\* InlineMessageIntake.java:46-53.  A turn that raises costs its own question the
\* answer and nothing else: the thread lives on, and as long as the process does,
\* no more questions stay unanswered than turns raised.
RaisesCostOneAnswerEach ==
  <>(\/ Cardinality({u \in Updates \ Textless : Sends(u) = {}}) <= faults["raise"]
     \/ \E k \in {"post", "stop", "crash"} : faults[k] > 0)
=============================================================================
