------------------------ MODULE InlineIntake_proofs ------------------------
(* Theorems about the production intake of InlineIntake.tla.               *)
EXTENDS InlineIntake, Conversation_proofs

\* Whatever is being delivered, or has been, is in Message.
DeliveryInv ==
  /\ \A s \in Senders : sending[s] # "idle" => parcel[s] \in messages
  /\ sending \in [Senders -> {"idle", "html", "plain"}]
  /\ parcel \in [Senders -> Exchanges \cup {NoParcel}]
  /\ sent \in Seq(Exchanges)
  /\ RecordedFirst

\* Only questions are queued.
QueueInv == queue \in Seq(Updates)

\* In every reachable state the queue holds nothing but questions of the webhook.
LEMMA QueueInvariant == Spec => []QueueInv
<1>1. Init => QueueInv
  BY DEF Init, QueueInv
<1>2. QueueInv /\ [Next]_vars => QueueInv'
  <2> SUFFICES ASSUME QueueInv, [Next]_vars PROVE QueueInv'
    OBVIOUS
  <2> USE DEF QueueInv
  <2>1. ASSUME NEW u \in Updates, Webhook(u) PROVE QueueInv'
    BY <2>1 DEF Webhook
  <2>2. ASSUME NEW t \in Threads, ThreadStep(t) \/ Drop(t) PROVE QueueInv'
    <3>1. CASE Start(t)
      BY <3>1 DEF Start, Dequeues
    <3>2. CASE Respond(t) \/ Reply(t) \/ Drop(t) \/ \E o \in Outcomes : PostReply(t, o)
      BY <3>2 DEF Respond, Reply, Drop, PostReply
    <3> QED BY <2>2, <3>1, <3>2 DEF ThreadStep
  <2>3. CASE Exit \/ Crash
    <3>1. queue' = <<>>
      BY <2>3 DEF Exit, Crash, Gone
    <3>2. <<>> \in Seq(Updates)
      OBVIOUS
    <3> QED BY <3>1, <3>2
  <2>4. CASE Shutdown \/ Restart \/ Expires \/ UNCHANGED vars
    BY <2>4 DEF Shutdown, Restart, Expires, vars
  <2> QED BY <2>1, <2>2, <2>3, <2>4 DEF Next
<1> QED BY <1>1, <1>2, PTL DEF Spec

\* InlineMessageIntake.java:46-53.  Whatever the pool, shutdowns and restarts do,
\* its turns are turns of Conversation.
THEOREM TurnsImplemented == Spec => ConvSpec
<1>1. Init => ConvInit
  BY DEF Init
<1>2. QueueInv /\ [Next]_vars => [ConvNext]_convVars
  <2> SUFFICES ASSUME QueueInv, [Next]_vars PROVE [ConvNext]_convVars
    OBVIOUS
  <2>1. ASSUME NEW t \in Threads, ThreadStep(t) \/ Drop(t) PROVE [ConvNext]_convVars
    <3>1. CASE Start(t)
      <4>1. Head(queue) \in Updates
        BY <3>1 DEF Start, QueueInv
      <4> QED BY <3>1, <4>1 DEF Start, ConvNext
    <3>2. CASE Respond(t)
      BY <3>2 DEF Respond, ConvNext
    <3>3. CASE Reply(t)
      BY <3>3 DEF Reply, ConvNext
    <3>4. CASE Drop(t)
      BY <3>4 DEF Drop, ConvNext
    <3>5. ASSUME NEW o \in Outcomes, PostReply(t, o) PROVE UNCHANGED convVars
      BY <3>5 DEF PostReply
    <3> QED BY <2>1, <3>1, <3>2, <3>3, <3>4, <3>5 DEF ThreadStep
  <2>2. CASE \E u \in Updates : Webhook(u)
    BY <2>2 DEF Webhook
  <2>3. CASE Exit \/ Crash
    BY <2>3 DEF Exit, Crash, Gone, ConvNext
  <2>4. CASE Shutdown \/ Restart
    BY <2>4 DEF Shutdown, Restart
  <2>5. CASE Expires
    BY <2>5 DEF Expires, ConvNext
  <2>6. CASE UNCHANGED vars
    BY <2>6 DEF vars
  <2> QED BY <2>1, <2>2, <2>3, <2>4, <2>5, <2>6 DEF Next
<1> QED BY <1>1, <1>2, QueueInvariant, PTL DEF Spec, ConvSpec

\* One step keeps what is being delivered recorded.
LEMMA DeliveryStep ==
  ASSUME DeliveryInv, ConvInv, [Next]_vars, [ConvNext]_convVars
  PROVE  DeliveryInv'
<1> USE IntakeAssumption, ParcelsAssumption DEF IntakeAssumption, DeliveryInv
<1>1. messages \subseteq messages'
  BY DEF ConvNext, TurnStep, Take, HitCache, MissCache, Generate, Store, Persist, Returns,
         Raises, Dies, Drops, Expire, convVars
<1>2. ASSUME NEW t \in Threads, Reply(t) PROVE DeliveryInv'
  <2>1. Exchange(t) \in messages /\ Exchange(t) \in Exchanges
    BY <1>2 DEF Reply, Returns, ConvInv, RecordedOwnAnswer, ConvTypeOK
  <2>2. /\ sending' = [sending EXCEPT ![t] = "html"]
        /\ parcel' = [parcel EXCEPT ![t] = Exchange(t)]
        /\ sent' = sent
    BY <1>2 DEF Reply, SendMessage
  <2> QED BY <1>1, <2>1, <2>2 DEF RecordedFirst
<1>3. ASSUME NEW t \in Threads, NEW o \in Outcomes, PostReply(t, o) PROVE DeliveryInv'
  <2>1. parcel[t] \in messages /\ parcel[t] \in Exchanges
    BY <1>3 DEF PostReply, Post, ConvInv, ConvTypeOK
  <2>2. sent' \in {sent, Append(sent, parcel[t])}
    BY <1>3 DEF PostReply, Post
  <2>3. sent' \in Seq(Exchanges) /\ RecordedFirst'
    BY <1>1, <2>1, <2>2 DEF RecordedFirst
  <2>4. /\ sending' = [sending EXCEPT ![t] = sending'[t]]
        /\ sending'[t] \in {"idle", "plain"}
        /\ parcel' \in [Senders -> Exchanges \cup {NoParcel}]
        /\ \A s \in Senders \ {t} : parcel'[s] = parcel[s]
        /\ sending'[t] = "plain" => parcel'[t] = parcel[t]
    BY <1>3, <2>1 DEF PostReply, Post
  <2> QED BY <1>1, <2>1, <2>3, <2>4
<1>4. CASE Exit \/ Crash
  BY <1>1, <1>4 DEF Exit, Crash, Gone, SendersDie, RecordedFirst
<1>5. CASE UNCHANGED telegramVars
  BY <1>1, <1>5 DEF telegramVars, RecordedFirst
<1>6. ASSUME NEW t \in Threads, Start(t) \/ Respond(t) \/ Drop(t) PROVE UNCHANGED telegramVars
  BY <1>6 DEF Start, Respond, Drop
<1>7. (\E u \in Updates : Webhook(u)) \/ Shutdown \/ Restart \/ Expires \/ UNCHANGED vars
      => UNCHANGED telegramVars
  BY DEF Webhook, Shutdown, Restart, Expires, vars
<1> QED BY <1>2, <1>3, <1>4, <1>5, <1>6, <1>7 DEF Next, ThreadStep

\* In every reachable state what is being delivered is recorded.
LEMMA DeliveryInvariant == Spec => []DeliveryInv
<1>1. Init => DeliveryInv
  BY DEF Init, TelegramInit, DeliveryInv, RecordedFirst
<1>2. DeliveryInv /\ ConvInv /\ [Next]_vars /\ [ConvNext]_convVars => DeliveryInv'
  BY DeliveryStep
<1> QED BY <1>1, <1>2, TurnsImplemented, ConvInvariant, PTL DEF Spec, ConvSpec

\* ConversationService.java:45-52 before InlineMessageIntake.java:49.  No reply
\* reaches Telegram that is not in Message, for every pool and every fault.
THEOREM RecordedFirstTheorem == Spec => []RecordedFirst
<1>1. DeliveryInv => RecordedFirst
  BY DEF DeliveryInv
<1> QED BY <1>1, DeliveryInvariant, PTL

\* The histories, and what Telegram has still to post.
HistoryInv ==
  /\ outbox \subseteq Updates /\ proc \in {"up", "closing", "down"}
  /\ accepted \in [Updates -> Nat] /\ calls \in [Updates -> Nat]
  /\ faults \in [FaultKinds -> Nat]

\* A fault of one kind is counted once, and no other kind is.
LEMMA FaultCounts ==
  ASSUME HistoryInv, NEW k \in FaultKinds, Fault(k)
  PROVE  /\ faults' \in [FaultKinds -> Nat] /\ faults'[k] = faults[k] + 1
         /\ \A l \in FaultKinds \ {k} : faults'[l] = faults[l]
  BY DEF HistoryInv, Fault

\* In every reachable state the histories are well typed.
LEMMA HistoryInvariant == Spec => []HistoryInv
<1>1. Init => HistoryInv
  BY DEF Init, HistoryInv
<1>2. HistoryInv /\ ConvInv /\ [Next]_vars => HistoryInv'
  <2> SUFFICES ASSUME HistoryInv, ConvInv, [Next]_vars PROVE HistoryInv'
    OBVIOUS
  <2>0. FaultKinds = {"raise", "repeat", "post", "stop", "crash"}
    BY DEF FaultKinds
  <2>1. \A k \in FaultKinds : Fault(k) => faults' \in [FaultKinds -> Nat]
    BY FaultCounts
  <2>2. ASSUME NEW u \in Updates, Webhook(u) PROVE HistoryInv'
    <3>1. faults' \in [FaultKinds -> Nat]
      BY <2>0, <2>1, <2>2 DEF Webhook, HistoryInv
    <3>2. accepted' \in [Updates -> Nat]
      BY <2>2 DEF Webhook, HistoryInv
    <3> QED BY <2>2, <3>1, <3>2 DEF Webhook, HistoryInv
  <2>3. ASSUME NEW t \in Threads, Counts(t) PROVE calls' \in [Updates -> Nat]
    BY <2>3 DEF Counts, ConvInv, ConvTypeOK, HistoryInv
  <2>4. ASSUME NEW t \in Threads, Start(t) \/ Respond(t) \/ Reply(t) PROVE HistoryInv'
    BY <2>3, <2>4 DEF Start, Respond, Reply, HistoryInv
  <2>5. ASSUME NEW t \in Threads, Drop(t) PROVE HistoryInv'
    BY <2>0, <2>1, <2>3, <2>5 DEF Drop, HistoryInv
  <2>6. ASSUME NEW t \in Threads, NEW o \in Outcomes, PostReply(t, o) PROVE HistoryInv'
    BY <2>0, <2>1, <2>6 DEF PostReply, HistoryInv
  <2>7. CASE Shutdown \/ Exit \/ Crash \/ Restart \/ Expires \/ UNCHANGED vars
    BY <2>0, <2>1, <2>7 DEF Shutdown, Exit, Crash, Gone, Restart, Expires, vars, HistoryInv
  <2> QED BY <2>2, <2>4, <2>5, <2>6, <2>7 DEF Next, ThreadStep
<1> QED BY <1>1, <1>2, TurnsImplemented, ConvInvariant, PTL DEF Spec

\* Every reachable state of the production intake is well typed.
THEOREM TypeCorrect == Spec => []TypeOK
<1>1. ConvInv /\ QueueInv /\ DeliveryInv /\ HistoryInv => TypeOK
  <2> SUFFICES ASSUME ConvInv, QueueInv, DeliveryInv, HistoryInv PROVE TypeOK
    OBVIOUS
  <2>1. ConvTypeOK /\ messages \subseteq Exchanges /\ Parcels = Exchanges
    BY IntakeAssumption DEF ConvInv, ConvTypeOK, IntakeAssumption
  <2>2. TelegramTypeOK
    BY <2>1 DEF DeliveryInv, TelegramTypeOK
  <2> QED BY <2>1, <2>2 DEF TypeOK, QueueInv, HistoryInv
<1> QED BY <1>1, QueueInvariant, DeliveryInvariant, HistoryInvariant, TurnsImplemented,
           ConvInvariant, PTL

-----------------------------------------------------------------------------
(* Where a question that was accepted can be                                 *)

TurnsOf(u) == {t \in Threads : pc[t] # "idle" /\ asked[t] = u}
CallsAhead(u) == {t \in Threads : pc[t] \in {"lookup", "generate"} /\ asked[t] = u}
DeliveriesOf(u) == {t \in Senders : sending[t] # "idle" /\ parcel[t].ask = u}

Waiting(u) == Cardinality(Places(queue, u))
Turning(u) == Cardinality(TurnsOf(u))
Ahead(u) == Cardinality(CallsAhead(u))
Delivering(u) == Cardinality(DeliveriesOf(u))
Sent(u) == Cardinality(Sends(u))

\* Each time a question was accepted it is in the queue, before its LLM call, or
\* past it, or lost.
CallInv == \A u \in Updates : calls[u] + Waiting(u) + Ahead(u) <= accepted[u]

\* Each time it was accepted it is in the queue, in a turn, being delivered or
\* delivered, or lost; only a post that raises counts it twice.
AnswerInv ==
  \A u \in Updates :
    Sent(u) + Waiting(u) + Turning(u) + Delivering(u) <= accepted[u] + faults["post"]

Numbers ==
  \A u \in Updates :
    /\ Waiting(u) \in Nat /\ Turning(u) \in Nat /\ Ahead(u) \in Nat
    /\ Delivering(u) \in Nat /\ Sent(u) \in Nat
    /\ IsFiniteSet(TurnsOf(u)) /\ IsFiniteSet(CallsAhead(u)) /\ IsFiniteSet(DeliveriesOf(u))
    /\ IsFiniteSet(Sends(u))
    /\ calls[u] \in Nat /\ accepted[u] \in Nat /\ faults["post"] \in Nat

\* All these are numbers, for every pool of threads and every set of updates.
LEMMA NumbersInvariant == Spec => []Numbers
<1>1. QueueInv /\ DeliveryInv /\ HistoryInv => Numbers
  <2> SUFFICES ASSUME QueueInv, DeliveryInv, HistoryInv, NEW u \in Updates
               PROVE  /\ Waiting(u) \in Nat /\ Turning(u) \in Nat /\ Ahead(u) \in Nat
                      /\ Delivering(u) \in Nat /\ Sent(u) \in Nat
                      /\ IsFiniteSet(TurnsOf(u)) /\ IsFiniteSet(CallsAhead(u))
                      /\ IsFiniteSet(DeliveriesOf(u)) /\ IsFiniteSet(Sends(u))
                      /\ calls[u] \in Nat /\ accepted[u] \in Nat /\ faults["post"] \in Nat
    BY DEF Numbers
  <2>1. IsFiniteSet(Threads) /\ Senders = Threads
    BY ConversationAssumption, IntakeAssumption DEF ConversationAssumption, IntakeAssumption
  <2>2. IsFiniteSet(TurnsOf(u)) /\ IsFiniteSet(CallsAhead(u)) /\ IsFiniteSet(DeliveriesOf(u))
    BY <2>1, FS_Subset DEF TurnsOf, CallsAhead, DeliveriesOf
  <2>3. Waiting(u) \in Nat
    BY PlacesAreFinite DEF Waiting, QueueInv
  <2>4. IsFiniteSet(Sends(u))
    <3>1. DOMAIN sent = 1..Len(sent) /\ Len(sent) \in Int /\ 1 \in Int
      BY DEF DeliveryInv
    <3>2. IsFiniteSet(DOMAIN sent)
      BY <3>1, FS_Interval
    <3> QED BY <3>2, FS_Subset DEF Sends
  <2>5. calls[u] \in Nat /\ accepted[u] \in Nat /\ faults["post"] \in Nat
    BY DEF HistoryInv, FaultKinds
  <2> QED BY <2>2, <2>3, <2>4, <2>5, FS_CardinalityType DEF Turning, Ahead, Delivering, Sent
<1> QED BY <1>1, QueueInvariant, DeliveryInvariant, HistoryInvariant, PTL

\* The webhook: a question that is queued is counted as accepted.
LEMMA WebhookCounts ==
  ASSUME QueueInv, HistoryInv, Numbers, Numbers', NEW v \in Updates, Webhook(v), NEW u \in Updates
  PROVE  /\ Waiting(u)' - Waiting(u) <= accepted'[u] - accepted[u]
         /\ faults'["post"] = faults["post"]
<1>1. faults'["post"] = faults["post"]
  BY FaultCounts DEF Webhook, FaultKinds
<1>2. CASE UNCHANGED <<queue, accepted>>
  BY <1>1, <1>2 DEF Waiting, Numbers
<1>3. CASE queue' = Append(queue, v) /\ accepted' = [accepted EXCEPT ![v] = @ + 1]
  <2>1. accepted'[u] = IF u = v THEN accepted[u] + 1 ELSE accepted[u]
    BY <1>3 DEF HistoryInv
  <2>2. Waiting(u)' <= Waiting(u) + 1 /\ (u # v => Waiting(u)' = Waiting(u))
    BY <1>3, PlacesInAppend DEF Waiting, QueueInv
  <2>3. Waiting(u) \in Nat /\ Waiting(u)' \in Nat /\ accepted[u] \in Nat
    BY DEF Numbers
  <2> QED BY <1>1, <2>1, <2>2, <2>3
<1> QED BY <1>2, <1>3 DEF Webhook

\* A thread takes a question: it leaves the queue for the turn.
LEMMA StartCounts ==
  ASSUME QueueInv, ConvInv, Numbers, Numbers', NEW t \in Threads, Start(t), NEW u \in Updates
  PROVE  /\ Waiting(u)' + Turning(u)' <= Waiting(u) + Turning(u)
         /\ Waiting(u)' + Ahead(u)' <= Waiting(u) + Ahead(u)
<1>1. /\ queue # <<>> /\ queue' = Tail(queue) /\ pc[t] = "idle"
      /\ pc' = [pc EXCEPT ![t] = "lookup"] /\ asked' = [asked EXCEPT ![t] = Head(queue)]
  BY DEF Start, Take, Dequeues
<1>2. Waiting(u)' <= Waiting(u) /\ (Head(queue) = u => Waiting(u)' + 1 <= Waiting(u))
  BY <1>1, PlacesInTail DEF Waiting, QueueInv
<1>3. Turning(u)' <= Turning(u) + 1 /\ Ahead(u)' <= Ahead(u) + 1
  <2>1. TurnsOf(u)' \subseteq TurnsOf(u) \cup {t} /\ CallsAhead(u)' \subseteq CallsAhead(u) \cup {t}
    BY <1>1 DEF TurnsOf, CallsAhead
  <2> QED BY <2>1, OneMore DEF Turning, Ahead, Numbers
<1>4. Head(queue) # u => Turning(u)' <= Turning(u) /\ Ahead(u)' <= Ahead(u)
  <2>1. ASSUME Head(queue) # u
        PROVE  TurnsOf(u)' \subseteq TurnsOf(u) /\ CallsAhead(u)' \subseteq CallsAhead(u)
    BY <1>1, <2>1 DEF TurnsOf, CallsAhead, ConvInv, ConvTypeOK
  <2> QED BY <2>1, FS_Subset DEF Turning, Ahead, Numbers
<1>5. /\ Waiting(u) \in Nat /\ Turning(u) \in Nat /\ Ahead(u) \in Nat
      /\ Waiting(u)' \in Nat /\ Turning(u)' \in Nat /\ Ahead(u)' \in Nat
  BY DEF Numbers
<1> QED BY <1>2, <1>3, <1>4, <1>5

\* What a step of a thread in its turn does to the calls that were counted: the
\* turn that calls the LLM is past its call, whether it goes on or is dropped.
LEMMA CallCounts ==
  ASSUME ConvInv, HistoryInv, Numbers, Numbers', NEW t \in Threads, pc[t] # "idle", Counts(t),
         \A s \in Threads \ {t} : pc'[s] = pc[s] /\ asked'[s] = asked[s],
         pc'[t] \in {"lookup", "generate"} => pc[t] = "lookup" /\ asked'[t] = asked[t],
         NEW u \in Updates
  PROVE  calls'[u] + Ahead(u)' <= calls[u] + Ahead(u)
<1>1. /\ calls[u] \in Nat /\ Ahead(u) \in Nat /\ Ahead(u)' \in Nat
      /\ IsFiniteSet(CallsAhead(u))
  BY DEF Numbers
<1>2. CASE pc[t] = "generate" /\ asked[t] = u
  <2>1. t \in CallsAhead(u) /\ CallsAhead(u)' \subseteq CallsAhead(u) \ {t}
    BY <1>2 DEF CallsAhead
  <2>2. Ahead(u)' + 1 <= Ahead(u)
    BY <1>1, <2>1, OneLess DEF Ahead
  <2>3. calls'[u] = calls[u] + 1
    BY <1>2 DEF Counts, HistoryInv
  <2> QED BY <1>1, <2>2, <2>3
<1>3. CASE ~(pc[t] = "generate" /\ asked[t] = u)
  <2>1. CallsAhead(u)' \subseteq CallsAhead(u)
    BY DEF CallsAhead
  <2>2. Ahead(u)' <= Ahead(u)
    BY <1>1, <2>1, FS_Subset DEF Ahead
  <2>3. calls'[u] = calls[u]
    BY <1>3 DEF Counts, HistoryInv, ConvInv, ConvTypeOK
  <2> QED BY <1>1, <2>2, <2>3
<1> QED BY <1>2, <1>3

\* InlineMessageIntake.java:46-53.  Every step keeps the count of the calls.
LEMMA CallStep ==
  ASSUME CallInv, QueueInv, HistoryInv, ConvInv, Numbers, Numbers', [Next]_vars
  PROVE  CallInv'
<1> SUFFICES ASSUME NEW u \in Updates
             PROVE  calls'[u] + Waiting(u)' + Ahead(u)' <= accepted'[u]
  BY DEF CallInv
<1>1. /\ calls[u] + Waiting(u) + Ahead(u) <= accepted[u]
      /\ calls[u] \in Nat /\ Waiting(u) \in Nat /\ Ahead(u) \in Nat /\ accepted[u] \in Nat
      /\ calls'[u] \in Nat /\ Waiting(u)' \in Nat /\ Ahead(u)' \in Nat /\ accepted'[u] \in Nat
  BY DEF CallInv, Numbers
<1>2. ASSUME UNCHANGED <<queue, accepted>>, calls'[u] + Ahead(u)' <= calls[u] + Ahead(u)
      PROVE  calls'[u] + Waiting(u)' + Ahead(u)' <= accepted'[u]
  <2>1. Waiting(u)' = Waiting(u)
    BY <1>2 DEF Waiting
  <2> QED BY <1>1, <1>2, <2>1
<1>3. ASSUME NEW v \in Updates, Webhook(v)
      PROVE  calls'[u] + Waiting(u)' + Ahead(u)' <= accepted'[u]
  <2>1. calls' = calls /\ Ahead(u)' = Ahead(u)
    BY <1>3 DEF Webhook, convVars, turnVars, Ahead, CallsAhead
  <2>2. Waiting(u)' - Waiting(u) <= accepted'[u] - accepted[u]
    BY <1>3, WebhookCounts
  <2> QED BY <1>1, <2>1, <2>2
<1>4. ASSUME NEW t \in Threads, Start(t)
      PROVE  calls'[u] + Waiting(u)' + Ahead(u)' <= accepted'[u]
  <2>1. UNCHANGED <<calls, accepted>>
    BY <1>4 DEF Start
  <2>2. Waiting(u)' + Ahead(u)' <= Waiting(u) + Ahead(u)
    BY <1>4, StartCounts
  <2> QED BY <1>1, <2>1, <2>2
<1>5. ASSUME NEW t \in Threads, Respond(t) \/ Drop(t)
      PROVE  calls'[u] + Waiting(u)' + Ahead(u)' <= accepted'[u]
  <2>1. Counts(t) /\ UNCHANGED <<queue, accepted>>
    BY <1>5 DEF Respond, Drop
  <2>2. /\ pc[t] # "idle"
        /\ \A s \in Threads \ {t} : pc'[s] = pc[s] /\ asked'[s] = asked[s]
        /\ pc'[t] \in {"lookup", "generate"} => pc[t] = "lookup" /\ asked'[t] = asked[t]
    BY <1>5 DEF Respond, Drop, TurnStep, HitCache, MissCache, Generate, Store, Persist, Raises, Drops,
                ConvInv, ConvTypeOK
  <2>3. calls'[u] + Ahead(u)' <= calls[u] + Ahead(u)
    BY <2>1, <2>2, CallCounts
  <2> QED BY <1>2, <2>1, <2>3
<1>6. ASSUME UNCHANGED <<calls, queue, accepted>>, CallsAhead(u)' \subseteq CallsAhead(u)
      PROVE  calls'[u] + Waiting(u)' + Ahead(u)' <= accepted'[u]
  <2>1. Ahead(u)' <= Ahead(u)
    BY <1>6, FS_Subset DEF Ahead, Numbers
  <2> QED BY <1>1, <1>2, <1>6, <2>1
<1>7. ASSUME NEW t \in Threads, Reply(t)
      PROVE  calls'[u] + Waiting(u)' + Ahead(u)' <= accepted'[u]
  BY <1>6, <1>7 DEF Reply, Returns, Drops, CallsAhead
<1>8. ASSUME NEW t \in Threads, NEW o \in Outcomes, PostReply(t, o)
      PROVE  calls'[u] + Waiting(u)' + Ahead(u)' <= accepted'[u]
  BY <1>6, <1>8 DEF PostReply, convVars, turnVars, CallsAhead
<1>9. CASE Exit \/ Crash
  <2>1. queue' = <<>> /\ UNCHANGED <<calls, accepted>> /\ \A t \in Threads : pc'[t] = "idle"
    BY <1>9 DEF Exit, Crash, Gone, Dies, Drops
  <2>2. Places(queue', u) = {} /\ CallsAhead(u)' = {}
    BY <2>1 DEF Places, CallsAhead
  <2>3. Waiting(u)' = 0 /\ Ahead(u)' = 0
    BY <2>2, FS_EmptySet DEF Waiting, Ahead
  <2> QED BY <1>1, <2>1, <2>3
<1>10. CASE Shutdown \/ Restart \/ Expires \/ UNCHANGED vars
  BY <1>6, <1>10 DEF Shutdown, Restart, Expires, Expire, vars, convVars, turnVars, CallsAhead
<1> QED BY <1>3, <1>4, <1>5, <1>7, <1>8, <1>9, <1>10 DEF Next, ThreadStep

\* InlineMessageIntake.java:18-20, "no retry storms": the LLM is called at most once
\* for each time a question was accepted, whatever raises, stops or crashes, for every
\* pool and every number of questions.
THEOREM NeverRepeatedTheorem == Spec => []NeverRepeated
<1>1. Init /\ Numbers => CallInv
  <2> SUFFICES ASSUME Init, NEW u \in Updates PROVE calls[u] + Waiting(u) + Ahead(u) <= accepted[u]
    BY DEF CallInv
  <2>1. Places(queue, u) = {} /\ CallsAhead(u) = {}
    BY DEF Init, ConvInit, Places, CallsAhead
  <2>2. Waiting(u) = 0 /\ Ahead(u) = 0
    BY <2>1, FS_EmptySet DEF Waiting, Ahead
  <2> QED BY <2>2 DEF Init
<1>2. CallInv /\ QueueInv /\ HistoryInv /\ ConvInv /\ Numbers /\ Numbers' /\ [Next]_vars => CallInv'
  BY CallStep
<1>3. CallInv /\ Numbers => NeverRepeated
  BY DEF CallInv, Numbers, NeverRepeated
<1> QED BY <1>1, <1>2, <1>3, QueueInvariant, HistoryInvariant, NumbersInvariant, TurnsImplemented,
           ConvInvariant, PTL DEF Spec

\* A reply is handed over: it leaves the turn for the delivery.
LEMMA ReplyCounts ==
  ASSUME DeliveryInv, ConvInv, Numbers, Numbers', NEW t \in Threads, Reply(t), NEW u \in Updates
  PROVE  Turning(u)' + Delivering(u)' <= Turning(u) + Delivering(u)
<1>1. Senders = Threads
  BY IntakeAssumption DEF IntakeAssumption
<1>2. /\ pc[t] = "return" /\ sending[t] = "idle"
      /\ \A s \in Threads : pc'[s] = (IF s = t THEN "idle" ELSE pc[s])
      /\ \A s \in Threads \ {t} : asked'[s] = asked[s]
      /\ sending' = [sending EXCEPT ![t] = "html"] /\ parcel' = [parcel EXCEPT ![t] = Exchange(t)]
  BY DEF Reply, Returns, Drops, SendMessage
<1>3. Exchange(t).ask = asked[t]
  BY DEF Exchange
<1>4. TurnsOf(u)' \subseteq TurnsOf(u) \ {t}
  BY <1>2 DEF TurnsOf
<1>5. /\ Turning(u) \in Nat /\ Turning(u)' \in Nat /\ Delivering(u) \in Nat /\ Delivering(u)' \in Nat
      /\ IsFiniteSet(TurnsOf(u)) /\ IsFiniteSet(DeliveriesOf(u))
  BY DEF Numbers
<1>6. CASE asked[t] = u
  <2>1. t \in TurnsOf(u)
    BY <1>2, <1>6 DEF TurnsOf
  <2>2. Turning(u)' + 1 <= Turning(u)
    BY <1>4, <1>5, <2>1, OneLess DEF Turning
  <2>3. DeliveriesOf(u)' \subseteq DeliveriesOf(u) \cup {t}
    BY <1>1, <1>2 DEF DeliveriesOf, DeliveryInv
  <2>4. Delivering(u)' <= Delivering(u) + 1
    BY <1>5, <2>3, OneMore DEF Delivering
  <2> QED BY <1>5, <2>2, <2>4
<1>7. CASE asked[t] # u
  <2>1. Turning(u)' <= Turning(u)
    BY <1>4, <1>5, FS_Subset DEF Turning
  <2>2. DeliveriesOf(u)' \subseteq DeliveriesOf(u)
    BY <1>1, <1>2, <1>3, <1>7 DEF DeliveriesOf, DeliveryInv
  <2>3. Delivering(u)' <= Delivering(u)
    BY <1>5, <2>2, FS_Subset DEF Delivering
  <2> QED BY <1>5, <2>1, <2>3
<1> QED BY <1>6, <1>7

\* A post: what is delivered is not being delivered any more, unless the post got
\* through and raised all the same, which is counted as a fault.
LEMMA PostCounts ==
  ASSUME DeliveryInv, HistoryInv, ConvInv, Numbers, Numbers', NEW t \in Threads,
         NEW o \in Outcomes, PostReply(t, o), NEW u \in Updates
  PROVE  /\ Sent(u)' + Delivering(u)' - (Sent(u) + Delivering(u))
              <= faults'["post"] - faults["post"]
         /\ faults'["post"] \in Nat
<1>0. Senders = Threads
  BY IntakeAssumption DEF IntakeAssumption
<1>1. /\ Sent(u) \in Nat /\ Sent(u)' \in Nat /\ Delivering(u) \in Nat /\ Delivering(u)' \in Nat
      /\ IsFiniteSet(Sends(u)) /\ IsFiniteSet(DeliveriesOf(u))
      /\ faults["post"] \in Nat /\ faults'["post"] \in Nat
  BY DEF Numbers
<1>2. /\ sending[t] # "idle" /\ sending[t] \in {"html", "plain"}
      /\ sent' = IF o = "refused" THEN sent ELSE Append(sent, parcel[t])
      /\ sending' = [sending EXCEPT ![t] = IF FallsBack(t, o) THEN "plain" ELSE "idle"]
      /\ parcel' = [parcel EXCEPT ![t] = IF FallsBack(t, o) THEN parcel[t] ELSE NoParcel]
      /\ parcel[t] \in Exchanges
  BY <1>0 DEF PostReply, Post, DeliveryInv, ConvInv, ConvTypeOK
<1>3. faults'["post"] = IF Harmless(t, o) THEN faults["post"] ELSE faults["post"] + 1
  BY FaultCounts DEF PostReply, FaultKinds
<1>4. DeliveriesOf(u)' \subseteq DeliveriesOf(u)
  BY <1>0, <1>2 DEF DeliveriesOf, DeliveryInv
<1>5. Delivering(u)' <= Delivering(u)
  BY <1>1, <1>4, FS_Subset DEF Delivering
<1>6. CASE o = "refused" \/ parcel[t].ask # u
  <2>1. sent' \in Seq(Exchanges) /\ Sends(u)' = Sends(u)
    <3>1. CASE sent' = sent
      BY <3>1 DEF Sends, DeliveryInv
    <3>2. CASE sent' = Append(sent, parcel[t]) /\ parcel[t].ask # u
      BY <1>2, <3>2 DEF Sends, DeliveryInv
    <3> QED BY <1>2, <1>6, <3>1, <3>2
  <2>2. Sent(u)' = Sent(u)
    BY <2>1 DEF Sent
  <2> QED BY <1>1, <1>3, <1>5, <2>2
<1>7. CASE o # "refused" /\ parcel[t].ask = u
  <2>1. Sends(u)' \subseteq Sends(u) \cup {Len(sent) + 1}
    BY <1>2, <1>7 DEF Sends, DeliveryInv
  <2>2. Sent(u)' <= Sent(u) + 1
    BY <1>1, <2>1, OneMore DEF Sent
  <2>3. CASE Harmless(t, o)
    <3>1. ~FallsBack(t, o)
      BY <1>7, <2>3 DEF Harmless, FallsBack
    <3>2. t \in DeliveriesOf(u) /\ DeliveriesOf(u)' \subseteq DeliveriesOf(u) \ {t}
      BY <1>0, <1>2, <1>7, <3>1 DEF DeliveriesOf, DeliveryInv
    <3>3. Delivering(u)' + 1 <= Delivering(u)
      BY <1>1, <3>2, OneLess DEF Delivering
    <3> QED BY <1>1, <1>3, <2>2, <2>3, <3>3
  <2>4. CASE ~Harmless(t, o)
    BY <1>1, <1>3, <1>5, <2>2, <2>4
  <2> QED BY <2>3, <2>4
<1> QED BY <1>6, <1>7

\* InlineMessageIntake.java:48-51.  Every step keeps the count of the answers.
LEMMA AnswerStep ==
  ASSUME AnswerInv, QueueInv, DeliveryInv, HistoryInv, ConvInv, Numbers, Numbers', [Next]_vars
  PROVE  AnswerInv'
<1> DEFINE Kept(u) == Sent(u)' + Waiting(u)' + Turning(u)' + Delivering(u)'
                        <= accepted'[u] + faults'["post"]
<1> SUFFICES ASSUME NEW u \in Updates PROVE Kept(u)
  BY DEF AnswerInv
<1>1. /\ Sent(u) + Waiting(u) + Turning(u) + Delivering(u) <= accepted[u] + faults["post"]
      /\ Sent(u) \in Nat /\ Waiting(u) \in Nat /\ Turning(u) \in Nat /\ Delivering(u) \in Nat
      /\ accepted[u] \in Nat /\ faults["post"] \in Nat
      /\ Sent(u)' \in Nat /\ Waiting(u)' \in Nat /\ Turning(u)' \in Nat /\ Delivering(u)' \in Nat
      /\ accepted'[u] \in Nat /\ faults'["post"] \in Nat
  BY DEF AnswerInv, Numbers
<1>2. UNCHANGED telegramVars => Sent(u)' = Sent(u) /\ Delivering(u)' = Delivering(u)
  BY DEF telegramVars, Sent, Sends, Delivering, DeliveriesOf
<1>3. UNCHANGED queue => Waiting(u)' = Waiting(u)
  BY DEF Waiting
<1>4. TurnsOf(u)' \subseteq TurnsOf(u) => Turning(u)' <= Turning(u)
  BY FS_Subset DEF Turning, Numbers
<1>5. /\ UNCHANGED faults => faults'["post"] = faults["post"]
      /\ \A k \in FaultKinds \ {"post"} : Fault(k) => faults'["post"] = faults["post"]
  BY FaultCounts DEF FaultKinds
<1>6. {"raise", "repeat", "stop", "crash"} \subseteq FaultKinds \ {"post"}
  BY DEF FaultKinds
<1>7. ASSUME NEW v \in Updates, Webhook(v) PROVE Kept(u)
  <2>1. UNCHANGED <<telegramVars, convVars>>
    BY <1>7 DEF Webhook
  <2>2. Turning(u)' = Turning(u)
    BY <2>1 DEF convVars, turnVars, Turning, TurnsOf
  <2>3. Waiting(u)' - Waiting(u) <= accepted'[u] - accepted[u] /\ faults'["post"] = faults["post"]
    BY <1>7, WebhookCounts
  <2>4. Sent(u)' = Sent(u) /\ Delivering(u)' = Delivering(u)
    BY <1>2, <2>1
  <2> QED BY <1>1, <2>2, <2>3, <2>4
<1>8. ASSUME NEW t \in Threads, Start(t) PROVE Kept(u)
  <2>1. UNCHANGED <<telegramVars, accepted, faults>>
    BY <1>8 DEF Start
  <2>2. Waiting(u)' + Turning(u)' <= Waiting(u) + Turning(u)
    BY <1>8, StartCounts
  <2>3. Sent(u)' = Sent(u) /\ Delivering(u)' = Delivering(u)
    BY <1>2, <2>1
  <2> QED BY <1>1, <2>1, <2>2, <2>3
<1>9. ASSUME UNCHANGED <<telegramVars, queue, accepted>>, TurnsOf(u)' \subseteq TurnsOf(u),
             faults'["post"] = faults["post"]
      PROVE  Kept(u)
  BY <1>1, <1>2, <1>3, <1>4, <1>9
<1>10. ASSUME NEW t \in Threads, Respond(t) \/ Drop(t) PROVE Kept(u)
  <2>1. UNCHANGED <<telegramVars, queue, accepted>> /\ faults'["post"] = faults["post"]
    BY <1>5, <1>6, <1>10 DEF Respond, Drop
  <2>2. TurnsOf(u)' \subseteq TurnsOf(u)
    BY <1>10 DEF Respond, Drop, TurnStep, HitCache, MissCache, Generate, Store, Persist, Raises, Drops,
                 ConvInv, ConvTypeOK, TurnsOf
  <2> QED BY <1>9, <2>1, <2>2
<1>11. ASSUME NEW t \in Threads, Reply(t) PROVE Kept(u)
  <2>1. UNCHANGED <<queue, accepted, faults, sent>>
    BY <1>11 DEF Reply, SendMessage
  <2>2. Sent(u)' = Sent(u)
    BY <2>1 DEF Sent, Sends
  <2>3. Turning(u)' + Delivering(u)' <= Turning(u) + Delivering(u)
    BY <1>11, ReplyCounts
  <2> QED BY <1>1, <1>3, <2>1, <2>2, <2>3
<1>12. ASSUME NEW t \in Threads, NEW o \in Outcomes, PostReply(t, o) PROVE Kept(u)
  <2>1. UNCHANGED <<queue, accepted>> /\ Turning(u)' = Turning(u)
    BY <1>12 DEF PostReply, convVars, turnVars, Turning, TurnsOf
  <2>2. Sent(u)' + Delivering(u)' - (Sent(u) + Delivering(u)) <= faults'["post"] - faults["post"]
    BY <1>12, PostCounts
  <2> QED BY <1>1, <1>3, <2>1, <2>2
<1>13. CASE Exit \/ Crash
  <2>1. /\ queue' = <<>> /\ UNCHANGED <<accepted, sent>> /\ faults'["post"] = faults["post"]
        /\ \A t \in Threads : pc'[t] = "idle"
        /\ \A t \in Senders : sending'[t] = "idle"
    BY <1>5, <1>6, <1>13 DEF Exit, Crash, Gone, Dies, Drops, SendersDie
  <2>2. Places(queue', u) = {} /\ TurnsOf(u)' = {} /\ DeliveriesOf(u)' = {} /\ Sends(u)' = Sends(u)
    BY <2>1 DEF Places, TurnsOf, DeliveriesOf, Sends
  <2>3. Waiting(u)' = 0 /\ Turning(u)' = 0 /\ Delivering(u)' = 0 /\ Sent(u)' = Sent(u)
    BY <2>2, FS_EmptySet DEF Waiting, Turning, Delivering, Sent
  <2> QED BY <1>1, <2>1, <2>3
<1>14. CASE Shutdown \/ Restart \/ Expires \/ UNCHANGED vars
  <2>1. UNCHANGED <<telegramVars, queue, accepted, turnVars>> /\ faults'["post"] = faults["post"]
    BY <1>5, <1>6, <1>14 DEF Shutdown, Restart, Expires, Expire, vars, convVars
  <2>2. TurnsOf(u)' \subseteq TurnsOf(u)
    BY <2>1 DEF turnVars, TurnsOf
  <2> QED BY <1>9, <2>1, <2>2
<1> QED BY <1>7, <1>8, <1>10, <1>11, <1>12, <1>13, <1>14 DEF Next, ThreadStep

\* InlineMessageIntake.java:48-51.  Nobody is answered more often than the question
\* was accepted, save for posts that got through although they raised.
THEOREM BoundedRepliesTheorem == Spec => []RepliesAreBounded
<1>1. Init /\ Numbers => AnswerInv
  <2> SUFFICES ASSUME Init, Numbers, NEW u \in Updates
               PROVE  Sent(u) + Waiting(u) + Turning(u) + Delivering(u) <= accepted[u] + faults["post"]
    BY DEF AnswerInv
  <2>1. Places(queue, u) = {} /\ TurnsOf(u) = {} /\ DeliveriesOf(u) = {} /\ Sends(u) = {}
    BY DEF Init, ConvInit, TelegramInit, Places, TurnsOf, DeliveriesOf, Sends
  <2>2. Waiting(u) = 0 /\ Turning(u) = 0 /\ Delivering(u) = 0 /\ Sent(u) = 0
    BY <2>1, FS_EmptySet DEF Waiting, Turning, Delivering, Sent
  <2> QED BY <2>2 DEF Numbers
<1>2. /\ AnswerInv /\ QueueInv /\ DeliveryInv /\ HistoryInv /\ ConvInv /\ Numbers /\ Numbers'
      /\ [Next]_vars
      => AnswerInv'
  BY AnswerStep
<1>3. AnswerInv /\ Numbers => RepliesAreBounded
  <2> SUFFICES ASSUME AnswerInv, Numbers, NEW u \in Updates
               PROVE  Cardinality(Sends(u)) <= accepted[u] + faults["post"]
    BY DEF RepliesAreBounded
  <2>1. Sent(u) + Waiting(u) + Turning(u) + Delivering(u) <= accepted[u] + faults["post"]
    BY DEF AnswerInv
  <2>2. Sent(u) <= accepted[u] + faults["post"]
    BY <2>1 DEF Numbers
  <2> QED BY <2>2 DEF Sent
<1> QED BY <1>1, <1>2, <1>3, QueueInvariant, DeliveryInvariant, HistoryInvariant, NumbersInvariant,
           TurnsImplemented, ConvInvariant, PTL DEF Spec
=============================================================================
