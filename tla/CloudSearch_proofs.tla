------------------------- MODULE CloudSearch_proofs -------------------------
(* Theorems about the publisher of Publisher.tla and the freshness note of *)
(* CloudSearch.tla.                                                        *)
EXTENDS CloudSearch, FiniteSetTheorems, TLAPS

\* A message that arrives behind what is there already is not in the way of any
\* snapshot taken before: it is late, or behind the whole of it.
LEMMA ArrivalKeepsInv ==
  ASSUME IInv, NEW m \in Msgs, Arrive(m)
  PROVE  IInv'
<1> USE DEF IInv, Arrive, Overtaken, mailVars, runVars
<1>1. TypeOK' BY DEF TypeOK
<1>2. RunInv'
  <2>0. \A n \in arrived' \ late' : ~Shadowed(n)
    BY DEF RunInv
  <2>1. ASSUME NEW k \in snap, NEW n \in arrived' \ (late' \cup snap), ChatOf[k] = ChatOf[n]
        PROVE  SentAt[k] <= Date[n]
    <3>1. CASE n # m
      BY <2>1, <3>1 DEF RunInv
    <3>2. CASE n = m
      <4>1. ~(\E i \in arrived : ChatOf[i] = ChatOf[m] /\ Date[m] < SentAt[i])
        BY <2>1, <3>2 DEF TypeOK
      <4>2. k \in arrived /\ k \in Msgs
        BY DEF TypeOK
      <4>3. ~(Date[m] < SentAt[k])
        BY <2>1, <3>2, <4>1, <4>2
      <4> QED BY <3>2, <4>2, <4>3, PublisherAssumption DEF PublisherAssumption
    <3> QED BY <3>1, <3>2
  <2>2. (pc = "scan" => /\ todo \subseteq Wanted(chat, snap)
                        /\ Wanted(chat, snap) \ late \subseteq cloud \cup todo)'
    BY DEF RunInv, Wanted
  <2> QED BY <2>0, <2>1, <2>2 DEF RunInv, Shadowed
<1>3. NoGap'
  <2> SUFFICES ASSUME NEW k \in cloud, NEW n \in (arrived' \ late') \cap Text,
                      ChatOf[n] = ChatOf[k], Date[n] < SentAt[k]
               PROVE  n \in cloud
    BY DEF NoGap
  <2>1. CASE n # m
    BY <2>1 DEF NoGap
  <2>2. CASE n = m
    BY <2>2 DEF TypeOK
  <2> QED BY <2>1, <2>2
<1>4. PushedIsComplete'
  BY DEF PushedIsComplete, Wanted
<1> QED BY <1>1, <1>2, <1>3, <1>4

\* The first part of the stream goes to Postgres: the rows before its newest are
\* there already, are in this part, or are late.
LEMMA FlushKeepsInv ==
  ASSUME IInv, NEW B \in SUBSET todo, Flush(B)
  PROVE  IInv'
<1> USE DEF IInv, Flush, NextBatch, mailVars
<1>1. B \subseteq Text /\ B \subseteq snap /\ B \subseteq arrived /\ (\A k \in B : ChatOf[k] = chat)
  BY DEF TypeOK, RunInv, Wanted
<1>2. TypeOK' BY <1>1 DEF TypeOK
<1>3. RunInv' BY DEF RunInv, Wanted
<1>4. NoGap'
  <2> SUFFICES ASSUME NEW k \in cloud \cup B, NEW n \in (arrived \ late) \cap Text,
                      ChatOf[n] = ChatOf[k], Date[n] < SentAt[k], n \notin cloud
               PROVE  n \in B
    BY DEF NoGap
  <2>1. k \in B
    BY DEF NoGap
  <2>2. k \in Msgs /\ n \in Msgs /\ k \in snap /\ ChatOf[n] = chat
    BY <2>1, <1>1 DEF TypeOK
  <2>3. /\ SentAt[k] \in Nat /\ Date[n] \in Nat /\ Date[k] \in Nat
        /\ (Date[k] <= Date[n] /\ k # n => SentAt[k] <= Date[n])
    <3>1. k \in Text /\ ~Shadowed(n)
      BY <2>1, <1>1 DEF RunInv
    <3> QED BY <2>2, <3>1, PublisherAssumption DEF PublisherAssumption, Shadowed
  <2>4. n \in snap
    <3>1. n \notin snap => SentAt[k] <= Date[n]
      BY <2>2 DEF RunInv
    <3> QED BY <3>1, <2>3
  <2>5. n \in todo
    BY <2>2, <2>4 DEF RunInv, Wanted
  <2>6. CASE n = k
    BY <2>1, <2>6
  <2>7. CASE n # k
    <3>1. n \notin B => Date[k] <= Date[n]
      BY <2>1, <2>5 DEF Earliest
    <3> QED BY <3>1, <2>3, <2>7
  <2> QED BY <2>6, <2>7
<1>5. PushedIsComplete' BY DEF PushedIsComplete, Wanted
<1> QED BY <1>2, <1>3, <1>4, <1>5

\* Leaving a chat or the run leaves the rows as they are.
LEMMA LeavingKeepsInv ==
  ASSUME IInv, UNCHANGED <<mailVars, cloud>>, faults' \in 0..MaxFaults,
         \/ LeavesChat /\ (UNCHANGED pushed \/ (todo = {} /\ pc = "scan" /\ pushed' = pushed \cup {chat}))
                       /\ pc # "idle"
         \/ EndsRun /\ UNCHANGED pushed
  PROVE  IInv'
<1> USE DEF IInv, LeavesChat, EndsRun, mailVars
<1>1. TypeOK' BY DEF TypeOK
<1>2. RunInv' BY DEF RunInv
<1>3. NoGap' BY DEF NoGap
<1>4. PushedIsComplete'
  BY DEF PushedIsComplete, RunInv, Wanted
<1> QED BY <1>1, <1>2, <1>3, <1>4

\* The steps that only move the run on.
LEMMA MovingOnKeepsInv ==
  ASSUME IInv, StartRun \/ (\E c \in Chats : NextChat(c)) \/ ReadSince
  PROVE  IInv'
<1> USE DEF IInv, mailVars
<1>1. CASE StartRun
  BY <1>1 DEF StartRun, Targets, TypeOK, RunInv, NoGap, PushedIsComplete
<1>2. ASSUME NEW c \in Chats, NextChat(c) PROVE IInv'
  BY <1>2 DEF NextChat, TypeOK, RunInv, NoGap, PushedIsComplete
<1>3. CASE ReadSince
  <2> USE <1>3 DEF ReadSince
  <2>1. todo' \subseteq Wanted(chat, snap) /\ todo' \subseteq Text
    BY DEF Wanted
  <2>2. TypeOK' BY <2>1 DEF TypeOK
  <2>3. ASSUME NEW n \in Wanted(chat, snap) \ late, n \notin todo'
        PROVE  n \in cloud
    <3>1. PICK k \in Rows(chat) : ~(Date[n] >= SentAt[k])
      BY <2>3 DEF Streams
    <3>2. k \in cloud /\ ChatOf[k] = chat /\ k \in Msgs /\ n \in Msgs /\ n \in arrived \cap Text
      BY DEF Rows, Wanted, TypeOK
    <3>3. Date[n] < SentAt[k]
      BY <3>1, <3>2, PublisherAssumption DEF PublisherAssumption
    <3> QED BY <3>2, <3>3 DEF NoGap, Wanted
  <2>4. RunInv' BY <2>1, <2>3 DEF RunInv, Wanted
  <2>5. NoGap' BY DEF NoGap
  <2>6. PushedIsComplete' BY DEF PushedIsComplete, Wanted
  <2> QED BY <2>2, <2>4, <2>5, <2>6
<1> QED BY <1>1, <1>2, <1>3

\* Every reachable state satisfies the inductive invariant, for any chats,
\* messages, batch size and limit, and any sequence of failures.
THEOREM PublisherInvariant == Spec => []IInv
<1>1. Init => IInv
  BY PublisherAssumption DEF PublisherAssumption, Init, IInv, TypeOK, RunInv, NoGap, PushedIsComplete
<1>2. IInv /\ [Next]_vars => IInv'
  <2> SUFFICES ASSUME IInv, [Next]_vars PROVE IInv'
    OBVIOUS
  <2>1. faults \in 0..MaxFaults /\ MaxFaults \in Nat
    BY PublisherAssumption DEF PublisherAssumption, IInv, TypeOK
  <2>2. ASSUME NEW m \in Msgs, Arrive(m) PROVE IInv'
    BY <2>2, ArrivalKeepsInv
  <2>3. ASSUME NEW B \in SUBSET todo, Flush(B) PROVE IInv'
    BY <2>3, FlushKeepsInv
  <2>4. ASSUME NEW B \in SUBSET todo, BatchBreaks(B) PROVE IInv'
    BY <2>1, <2>4, LeavingKeepsInv DEF BatchBreaks, GivesUpChat, NextBatch
  <2>5. CASE ChatPushed
    BY <2>1, <2>5, LeavingKeepsInv DEF ChatPushed, LeavesChat
  <2>6. CASE RunDone
    BY <2>1, <2>6, LeavingKeepsInv DEF RunDone
  <2>7. CASE ChatFails
    BY <2>1, <2>7, LeavingKeepsInv DEF ChatFails, GivesUpChat, Fault
  <2>8. CASE RunDies
    BY <2>1, <2>8, LeavingKeepsInv DEF RunDies, Fault
  <2>9. CASE StartRun \/ (\E c \in Chats : NextChat(c)) \/ ReadSince
    BY <2>9, MovingOnKeepsInv
  <2>10. CASE UNCHANGED vars
    BY <2>10 DEF vars, mailVars, runVars, IInv, TypeOK, RunInv, NoGap, PushedIsComplete, Wanted
  <2> QED BY <2>2, <2>3, <2>4, <2>5, <2>6, <2>7, <2>8, <2>9, <2>10 DEF Next, RunStep
<1> QED BY <1>1, <1>2, PTL DEF Spec

\* push.py:69-119.  MAX(sentAt) is a sound watermark: no message that arrived in
\* order is ever missing before the newest row of its chat.
THEOREM NoGapTheorem == Spec => []NoGap
<1>1. IInv => NoGap BY DEF IInv
<1> QED BY <1>1, PublisherInvariant, PTL

\* push.py:144-148.  A chat that a run went through without an exception is all
\* in Postgres, as of the run's snapshot and but for late messages.
THEOREM CompletenessTheorem == Spec => []PushedIsComplete
<1>1. IInv => PushedIsComplete BY DEF IInv
<1> QED BY <1>1, PublisherInvariant, PTL

-----------------------------------------------------------------------------
(* The freshness note                                                        *)

\* No message is dated in the future, no row is newer than the last push, and a
\* silent answer is one of a replica with a recent row.
FreshInv ==
  /\ now \in Nat /\ syncedAt \in Nat /\ syncedAt <= now
  /\ \A m \in arrived : SentAt[m] <= now
  /\ \A m \in cloud : SentAt[m] <= syncedAt
  /\ answer = "silent" => ~Stale

\* The publisher, the clock and the searches together are still the publisher.
LEMMA PublisherImplemented == SearchSpec => Spec
<1>1. SearchInit => Init
  BY DEF SearchInit
<1>2. [SearchNext]_searchVars => [Next]_vars
  BY DEF SearchNext, PublisherStep, Tick, Search, searchVars
<1> QED BY <1>1, <1>2, PTL DEF SearchSpec, Spec

\* Whatever a step adds to the replica had arrived, and the push is dated now.
LEMMA FreshStep ==
  ASSUME TypeOK, TypeOK', FreshInv, [SearchNext]_searchVars
  PROVE  FreshInv'
<1> USE PublisherAssumption, ClockAssumption DEF PublisherAssumption, ClockAssumption
<1>1. CASE PublisherStep
  <2>1. now' = now /\ answer' = "none"
    BY <1>1 DEF PublisherStep
  <2>2. \A m \in arrived' : SentAt[m] <= now
    BY <1>1 DEF PublisherStep, FreshInv
  <2>3. CASE cloud' = cloud
    <3>1. cloud \subseteq arrived
      BY DEF TypeOK
    <3>2. syncedAt' \in {now, syncedAt}
      BY <1>1 DEF PublisherStep
    <3> QED BY <2>1, <2>2, <2>3, <3>1, <3>2 DEF FreshInv
  <2>4. CASE cloud' # cloud
    <3>1. syncedAt' = now
      BY <1>1, <2>4 DEF PublisherStep
    <3>2. cloud' \subseteq arrived'
      BY DEF TypeOK
    <3> QED BY <2>1, <2>2, <3>1, <3>2 DEF FreshInv
  <2> QED BY <2>3, <2>4
<1>2. CASE Tick
  <2>1. cloud' = cloud /\ arrived' = arrived /\ syncedAt' = syncedAt /\ now' = now + 1
        /\ answer' = "none"
    BY <1>2 DEF Tick, vars, mailVars
  <2>2. \A m \in arrived : SentAt[m] \in Nat /\ SentAt[m] <= now
    BY DEF FreshInv, TypeOK
  <2> QED BY <2>1, <2>2 DEF FreshInv
<1>3. CASE Search
  BY <1>3 DEF Search, FreshInv, Stale, vars, mailVars
<1>4. CASE UNCHANGED searchVars
  BY <1>4 DEF searchVars, FreshInv, Stale, vars, mailVars
<1> QED BY <1>1, <1>2, <1>3, <1>4 DEF SearchNext

\* In every reachable state a row of the replica is no newer than the last push.
THEOREM FreshInvariant == SearchSpec => []FreshInv
<1>1. SearchInit => FreshInv
  BY DEF SearchInit, Init, FreshInv
<1>2. IInv => TypeOK
  BY DEF IInv
<1>3. TypeOK /\ TypeOK' /\ FreshInv /\ [SearchNext]_searchVars => FreshInv'
  BY FreshStep
<1> QED BY <1>1, <1>2, <1>3, PublisherImplemented, PublisherInvariant, PTL DEF SearchSpec

\* MessageVectorSearchService.java:70-80.  Whatever fails or arrives late, an
\* answer without a note means that the last push is at most StaleAfter old.
THEOREM HonestyTheorem == SearchSpec => []SilenceIsHonest
<1>1. TypeOK /\ FreshInv => SilenceIsHonest
  <2> SUFFICES ASSUME TypeOK, FreshInv, answer = "silent", cloud # {}
               PROVE  now - syncedAt <= StaleAfter
    BY DEF SilenceIsHonest
  <2>1. PICK m \in cloud : ~(now > SentAt[m] + StaleAfter)
    BY DEF FreshInv, Stale
  <2>2. SentAt[m] \in Nat /\ SentAt[m] <= syncedAt
    BY PublisherAssumption DEF PublisherAssumption, FreshInv, TypeOK
  <2> QED BY <2>1, <2>2, ClockAssumption DEF ClockAssumption, FreshInv
<1>2. IInv => TypeOK
  BY DEF IInv
<1> QED BY <1>1, <1>2, FreshInvariant, PublisherImplemented, PublisherInvariant, PTL
=============================================================================
