--------------------------- MODULE Indexer_proofs ---------------------------
(***************************************************************************)
(* Proofs about Indexer, for every set of messages, chats, jobs and        *)
(* callers, every order of arrival and every number of faults.             *)
(***************************************************************************)
EXTENDS Indexer, FiniteSetTheorems, SequenceTheorems, TLAPS

\* A batch is finite, so the counters it is added to stay numbers.
LEMMA BatchIsFinite ==
  ASSUME NEW S \in SUBSET Msgs
  PROVE  IsFiniteSet(S) /\ Cardinality(S) \in Nat
  BY ConstantsAssumption, FS_Subset, FS_CardinalityType DEF ConstantsAssumption

\* The record of a chat outside its jobs is a chat.
LEMMA AnyChatIsChat == AnyChat \in Chats
  BY ConstantsAssumption DEF ConstantsAssumption, AnyChat

\* Handing a job to the executor keeps the types of what it touches.
LEMMA LaunchIsTyped ==
  ASSUME TypeOK, NEW c \in Chats, NEW j \in Jobs, Launches(c, j)
  PROVE  /\ pc' \in [Jobs -> Running \cup {"pending", "done"}] /\ chat' \in [Jobs -> Chats]
         /\ queue' \in Seq(Jobs) /\ inFlight' \in [Chats -> Jobs \cup {NoJob}]
<1>1. queue' \in Seq(Jobs)
  BY AppendProperties DEF TypeOK, Launches
<1> QED BY <1>1 DEF TypeOK, Launches

\* Every variable keeps its type; in particular only messages with text are
\* ever indexed (indexer.py:121-123).
THEOREM TypeCorrect == Spec => []TypeOK
<1> USE ConstantsAssumption, AnyChatIsChat DEF ConstantsAssumption
<1>1. Init => TypeOK
  BY DEF Init, TypeOK, Running
<1>2. TypeOK /\ [Next]_vars => TypeOK'
  <2> SUFFICES ASSUME TypeOK, [Next]_vars PROVE TypeOK' OBVIOUS
  <2> USE DEF TypeOK, Running
  <2>1. ASSUME NEW m \in Msgs, Arrive(m) PROVE TypeOK'
    BY <2>1 DEF Arrive, procVars, poolVars, jobVars, jobLocals, callVars, metaVars
  <2>2. CASE Dispatch
    <3>1. Head(queue) \in Jobs /\ queue' \in Seq(Jobs)
      BY <2>2, HeadTailProperties DEF Dispatch
    <3>2. pc' \in [Jobs -> Running \cup {"pending", "done"}]
      BY <2>2, <3>1 DEF Dispatch
    <3> QED BY <2>2, <3>1, <3>2 DEF Dispatch, mailVars, procVars, jobLocals, callVars, metaVars
  <2>3. ASSUME NEW j \in Jobs, NEW S \in SUBSET Msgs, TakeSnapshot(j, S) PROVE TypeOK'
    BY <2>3 DEF TakeSnapshot, SnapshotOf, mailVars, procVars, poolVars, callVars, metaVars
  <2>4. ASSUME NEW j \in Jobs, Begin(j) PROVE TypeOK'
    BY <2>4 DEF Begin, mailVars, procVars, poolVars, jobLocals, callVars
  <2>5. ASSUME NEW j \in Jobs, Open(j) PROVE TypeOK'
    <3>1. size' \in [Jobs -> Nat]
      <4> DEFINE real == {m \in snap[j] \cap Counted : ChatOf[m] = chat[j]}
      <4>1. Cardinality(real) \in Nat
        BY BatchIsFinite
      <4>2. \E n \in {0, Cardinality(real)} : size' = [size EXCEPT ![j] = n]
        BY <2>5 DEF Open
      <4> HIDE DEF real
      <4> QED BY <4>1, <4>2
    <3>2. count' \in [Jobs -> Nat]
      <4>1. Cardinality(AlreadyIndexed(chat[j])) \in Nat
        BY BatchIsFinite DEF AlreadyIndexed
      <4> QED BY <2>5, <4>1 DEF Open
    <3>3. todo' \in [Jobs -> SUBSET Text]
      BY <2>5 DEF Open, Wanted
    <3> QED BY <2>5, <3>1, <3>2, <3>3
            DEF Open, mailVars, procVars, poolVars, callVars, metaVars
  <2>6. ASSUME NEW j \in Jobs, Announce(j) PROVE TypeOK'
    BY <2>6 DEF Announce, mailVars, procVars, poolVars, jobLocals, callVars
  <2>7. ASSUME NEW j \in Jobs, Since(j) PROVE TypeOK'
    BY <2>7 DEF Since, NewestAtStart, mailVars, procVars, poolVars, callVars, metaVars
  <2>8. ASSUME NEW j \in Jobs, NEW B \in SUBSET todo[j], Flush(j, B),
               pc' \in [Jobs -> Running \cup {"pending", "done"}]
        PROVE  TypeOK'
    <3>1. Cardinality(B) \in Nat
      BY BatchIsFinite
    <3>2. newest' \in [Jobs -> Nat]
      BY <2>8 DEF Flush
    <3>3. count' \in [Jobs -> Nat]
      BY <2>8, <3>1, SMTT(30) DEF Flush
    <3> QED BY <2>8, <3>2, <3>3
            DEF Flush, mailVars, procVars, poolVars, callVars, metaVars
  <2>9. ASSUME NEW j \in Jobs, SaveProgress(j) PROVE TypeOK'
    BY <2>9 DEF SaveProgress, mailVars, procVars, poolVars, jobLocals, callVars
  <2>10. ASSUME NEW j \in Jobs, Finish(j) PROVE TypeOK'
    BY <2>10 DEF Finish, Ends, mailVars, procVars, poolVars, callVars
  <2>11. ASSUME NEW j \in Jobs, SnapshotFails(j) \/ JobFails(j) PROVE TypeOK'
    <3>1. MarksError(chat[j]) /\ Ends(j) /\ faults' = faults + 1
      BY <2>11 DEF SnapshotFails, JobFails, Fault
    <3>2. UNCHANGED <<mailVars, cached, procVars, poolVars, callVars, rows, base>>
      BY <2>11 DEF SnapshotFails, JobFails
    <3>3. /\ state' \in [Chats -> {"absent", "indexing", "ready", "error"}]
          /\ lastError' \in [Chats -> BOOLEAN]
          /\ UNCHANGED <<indexed, total, watermark>>
      BY <3>1 DEF MarksError
    <3>4. /\ pc' \in [Jobs -> Running \cup {"pending", "done"}] /\ chat' \in [Jobs -> Chats]
          /\ snap' \in [Jobs -> SUBSET Msgs] /\ todo' \in [Jobs -> SUBSET Text]
          /\ newest' \in [Jobs -> Nat] /\ count' \in [Jobs -> Nat] /\ size' \in [Jobs -> Nat]
      BY <3>1 DEF Ends
    <3>5. faults' \in Nat
      BY <3>1
    <3> QED BY <3>2, <3>3, <3>4, <3>5 DEF mailVars, procVars, poolVars, callVars
  <2>12. ASSUME NEW j \in Jobs, JobFailsSilently(j) PROVE TypeOK'
    <3>1. /\ pc' \in [Jobs -> Running \cup {"pending", "done"}] /\ chat' \in [Jobs -> Chats]
          /\ snap' \in [Jobs -> SUBSET Msgs] /\ todo' \in [Jobs -> SUBSET Text]
          /\ newest' \in [Jobs -> Nat] /\ count' \in [Jobs -> Nat] /\ size' \in [Jobs -> Nat]
      BY <2>12 DEF JobFailsSilently, Ends
    <3>2. faults' \in Nat
      BY <2>12 DEF JobFailsSilently, Fault
    <3>3. UNCHANGED <<mailVars, cached, procVars, poolVars, callVars, rows, metaVars, base>>
      BY <2>12 DEF JobFailsSilently
    <3> QED BY <3>1, <3>2, <3>3 DEF mailVars, procVars, poolVars, callVars, metaVars
  <2>13. ASSUME NEW k \in Callers, NEW c \in Chats, Call(k, c) PROVE TypeOK'
    <3>1. PICK j \in Jobs : /\ \/ Joins(c, j) /\ UNCHANGED <<poolVars, pc, chat>>
                               \/ Launches(c, j)
                            /\ waitsOn' = [waitsOn EXCEPT ![k] = j]
      BY <2>13 DEF Call
    <3>2. CASE UNCHANGED <<poolVars, pc, chat>>
      BY <2>13, <3>1, <3>2 DEF Call, mailVars, procVars, poolVars, jobLocals, metaVars
    <3>3. CASE Launches(c, j)
      BY <2>13, <3>1, <3>3, LaunchIsTyped DEF Call, mailVars, procVars, jobLocals, metaVars
    <3> QED BY <3>1, <3>2, <3>3
  <2>14. ASSUME NEW k \in Callers, StopWaiting(k) \/ ReadStatus(k) PROVE TypeOK'
    <3>1. CASE StopWaiting(k)
      BY <3>1 DEF StopWaiting, mailVars, procVars, poolVars, jobVars, jobLocals, metaVars
    <3>2. CASE ReadStatus(k)
      BY <3>2 DEF ReadStatus, mailVars, procVars, poolVars, jobVars, jobLocals, metaVars
    <3> QED BY <2>14, <3>1, <3>2
  <2>15. CASE Start \/ Serve
    <3>1. proc' \in {"warming", "up"} /\ warm' \subseteq Chats /\ cached' \subseteq SUBSET Msgs
      BY <2>15 DEF Start, SnapshotOf, Serve
    <3>2. UNCHANGED <<mailVars, poolVars, jobVars, callVars, rows, metaVars, base, faults>>
      BY <2>15 DEF Start, Serve
    <3> QED BY <3>1, <3>2 DEF mailVars, poolVars, jobVars, jobLocals, callVars, metaVars
  <2>16. ASSUME NEW c \in Chats, WarmSubmit(c) PROVE TypeOK'
    <3>1. PICK j \in Jobs : Launches(c, j)
      BY <2>16 DEF WarmSubmit
    <3> QED BY <2>16, <3>1, LaunchIsTyped
            DEF WarmSubmit, mailVars, jobLocals, callVars, metaVars
  <2>17. CASE Shutdown
    <3>1. pc' \in [Jobs -> Running \cup {"pending", "done"}] /\ chat' \in [Jobs -> Chats]
      BY <2>17 DEF Shutdown
    <3>2. queue' \in Seq(Jobs)
      BY <2>17, EmptySeq DEF Shutdown
    <3> QED BY <2>17, <3>1, <3>2 DEF Shutdown, Fault, mailVars, jobLocals, callVars, metaVars
  <2>18. CASE Exit \/ Crash
    <3>1. Dies /\ faults' \in Nat
      BY <2>18 DEF Exit, Crash, Fault
    <3>2. queue' \in Seq(Jobs)
      BY <3>1, EmptySeq DEF Dies
    <3>3. /\ pc' \in [Jobs -> Running \cup {"pending", "done"}] /\ chat' \in [Jobs -> Chats]
          /\ snap' \in [Jobs -> SUBSET Msgs] /\ todo' \in [Jobs -> SUBSET Text]
          /\ newest' \in [Jobs -> Nat] /\ count' \in [Jobs -> Nat] /\ size' \in [Jobs -> Nat]
      BY <3>1 DEF Dies
    <3>4. /\ inFlight' \in [Chats -> Jobs \cup {NoJob}]
          /\ phase' \in [Callers -> {"idle", "waiting", "reading"}]
          /\ asks' \in [Callers -> Chats] /\ waitsOn' \in [Callers -> Jobs \cup {NoJob}]
      BY <3>1 DEF Dies
    <3> QED BY <3>1, <3>2, <3>3, <3>4 DEF Dies, mailVars, metaVars
  <2>19. CASE UNCHANGED vars
    BY <2>19 DEF vars, mailVars, procVars, poolVars, jobVars, jobLocals, callVars, metaVars
  <2>20. ASSUME NEW j \in Jobs, JobStep(j) PROVE TypeOK'
    <3>1. ASSUME NEW B \in SUBSET todo[j], FlushBatch(j, B) PROVE TypeOK'
      BY <3>1, <2>8 DEF FlushBatch
    <3>2. CASE FlushRest(j)
      BY <3>2, <2>8 DEF FlushRest
    <3> QED BY <2>20, <2>3, <2>4, <2>5, <2>6, <2>7, <2>9, <2>10, <3>1, <3>2 DEF JobStep
  <2> QED BY <2>1, <2>2, <2>11, <2>12, <2>13, <2>14, <2>15, <2>16, <2>17, <2>18, <2>19, <2>20
          DEF Next
<1> QED BY <1>1, <1>2, PTL DEF Spec

-----------------------------------------------------------------------------
(* One job per chat                                                          *)

\* Steps of one job change no job but that one, and it stays what it is or ends.
JobMoves(j) ==
  /\ Active(j)
  /\ \A i \in Jobs \ {j} : pc'[i] = pc[i] /\ chat'[i] = chat[i]
  /\ (pc'[j] \in Running /\ chat'[j] = chat[j]) \/ pc'[j] = "done"
  /\ UNCHANGED inFlight

\* A statement of a job, or its failure, moves this job alone.
LEMMA StatementsMoveOneJob ==
  ASSUME TypeOK, NEW j \in Jobs,
         JobStep(j) \/ SnapshotFails(j) \/ JobFails(j) \/ JobFailsSilently(j)
  PROVE  JobMoves(j)
<1> USE DEF TypeOK, JobMoves, Active, Running, poolVars
<1>1. ASSUME NEW S \in SUBSET Msgs, TakeSnapshot(j, S) PROVE JobMoves(j)
  BY <1>1 DEF TakeSnapshot
<1>2. CASE Begin(j)
  BY <1>2 DEF Begin
<1>3. CASE Open(j)
  BY <1>3 DEF Open
<1>4. CASE Announce(j)
  BY <1>4 DEF Announce
<1>5. CASE Since(j)
  BY <1>5 DEF Since
<1>6. ASSUME NEW B \in SUBSET todo[j], FlushBatch(j, B) PROVE JobMoves(j)
  BY <1>6 DEF FlushBatch, Flush
<1>7. CASE SaveProgress(j)
  BY <1>7 DEF SaveProgress
<1>8. CASE FlushRest(j)
  BY <1>8 DEF FlushRest, Flush
<1>9. CASE Finish(j)
  BY <1>9 DEF Finish, Ends
<1>10. CASE SnapshotFails(j)
  BY <1>10 DEF SnapshotFails, Ends
<1>11. CASE JobFails(j)
  BY <1>11 DEF JobFails, Ends
<1>12. CASE JobFailsSilently(j)
  BY <1>12 DEF JobFailsSilently, Ends
<1> QED BY <1>1, <1>2, <1>3, <1>4, <1>5, <1>6, <1>7, <1>8, <1>9, <1>10, <1>11, <1>12 DEF JobStep

\* The future that _in_flight holds for a chat is that chat's only unfinished
\* job (indexer.py:52-60): submit launches a job only when it finds none.
THEOREM JobInvariant == Spec => []JobInv
<1> USE ConstantsAssumption DEF ConstantsAssumption
<1>1. Init => JobInv
  BY DEF Init, JobInv, Active, Running
<1>2. TypeOK /\ JobInv /\ [Next]_vars => JobInv'
  <2> SUFFICES ASSUME TypeOK, JobInv, [Next]_vars PROVE JobInv' OBVIOUS
  <2> USE DEF JobInv
  <2>1. ASSUME NEW c \in Chats, NEW j \in Jobs, Launches(c, j) PROVE JobInv'
    <3>1. ASSUME NEW i \in Jobs, Active(i)' PROVE inFlight'[chat'[i]] = i
      <4>1. CASE i = j
        BY <2>1, <4>1 DEF Launches, TypeOK
      <4>2. CASE i # j
        <5>1. pc'[i] = pc[i] /\ chat'[i] = chat[i]
          BY <2>1, <4>2 DEF Launches, TypeOK
        <5>2. Active(i) /\ inFlight[chat[i]] = i
          BY <3>1, <5>1 DEF Active
        <5>3. chat[i] # c
          BY <2>1, <5>2 DEF Launches, NoneInFlight
        <5> QED BY <2>1, <5>1, <5>2, <5>3 DEF Launches, TypeOK
      <4> QED BY <4>1, <4>2
    <3> QED BY <3>1
  <2>2. CASE Dispatch
    <3>1. Head(queue) \in Jobs
      BY <2>2, HeadTailProperties DEF Dispatch, TypeOK
    <3> QED BY <2>2, <3>1 DEF Dispatch, TypeOK, Active, Running
  <2>3. ASSUME NEW j \in Jobs, JobMoves(j) PROVE JobInv'
    BY <2>3 DEF JobMoves, Active, Running
  <2>4. CASE UNCHANGED <<pc, chat, inFlight>>
    BY <2>4 DEF Active
  <2>5. ASSUME NEW k \in Callers, NEW c \in Chats, Call(k, c) PROVE JobInv'
    BY <2>5, <2>1, <2>4 DEF Call, poolVars
  <2>6. ASSUME NEW c \in Chats, WarmSubmit(c) PROVE JobInv'
    BY <2>6, <2>1 DEF WarmSubmit
  <2>7. CASE Shutdown
    BY <2>7 DEF Shutdown, TypeOK, Active, Running
  <2>8. CASE Exit \/ Crash
    BY <2>8 DEF Exit, Crash, Dies, Active, Running
  <2>9. ASSUME NEW m \in Msgs, Arrive(m) PROVE UNCHANGED <<pc, chat, inFlight>>
    BY <2>9 DEF Arrive, poolVars, jobVars
  <2>10. ASSUME NEW k \in Callers, StopWaiting(k) \/ ReadStatus(k)
         PROVE  UNCHANGED <<pc, chat, inFlight>>
    BY <2>10 DEF StopWaiting, ReadStatus, poolVars, jobVars
  <2>11. CASE Start \/ Serve \/ UNCHANGED vars
    BY <2>11, <2>4 DEF Start, Serve, vars, poolVars, jobVars
  <2> QED BY <2>2, <2>3, <2>4, <2>5, <2>6, <2>7, <2>8, <2>9, <2>10, <2>11, StatementsMoveOneJob
          DEF Next
<1> QED BY <1>1, <1>2, TypeCorrect, PTL DEF Spec

-----------------------------------------------------------------------------
(* Snapshots and the order of arrival                                        *)

\* What a job does leaves chat.db alone; its snapshot is the cached one, or a
\* copy made now, and what it has to do only shrinks, except in Open.
JobReads(j) ==
  /\ UNCHANGED mailVars
  /\ cached' = cached \/ \E S \in cached \cup {arrived} : cached' = {S}
  /\ \A i \in Jobs \ {j} : UNCHANGED <<snap[i], todo[i], chat[i], pc[i]>>
  /\ snap'[j] \in {snap[j], {}} \cup cached \cup {arrived}
  /\ todo'[j] \subseteq Wanted(chat'[j], snap'[j])
  /\ pc'[j] \in {"pending", "start", "done"} => todo'[j] = {}

\* SnapInv speaks of nothing that such a step can spoil.
LEMMA ReadsKeepOrder ==
  ASSUME TypeOK, SnapInv, NEW j \in Jobs, JobReads(j)
  PROVE  SnapInv'
<1> DEFINE held == cached \cup {arrived} \cup {snap[i] : i \in Jobs} \cup {{}}
<1>1. UNCHANGED <<arrived, late>>
  BY DEF JobReads, mailVars
<1>2. ASSUME NEW S \in held PROVE S \subseteq arrived' /\ InOrderAfter(S)'
  BY <1>1, <1>2 DEF SnapInv, InOrderAfter
<1>3. cached' \subseteq held
  BY DEF JobReads
<1>4. ASSUME NEW i \in Jobs
      PROVE  /\ snap'[i] \in held /\ todo'[i] \subseteq Wanted(chat'[i], snap'[i])
             /\ pc'[i] \in {"pending", "start", "done"} => todo'[i] = {}
  <2>1. CASE i = j
    BY <2>1 DEF JobReads
  <2>2. CASE i # j
    BY <2>2 DEF JobReads, SnapInv
  <2> QED BY <2>1, <2>2
<1> HIDE DEF held
<1>5. ASSUME NEW S \in cached' PROVE (S \subseteq arrived /\ InOrderAfter(S))'
  BY <1>2, <1>3, <1>5
<1>6. ASSUME NEW i \in Jobs
      PROVE  (/\ snap[i] \subseteq arrived /\ InOrderAfter(snap[i])
              /\ todo[i] \subseteq Wanted(chat[i], snap[i])
              /\ pc[i] \in {"pending", "start", "done"} => todo[i] = {})'
  <2>1. PICK S \in held : S = snap'[i]
    BY <1>4
  <2>2. S \subseteq arrived' /\ InOrderAfter(S)'
    BY <1>2
  <2>3. InOrderAfter(snap[i])'
    BY <2>1, <2>2 DEF InOrderAfter
  <2> QED BY <2>1, <2>2, <2>3, <1>4 DEF Wanted
<1> QED BY <1>5, <1>6 DEF SnapInv

\* Whatever reaches chat.db after a snapshot was taken and is not late was sent
\* after everything in it (store_cache.py:45-65, imsg/db.py:52-86).
THEOREM SnapshotInvariant == Spec => []SnapInv
<1> USE ConstantsAssumption DEF ConstantsAssumption
<1>1. Init => SnapInv
  BY DEF Init, SnapInv, InOrderAfter, Wanted
<1>2. TypeOK /\ SnapInv /\ [Next]_vars => SnapInv'
  <2> SUFFICES ASSUME TypeOK, SnapInv, [Next]_vars PROVE SnapInv' OBVIOUS
  <2>1. ASSUME NEW m \in Msgs, Arrive(m) PROVE SnapInv'
    <3>1. /\ arrived' = arrived \cup {m} /\ late \subseteq late' /\ late' \subseteq late \cup {m}
          /\ m \notin late' =>
               \A k \in arrived : ChatOf[k] = ChatOf[m] => SentAt[k] <= Date[m]
          /\ UNCHANGED <<cached, snap, todo, chat, pc>>
      BY <2>1 DEF Arrive, Overtaken, jobVars, jobLocals, TypeOK
    <3>2. ASSUME NEW S, S \subseteq arrived, InOrderAfter(S)
          PROVE  S \subseteq arrived' /\ InOrderAfter(S)'
      BY <3>1, <3>2 DEF InOrderAfter
    <3>3. ASSUME NEW j \in Jobs PROVE snap'[j] = snap[j] /\ InOrderAfter(snap[j])'
      <4>1. PICK S : S = snap[j]
        OBVIOUS
      <4>2. S \subseteq arrived /\ InOrderAfter(S)
        BY <4>1 DEF SnapInv
      <4>3. InOrderAfter(S)'
        BY <3>2, <4>2
      <4>4. snap'[j] = S
        BY <3>1, <4>1
      <4>5. InOrderAfter(snap[j])'
        BY <4>3, <4>4 DEF InOrderAfter
      <4> QED BY <4>1, <4>4, <4>5
    <3>4. ASSUME NEW S \in cached' PROVE (S \subseteq arrived /\ InOrderAfter(S))'
      BY <3>1, <3>2, <3>4 DEF SnapInv
    <3>5. ASSUME NEW j \in Jobs
          PROVE  (/\ snap[j] \subseteq arrived /\ InOrderAfter(snap[j])
                  /\ todo[j] \subseteq Wanted(chat[j], snap[j])
                  /\ pc[j] \in {"pending", "start", "done"} => todo[j] = {})'
      <4>1. /\ snap[j] \subseteq arrived /\ todo[j] \subseteq Wanted(chat[j], snap[j])
            /\ pc[j] \in {"pending", "start", "done"} => todo[j] = {}
        BY DEF SnapInv
      <4> QED BY <3>1, <3>3, <4>1 DEF Wanted
    <3> QED BY <3>4, <3>5 DEF SnapInv
  <2>2. ASSUME NEW j \in Jobs,
               JobStep(j) \/ SnapshotFails(j) \/ JobFails(j) \/ JobFailsSilently(j)
        PROVE  JobReads(j)
    <3> USE DEF TypeOK, JobReads, SnapInv, Wanted, poolVars, Running
    <3>1. ASSUME NEW S \in SUBSET Msgs, TakeSnapshot(j, S) PROVE JobReads(j)
      BY <3>1 DEF TakeSnapshot, SnapshotOf
    <3>2. CASE Begin(j)
      BY <3>2 DEF Begin, jobLocals
    <3>3. CASE Open(j)
      BY <3>3 DEF Open
    <3>4. CASE Announce(j)
      BY <3>4 DEF Announce, jobLocals
    <3>5. CASE Since(j)
      BY <3>5 DEF Since
    <3>6. ASSUME NEW B \in SUBSET todo[j], FlushBatch(j, B) PROVE JobReads(j)
      BY <3>6 DEF FlushBatch, Flush
    <3>10. CASE FlushRest(j)
      BY <3>10 DEF FlushRest, Flush
    <3>7. CASE SaveProgress(j)
      BY <3>7 DEF SaveProgress, jobLocals
    <3>8. CASE Finish(j)
      BY <3>8 DEF Finish, Ends
    <3>9. CASE SnapshotFails(j) \/ JobFails(j) \/ JobFailsSilently(j)
      BY <3>9 DEF SnapshotFails, JobFails, JobFailsSilently, Ends
    <3> QED BY <2>2, <3>1, <3>2, <3>3, <3>4, <3>5, <3>6, <3>7, <3>8, <3>9, <3>10 DEF JobStep
  <2>3. ASSUME UNCHANGED <<mailVars, snap, todo>>,
               cached' = cached \/ \E S \in cached \cup {arrived} : cached' = {S},
               \A i \in Jobs : \/ pc'[i] \in {"pending", "done"} /\ pc[i] \in {"pending", "done"}
                              \/ UNCHANGED <<chat[i], pc[i]>>
        PROVE  SnapInv'
    <3>1. \A S \in cached \cup {arrived} : S \subseteq arrived' /\ InOrderAfter(S)'
      BY <2>3 DEF SnapInv, InOrderAfter, mailVars
    <3>2. \A i \in Jobs : snap'[i] \subseteq arrived' /\ InOrderAfter(snap[i])'
      BY <2>3 DEF SnapInv, InOrderAfter, mailVars
    <3>3. \A i \in Jobs : /\ todo'[i] \subseteq Wanted(chat'[i], snap'[i])
                          /\ pc'[i] \in {"pending", "start", "done"} => todo'[i] = {}
      BY <2>3 DEF SnapInv, Wanted
    <3> QED BY <2>3, <3>1, <3>2, <3>3 DEF SnapInv, Wanted
  <2>4. ASSUME NEW c \in Chats, NEW j \in Jobs, Launches(c, j),
               UNCHANGED <<mailVars, cached, snap, todo>>
        PROVE  SnapInv'
    BY <2>3, <2>4 DEF Launches, Unused, Active, TypeOK, Running
  <2>5. ASSUME NEW k \in Callers, NEW c \in Chats, Call(k, c) PROVE SnapInv'
    BY <2>3, <2>4, <2>5 DEF Call, jobLocals
  <2>6. ASSUME NEW c \in Chats, WarmSubmit(c) PROVE SnapInv'
    BY <2>4, <2>6 DEF WarmSubmit, jobLocals
  <2>7. CASE Dispatch
    <3>1. Head(queue) \in Jobs
      BY <2>7, HeadTailProperties DEF Dispatch, TypeOK
    <3>2. \A S \in cached' : S \subseteq arrived' /\ InOrderAfter(S)'
      BY <2>7 DEF Dispatch, SnapInv, InOrderAfter, mailVars
    <3>3. \A i \in Jobs : snap'[i] \subseteq arrived' /\ InOrderAfter(snap[i])'
      BY <2>7 DEF Dispatch, SnapInv, InOrderAfter, mailVars, jobLocals
    <3>4. \A i \in Jobs : /\ todo'[i] \subseteq Wanted(chat'[i], snap'[i])
                          /\ pc'[i] \in {"pending", "start", "done"} => todo'[i] = {}
      BY <2>7, <3>1 DEF Dispatch, SnapInv, Wanted, jobLocals, TypeOK
    <3> QED BY <3>2, <3>3, <3>4 DEF SnapInv, Wanted
  <2>8. CASE Shutdown
    BY <2>3, <2>8 DEF Shutdown, TypeOK, jobLocals
  <2>9. CASE Exit \/ Crash
    BY <2>9 DEF Exit, Crash, Dies, SnapInv, InOrderAfter, Wanted
  <2>10. ASSUME NEW k \in Callers, StopWaiting(k) \/ ReadStatus(k) PROVE SnapInv'
    BY <2>3, <2>10 DEF StopWaiting, ReadStatus, jobVars, jobLocals
  <2>11. CASE Start
    BY <2>3, <2>11 DEF Start, SnapshotOf, jobVars, jobLocals
  <2>12. CASE Serve
    BY <2>3, <2>12 DEF Serve, jobVars, jobLocals
  <2>13. CASE UNCHANGED vars
    BY <2>3, <2>13 DEF vars, jobVars, jobLocals
  <2> QED BY <2>1, <2>2, <2>5, <2>6, <2>7, <2>8, <2>9, <2>10, <2>11, <2>12, <2>13, ReadsKeepOrder
          DEF Next
<1> QED BY <1>1, <1>2, TypeCorrect, PTL DEF Spec

-----------------------------------------------------------------------------
(* The watermark                                                             *)

\* A row, once there, stays: all that is before an instant stays indexed, and a
\* message that arrives now is behind every instant of its chat or is late.
LEMMA ArrivalsAreBehind ==
  ASSUME TypeOK, NEW m \in Msgs, Arrive(m), NEW c \in Chats, NEW w \in Nat,
         IsInstantOf(c, w), IndexedBefore(c, w)
  PROVE  (IsInstantOf(c, w) /\ IndexedBefore(c, w))'
<1> USE ConstantsAssumption DEF ConstantsAssumption, TypeOK, Overtaken
<1>1. IsInstantOf(c, w)'
  BY DEF IsInstantOf, Arrive
<1>2. ASSUME NEW n \in (arrived' \ late') \cap Text, ChatOf[n] = c, Date[n] < w
      PROVE  n \in rows'
  <2>1. rows' = rows /\ n \in arrived \cup {m} /\ n \notin late
    BY <1>2 DEF Arrive
  <2>2. CASE n \in arrived
    BY <1>2, <2>1, <2>2 DEF IndexedBefore
  <2>3. CASE n = m /\ n \notin arrived
    <3>1. PICK k \in arrived : ChatOf[k] = c /\ SentAt[k] = w
      BY <1>2 DEF IsInstantOf
    <3> QED BY <1>2, <2>3, <3>1 DEF Arrive
  <2> QED BY <2>1, <2>2, <2>3
<1> QED BY <1>1, <1>2 DEF IndexedBefore

\* A message that is not late is one that no other instant is rounded past.
THEOREM LateInvariant == Spec => []LateInv
<1>1. Init => LateInv
  BY DEF Init, LateInv
<1>2. TypeOK /\ LateInv /\ [Next]_vars => LateInv'
  <2> SUFFICES ASSUME TypeOK, LateInv, [Next]_vars PROVE LateInv' OBVIOUS
  <2>1. CASE UNCHANGED mailVars
    BY <2>1 DEF LateInv, mailVars, Shadowed
  <2>2. ASSUME NEW m \in Msgs, Arrive(m) PROVE LateInv'
    <3>1. \A n \in arrived' \ late' : ~Shadowed(n)
      BY <2>2 DEF Arrive, Overtaken, LateInv
    <3> QED BY <3>1 DEF LateInv, Shadowed
  <2>3. ASSUME NEW j \in Jobs, JobStep(j) \/ SnapshotFails(j) \/ JobFails(j) \/ JobFailsSilently(j)
        PROVE  LateInv'
    BY <2>1, <2>3 DEF JobStep, SnapshotFails, JobFails, JobFailsSilently, TakeSnapshot, Begin, Open,
                Announce, Since, FlushBatch, Flush, SaveProgress, FlushRest, Finish
  <2>4. ASSUME NEW k \in Callers, (\E c \in Chats : Call(k, c)) \/ StopWaiting(k) \/ ReadStatus(k)
        PROVE  LateInv'
    BY <2>1, <2>4 DEF Call, StopWaiting, ReadStatus
  <2>5. CASE Dispatch \/ Start \/ (\E c \in Chats : WarmSubmit(c)) \/ Serve \/ Shutdown \/ Exit
             \/ Crash \/ UNCHANGED vars
    BY <2>1, <2>5 DEF Dispatch, Start, WarmSubmit, Serve, Shutdown, Exit, Crash, Dies, vars
  <2> QED BY <2>2, <2>3, <2>4, <2>5 DEF Next
<1> QED BY <1>1, <1>2, TypeCorrect, PTL DEF Spec

\* Flushing a first part of the stream: what is before the new instant is
\* indexed (indexer.py:118-143).
LEMMA FlushCovers ==
  ASSUME TypeOK, LateInv, SnapInv, CoverInv, NEW j \in Jobs, NEW B \in SUBSET todo[j],
         pc[j] = "scan", Earliest(B, todo[j]), Flush(j, B)
  PROVE  /\ (Wanted(chat[j], snap[j]) \ late \subseteq rows \cup todo[j])'
         /\ IsInstantOf(chat[j], newest[j])' /\ IndexedBefore(chat[j], newest[j])'
         /\ newest[j] <= newest'[j]
<1> DEFINE c == chat[j]
<1>1. /\ rows' = rows \cup B /\ todo'[j] = todo[j] \ B
      /\ newest'[j] \in {newest[j]} \cup {SentAt[m] : m \in B}
      /\ newest[j] <= newest'[j]
      /\ UNCHANGED <<arrived, late, chat, snap>>
  BY DEF Flush, mailVars, TypeOK
<1>2. /\ Wanted(c, snap[j]) \ late \subseteq rows \cup todo[j]
      /\ IsInstantOf(c, newest[j]) /\ IndexedBefore(c, newest[j])
  BY DEF CoverInv
<1>3. B \subseteq Wanted(c, snap[j]) /\ snap[j] \subseteq arrived /\ InOrderAfter(snap[j])
  BY DEF SnapInv
<1>4. /\ arrived \subseteq Msgs /\ Date \in [Msgs -> Nat] /\ SentAt \in [Msgs -> Nat]
  BY ConstantsAssumption DEF ConstantsAssumption, TypeOK
<1>5. (Wanted(chat[j], snap[j]) \ late \subseteq rows \cup todo[j])'
  BY <1>1, <1>2 DEF Wanted
<1>6. CASE newest'[j] = newest[j]
  <2>1. IsInstantOf(chat[j], newest[j])'
    BY <1>1, <1>2, <1>6 DEF IsInstantOf
  <2>2. IndexedBefore(chat[j], newest[j])'
    BY <1>1, <1>2, <1>6 DEF IndexedBefore
  <2> QED BY <1>1, <1>5, <2>1, <2>2
<1>7. ASSUME NEW b \in B, newest'[j] = SentAt[b]
      PROVE  IsInstantOf(chat[j], newest[j])' /\ IndexedBefore(chat[j], newest[j])'
  <2>1. b \in arrived /\ b \in snap[j] /\ ChatOf[b] = c
    BY <1>3 DEF Wanted
  <2>2. ASSUME NEW m \in Msgs, m \in arrived, m \notin late, m \in Text, ChatOf[m] = c,
               Date[m] < SentAt[b]
        PROVE  m \in rows \cup B
    <3>1. m \in snap[j]
      <4>1. CASE m \notin snap[j]
        <5>1. SentAt[b] <= Date[m]
          BY <2>1, <2>2, <1>3, <4>1 DEF InOrderAfter
        <5> QED BY <1>4, <2>1, <2>2, <5>1
      <4> QED BY <4>1
    <3>2. m \in rows \cup todo[j]
      BY <2>2, <3>1, <1>2 DEF Wanted
    <3>3. CASE m \in todo[j] \ B
      <4>1. Date[b] <= Date[m] /\ b # m
        BY <3>3 DEF Earliest
      <4>2. b \in Text \ {m} /\ ~Shadowed(m)
        BY <1>3, <2>2, <4>1 DEF LateInv, Wanted
      <4> QED BY <2>1, <2>2, <4>1, <4>2 DEF Shadowed
    <3> QED BY <3>2, <3>3
  <2>3. IsInstantOf(chat[j], newest[j])'
    BY <1>1, <1>7, <2>1 DEF IsInstantOf
  <2>4. IndexedBefore(chat[j], newest[j])'
    BY <1>1, <1>4, <1>7, <2>2 DEF IndexedBefore
  <2> QED BY <2>3, <2>4
<1> QED BY <1>1, <1>5, <1>6, <1>7

\* What CoverInv says of one job.
JobCovers(j) ==
  /\ pc[j] \in {"announce", "since", "scan", "save"} =>
       Wanted(chat[j], snap[j]) \ late \subseteq rows \cup todo[j]
  /\ pc[j] \in {"scan", "save"} =>
       /\ IsInstantOf(chat[j], newest[j]) /\ IndexedBefore(chat[j], newest[j])
       /\ watermark[chat[j]] <= newest[j]

\* A job that another job's statement, or a statement of its own that leaves it
\* outside the loop, does not touch keeps what CoverInv says of it.
LEMMA UntouchedJobCovers ==
  ASSUME CoverInv, NEW i \in Jobs, UNCHANGED <<arrived, late>>, rows \subseteq rows',
         pc'[i] = pc[i], chat'[i] = chat[i], snap'[i] = snap[i], todo'[i] = todo[i],
         newest'[i] = newest[i],
         pc[i] \in {"scan", "save"} => watermark'[chat[i]] = watermark[chat[i]]
  PROVE  JobCovers(i)'
<1>1. JobCovers(i)
  BY DEF CoverInv, JobCovers
<1>2. (pc[i] \in {"announce", "since", "scan", "save"} =>
         Wanted(chat[i], snap[i]) \ late \subseteq rows \cup todo[i])'
  BY <1>1 DEF JobCovers, Wanted
<1>3. (pc[i] \in {"scan", "save"} =>
         IsInstantOf(chat[i], newest[i]) /\ IndexedBefore(chat[i], newest[i]))'
  BY <1>1 DEF JobCovers, IsInstantOf, IndexedBefore
<1>4. (pc[i] \in {"scan", "save"} => watermark[chat[i]] <= newest[i])'
  BY <1>1 DEF JobCovers
<1> QED BY <1>2, <1>3, <1>4 DEF JobCovers

\* ... and so does a chat whose watermark stays.
LEMMA UntouchedChatCovers ==
  ASSUME CoverInv, NEW c \in Chats, UNCHANGED <<arrived, late>>, rows \subseteq rows',
         watermark'[c] = watermark[c]
  PROVE  (IsInstantOf(c, watermark[c]) /\ IndexedBefore(c, watermark[c]))'
<1>1. IsInstantOf(c, watermark[c]) /\ IndexedBefore(c, watermark[c])
  BY DEF CoverInv
<1> QED BY <1>1 DEF IsInstantOf, IndexedBefore

ChatCovers(c) == IsInstantOf(c, watermark[c]) /\ IndexedBefore(c, watermark[c])

\* What a statement of job j leaves alone.
OthersUntouched(j) ==
  /\ UNCHANGED <<arrived, late>> /\ rows \subseteq rows'
  /\ \A i \in Jobs \ {j} : UNCHANGED <<pc[i], chat[i], snap[i], todo[i], newest[i]>>
  /\ \A c \in Chats : c # chat[j] => watermark'[c] = watermark[c]

\* For a statement of job j it is enough to look at j and its chat, because no
\* other job of that chat is running.
LEMMA OnlyOwnChat ==
  ASSUME TypeOK, JobInv, CoverInv, NEW j \in Jobs, Active(j), OthersUntouched(j),
         JobCovers(j)', NEW d \in Chats, d = chat[j], ChatCovers(d)'
  PROVE  CoverInv'
<1>1. ASSUME NEW i \in Jobs PROVE JobCovers(i)'
  <2>1. CASE i = j
    BY <2>1
  <2>2. CASE i # j
    <3>1. pc[i] \in {"scan", "save"} => chat[i] # chat[j]
      BY <2>2 DEF JobInv, Active, Running
    <3>2. pc[i] \in {"scan", "save"} => watermark'[chat[i]] = watermark[chat[i]]
      BY <3>1 DEF OthersUntouched, TypeOK
    <3> QED BY <2>2, <3>2, UntouchedJobCovers DEF OthersUntouched
  <2> QED BY <2>1, <2>2
<1>2. ASSUME NEW c \in Chats PROVE ChatCovers(c)'
  <2>1. CASE c = d
    BY <2>1
  <2>2. CASE c # d
    BY <2>2, UntouchedChatCovers DEF OthersUntouched, ChatCovers
  <2> QED BY <2>1, <2>2
<1> QED BY <1>1, <1>2 DEF CoverInv, JobCovers, ChatCovers

\* The watermark of a chat and the newest instant of its job cover all that is
\* behind them, and a job never starts from less than the stored watermark.
THEOREM CoverInvariant == Spec => []CoverInv
<1> USE ConstantsAssumption DEF ConstantsAssumption
<1>1. Init => CoverInv
  BY DEF Init, CoverInv, IsInstantOf, IndexedBefore
<1>2. TypeOK /\ JobInv /\ LateInv /\ SnapInv /\ CoverInv /\ [Next]_vars => CoverInv'
  <2> SUFFICES ASSUME TypeOK, JobInv, LateInv, SnapInv, CoverInv, [Next]_vars PROVE CoverInv' OBVIOUS
  <2>1. ASSUME NEW m \in Msgs, Arrive(m) PROVE CoverInv'
    <3>1. /\ late \subseteq late' /\ arrived \subseteq arrived'
          /\ UNCHANGED <<pc, chat, snap, todo, newest, rows, watermark>>
      BY <2>1 DEF Arrive, jobVars, jobLocals, metaVars
    <3>2. \A c \in Chats : ChatCovers(c)'
      <4> TAKE c \in Chats
      <4>1. watermark[c] \in Nat /\ IsInstantOf(c, watermark[c]) /\ IndexedBefore(c, watermark[c])
        BY DEF TypeOK, CoverInv
      <4>2. PICK w \in Nat : w = watermark[c]
        BY <4>1
      <4>3. (IsInstantOf(c, w) /\ IndexedBefore(c, w))'
        BY <2>1, <4>1, <4>2, ArrivalsAreBehind
      <4> QED BY <3>1, <4>2, <4>3 DEF ChatCovers, IsInstantOf, IndexedBefore
    <3>3. \A j \in Jobs : JobCovers(j)'
      <4> TAKE j \in Jobs
      <4>1. (pc[j] \in {"announce", "since", "scan", "save"} =>
               Wanted(chat[j], snap[j]) \ late \subseteq rows \cup todo[j])'
        BY <3>1 DEF CoverInv, Wanted
      <4>2. ASSUME pc[j] \in {"scan", "save"}
            PROVE  IsInstantOf(chat[j], newest[j])' /\ IndexedBefore(chat[j], newest[j])'
        <5>1. PICK w \in Nat, c \in Chats : w = newest[j] /\ c = chat[j]
          BY DEF TypeOK
        <5>2. (IsInstantOf(c, w) /\ IndexedBefore(c, w))'
          BY <2>1, <4>2, <5>1, ArrivalsAreBehind DEF CoverInv
        <5> QED BY <3>1, <5>1, <5>2 DEF IsInstantOf, IndexedBefore
      <4>3. (pc[j] \in {"scan", "save"} => watermark[chat[j]] <= newest[j])'
        BY <3>1 DEF CoverInv
      <4> QED BY <3>1, <4>1, <4>2, <4>3 DEF JobCovers
    <3> QED BY <3>2, <3>3 DEF CoverInv, ChatCovers, JobCovers
  <2>2. ASSUME NEW j \in Jobs, JobStep(j) \/ SnapshotFails(j) \/ JobFails(j) \/ JobFailsSilently(j)
        PROVE  CoverInv'
    <3>a. PICK d \in Chats : d = chat[j] /\ Active(j)
      BY <2>2, StatementsMoveOneJob DEF TypeOK, JobMoves
    <3>b. ChatCovers(d) /\ JobCovers(j)
      BY <3>a DEF CoverInv, ChatCovers, JobCovers
    <3>c. ASSUME OthersUntouched(j), JobCovers(j)', watermark'[d] = watermark[d] PROVE CoverInv'
      <4>1. ChatCovers(d)'
        BY <3>a, <3>b, <3>c, UntouchedChatCovers DEF OthersUntouched, ChatCovers
      <4> QED BY <3>a, <3>c, <4>1, OnlyOwnChat
    <3>d. ASSUME OthersUntouched(j), pc'[j] \in {"begin", "open", "done"},
                 watermark'[d] = watermark[d]
          PROVE  CoverInv'
      BY <3>a, <3>c, <3>d DEF JobCovers
    <3>1. ASSUME NEW S \in SUBSET Msgs, TakeSnapshot(j, S) PROVE CoverInv'
      BY <3>a, <3>1, <3>d DEF TakeSnapshot, OthersUntouched, mailVars, metaVars, TypeOK
    <3>2. CASE Begin(j)
      BY <3>a, <3>2, <3>d DEF Begin, OthersUntouched, mailVars, jobLocals, TypeOK
    <3>3. CASE Open(j)
      <4>1. OthersUntouched(j) /\ watermark'[d] = watermark[d]
        BY <3>a, <3>3 DEF Open, OthersUntouched, mailVars, metaVars
      <4>2. /\ pc'[j] = "announce" /\ rows' = rows
            /\ todo'[j] = Wanted(d, snap[j]) \ AlreadyIndexed(d)
            /\ UNCHANGED <<chat, snap, late>>
        BY <3>a, <3>3 DEF Open, mailVars, TypeOK
      <4>3. JobCovers(j)'
        BY <3>a, <4>2 DEF JobCovers, Wanted, AlreadyIndexed
      <4> QED BY <3>a, <4>1, <4>3, <3>c
    <3>4. CASE Announce(j)
      <4>1. OthersUntouched(j) /\ watermark' = watermark
        BY <3>a, <3>4 DEF Announce, OthersUntouched, mailVars, jobLocals
      <4>2. pc[j] = "announce" /\ pc'[j] = "since" /\ UNCHANGED <<rows, late, chat, snap, todo>>
        BY <3>a, <3>4 DEF Announce, mailVars, jobLocals, TypeOK
      <4>3. JobCovers(j)'
        BY <3>a, <3>b, <4>2 DEF JobCovers, Wanted
      <4> QED BY <3>a, <4>1, <4>3, <3>c
    <3>5. CASE Since(j)
      <4>1. OthersUntouched(j) /\ watermark' = watermark
        BY <3>a, <3>5 DEF Since, OthersUntouched, mailVars, metaVars
      <4>2. /\ pc[j] = "since" /\ pc'[j] = "scan" /\ newest'[j] = watermark[d]
            /\ todo'[j] = {m \in todo[j] : Date[m] >= watermark[d]}
            /\ UNCHANGED <<rows, arrived, late, chat, snap>>
        BY <3>a, <3>5 DEF Since, NewestAtStart, Streams, mailVars, TypeOK
      <4>3. (Wanted(chat[j], snap[j]) \ late \subseteq rows \cup todo[j])'
        <5>1. ASSUME NEW m \in Wanted(d, snap[j]) \ late PROVE m \in rows \cup todo'[j]
          <6>1. m \in rows \cup todo[j] /\ m \in (arrived \ late) \cap Text /\ ChatOf[m] = d
            BY <3>a, <3>b, <4>2 DEF JobCovers, SnapInv, Wanted
          <6>2. Date[m] \in Nat /\ watermark[d] \in Nat
            BY <3>a, <6>1 DEF TypeOK
          <6>3. Date[m] < watermark[d] => m \in rows
            BY <3>a, <3>b, <6>1 DEF ChatCovers, IndexedBefore
          <6> QED BY <3>a, <4>2, <6>1, <6>2, <6>3
        <5> QED BY <3>a, <4>2, <5>1 DEF Wanted
      <4>4. IsInstantOf(chat[j], newest[j])' /\ IndexedBefore(chat[j], newest[j])'
        BY <3>a, <3>b, <4>2 DEF ChatCovers, IsInstantOf, IndexedBefore
      <4>5. (watermark[chat[j]] <= newest[j])'
        BY <3>a, <4>1, <4>2 DEF TypeOK
      <4>6. JobCovers(j)'
        BY <3>a, <4>3, <4>4, <4>5 DEF JobCovers
      <4> QED BY <3>a, <4>1, <4>6, <3>c
    <3>6. ASSUME NEW B \in SUBSET todo[j], pc[j] = "scan", Earliest(B, todo[j]), Flush(j, B),
                 \A i \in Jobs \ {j} : pc'[i] = pc[i]
          PROVE  CoverInv'
      <4>1. OthersUntouched(j) /\ UNCHANGED <<watermark, chat>>
        BY <3>a, <3>6 DEF Flush, OthersUntouched, mailVars, metaVars, TypeOK
      <4>2. watermark[d] <= newest[j] /\ watermark[d] \in Nat /\ newest[j] \in Nat
        BY <3>a, <3>b, <3>6 DEF JobCovers, TypeOK
      <4>3. newest'[j] \in Nat
        BY <3>a, <3>6 DEF Flush, TypeOK
      <4>4. /\ (Wanted(chat[j], snap[j]) \ late \subseteq rows \cup todo[j])'
            /\ IsInstantOf(chat[j], newest[j])' /\ IndexedBefore(chat[j], newest[j])'
            /\ newest[j] <= newest'[j]
        BY <3>a, <3>6, FlushCovers
      <4>5. (watermark[chat[j]] <= newest[j])'
        BY <3>a, <4>1, <4>2, <4>3, <4>4
      <4>6. JobCovers(j)'
        BY <3>a, <4>4, <4>5 DEF JobCovers
      <4> QED BY <3>a, <4>1, <4>6, <3>c
    <3>7. ASSUME NEW B \in SUBSET todo[j], FlushBatch(j, B) PROVE CoverInv'
      BY <3>a, <3>6, <3>7 DEF FlushBatch, TypeOK
    <3>8. CASE FlushRest(j)
      <4>1. Earliest(todo[j], todo[j])
        BY DEF Earliest
      <4> QED BY <3>a, <3>6, <3>8, <4>1 DEF FlushRest
    <3>9. CASE SaveProgress(j)
      <4>1. OthersUntouched(j)
        BY <3>a, <3>9 DEF SaveProgress, OthersUntouched, mailVars, jobLocals, TypeOK
      <4>2. /\ pc[j] = "save" /\ watermark'[d] = newest[j]
            /\ UNCHANGED <<rows, arrived, late, chat, snap, todo, newest>>
        BY <3>a, <3>9 DEF SaveProgress, mailVars, jobLocals, TypeOK
      <4>3. ChatCovers(d)'
        BY <3>a, <3>b, <4>2 DEF ChatCovers, JobCovers, IsInstantOf, IndexedBefore
      <4>4. (watermark[chat[j]] <= newest[j])'
        BY <3>a, <4>2 DEF TypeOK
      <4>5. JobCovers(j)'
        BY <3>a, <3>b, <4>2, <4>4 DEF JobCovers, IsInstantOf, IndexedBefore, Wanted
      <4> QED BY <3>a, <4>1, <4>3, <4>5, OnlyOwnChat
    <3>10. CASE Finish(j)
      <4>1. OthersUntouched(j)
        BY <3>a, <3>10 DEF Finish, Ends, OthersUntouched, mailVars, TypeOK
      <4>2. /\ pc[j] = "scan" /\ watermark'[d] = newest[j] /\ pc'[j] = "done"
            /\ UNCHANGED <<rows, arrived, late>>
        BY <3>a, <3>10 DEF Finish, Ends, mailVars, TypeOK
      <4>3. ChatCovers(d)'
        BY <3>a, <3>b, <4>2 DEF ChatCovers, JobCovers, IsInstantOf, IndexedBefore
      <4>4. JobCovers(j)'
        BY <3>a, <4>2 DEF JobCovers
      <4> QED BY <3>a, <4>1, <4>3, <4>4, OnlyOwnChat
    <3>11. CASE SnapshotFails(j)
      BY <3>a, <3>11, <3>d DEF SnapshotFails, MarksError, Ends, OthersUntouched, mailVars, TypeOK
    <3>12. CASE JobFails(j)
      BY <3>a, <3>12, <3>d DEF JobFails, MarksError, Ends, OthersUntouched, mailVars, TypeOK
    <3>13. CASE JobFailsSilently(j)
      BY <3>a, <3>13, <3>d DEF JobFailsSilently, Ends, OthersUntouched, mailVars, metaVars, TypeOK
    <3> QED BY <3>a, <2>2, <3>1, <3>2, <3>3, <3>4, <3>5, <3>7, <3>8, <3>9, <3>10, <3>11, <3>12, <3>13
            DEF JobStep
  <2>3. ASSUME UNCHANGED <<arrived, late, rows, watermark, snap, todo, newest>>,
               \A i \in Jobs : \/ pc'[i] \in {"pending", "start", "done"}
                               \/ UNCHANGED <<chat[i], pc[i]>>
        PROVE  CoverInv'
    <3>1. \A c \in Chats : ChatCovers(c)'
      BY <2>3, UntouchedChatCovers DEF ChatCovers
    <3>2. ASSUME NEW i \in Jobs PROVE JobCovers(i)'
      <4>1. CASE pc'[i] \in {"pending", "start", "done"}
        BY <4>1 DEF JobCovers
      <4>2. CASE UNCHANGED <<chat[i], pc[i]>>
        BY <2>3, <4>2, UntouchedJobCovers
      <4> QED BY <2>3, <4>1, <4>2
    <3> QED BY <3>1, <3>2 DEF CoverInv, ChatCovers, JobCovers
  <2>4. ASSUME NEW c \in Chats, NEW j \in Jobs, Launches(c, j)
        PROVE  \A i \in Jobs : \/ pc'[i] \in {"pending", "start", "done"}
                               \/ UNCHANGED <<chat[i], pc[i]>>
    BY <2>4 DEF Launches, TypeOK
  <2>5. ASSUME NEW k \in Callers, NEW c \in Chats, Call(k, c) PROVE CoverInv'
    BY <2>3, <2>4, <2>5 DEF Call, mailVars, metaVars, jobLocals
  <2>6. ASSUME NEW c \in Chats, WarmSubmit(c) PROVE CoverInv'
    BY <2>3, <2>4, <2>6 DEF WarmSubmit, mailVars, metaVars, jobLocals
  <2>7. CASE Dispatch
    <3>1. Head(queue) \in Jobs
      BY <2>7, HeadTailProperties DEF Dispatch, TypeOK
    <3> QED BY <2>3, <2>7, <3>1 DEF Dispatch, mailVars, metaVars, jobLocals, TypeOK
  <2>8. CASE Shutdown
    BY <2>3, <2>8 DEF Shutdown, mailVars, metaVars, jobLocals, TypeOK
  <2>9. CASE Exit \/ Crash
    <3>1. Dies
      BY <2>9 DEF Exit, Crash
    <3>2. \A c \in Chats : ChatCovers(c)'
      BY <3>1, UntouchedChatCovers DEF Dies, mailVars, metaVars, ChatCovers
    <3>3. \A i \in Jobs : JobCovers(i)'
      BY <3>1 DEF Dies, JobCovers
    <3> QED BY <3>2, <3>3 DEF CoverInv, ChatCovers, JobCovers
  <2>10. ASSUME NEW k \in Callers, StopWaiting(k) \/ ReadStatus(k) PROVE CoverInv'
    BY <2>3, <2>10 DEF StopWaiting, ReadStatus, mailVars, metaVars, jobVars, jobLocals
  <2>11. CASE Start \/ Serve
    BY <2>3, <2>11 DEF Start, Serve, mailVars, metaVars, jobVars, jobLocals
  <2>12. CASE UNCHANGED vars
    BY <2>3, <2>12 DEF vars, mailVars, metaVars, jobVars, jobLocals
  <2> QED BY <2>1, <2>2, <2>5, <2>6, <2>7, <2>8, <2>9, <2>10, <2>11, <2>12 DEF Next
<1> QED BY <1>1, <1>2, TypeCorrect, JobInvariant, LateInvariant, SnapshotInvariant, PTL DEF Spec

\* Whatever fails, crashes or arrives between jobs, no message with text that is
\* before its chat's watermark is missing from the index, unless it arrived late:
\* the jobs that start at the watermark (indexer.py:111) lose nothing.
THEOREM CoverageTheorem == Spec => []Covered
<1>1. CoverInv => Covered
  BY DEF CoverInv, IndexedBefore, Covered
<1> QED BY <1>1, CoverInvariant, PTL

-----------------------------------------------------------------------------
(* Workers and progress                                                      *)

\* Steps other than Dispatch give no job a worker.
LEMMA OnlyDispatchOccupies ==
  ASSUME TypeOK, [Next]_vars, ~Dispatch
  PROVE  Occupying' \subseteq Occupying
<1> USE DEF Occupying
<1>1. ASSUME NEW j \in Jobs, JobStep(j) \/ SnapshotFails(j) \/ JobFails(j) \/ JobFailsSilently(j)
      PROVE  Occupying' \subseteq Occupying
  <2>1. JobMoves(j)
    BY <1>1, StatementsMoveOneJob
  <2>2. pc[j] # "pending"
    BY <1>1 DEF JobStep, SnapshotFails, JobFails, JobFailsSilently, TakeSnapshot, Begin, Open,
                Announce, Since, FlushBatch, SaveProgress, FlushRest, Finish, Running
  <2> QED BY <2>1, <2>2 DEF JobMoves, Active, Running
<1>2. ASSUME NEW c \in Chats, NEW j \in Jobs, Launches(c, j) PROVE Occupying' \subseteq Occupying
  BY <1>2 DEF Launches, TypeOK, Running
<1>3. CASE Shutdown \/ Exit \/ Crash
  BY <1>3 DEF Shutdown, Exit, Crash, Dies, Running
<1>4. CASE pc' = pc
  BY <1>4
<1>5. ASSUME NEW m \in Msgs, Arrive(m) PROVE pc' = pc
  BY <1>5 DEF Arrive, jobVars
<1>6. ASSUME NEW k \in Callers, StopWaiting(k) \/ ReadStatus(k) PROVE pc' = pc
  BY <1>6 DEF StopWaiting, ReadStatus, jobVars
<1>7. CASE Start \/ Serve \/ UNCHANGED vars
  BY <1>4, <1>7 DEF Start, Serve, vars, jobVars
<1>8. ASSUME NEW k \in Callers, NEW c \in Chats, Call(k, c) PROVE Occupying' \subseteq Occupying
  BY <1>2, <1>4, <1>8 DEF Call
<1>9. ASSUME NEW c \in Chats, WarmSubmit(c) PROVE Occupying' \subseteq Occupying
  BY <1>2, <1>9 DEF WarmSubmit
<1> QED BY <1>1, <1>3, <1>4, <1>5, <1>6, <1>7, <1>8, <1>9 DEF Next

\* One worker per chat at a time, up to Workers in total (indexer.py:3).
THEOREM OneJobTheorem == Spec => []OneJobPerChat
<1> DEFINE Bounded == Cardinality(Occupying) <= Workers
<1>1. ASSUME NEW S \in SUBSET Jobs PROVE IsFiniteSet(S) /\ Cardinality(S) \in Nat
  BY <1>1, ConstantsAssumption, FS_Subset, FS_CardinalityType DEF ConstantsAssumption
<1>2. Init => Bounded
  <2>1. Cardinality({}) = 0 /\ Workers \in Nat
    BY ConstantsAssumption, FS_EmptySet DEF ConstantsAssumption
  <2>2. Init => Occupying = {}
    BY DEF Init, Occupying, Running
  <2> QED BY <2>1, <2>2
<1>3. TypeOK /\ Bounded /\ [Next]_vars => Bounded'
  <2> SUFFICES ASSUME TypeOK, Bounded, [Next]_vars PROVE Bounded' OBVIOUS
  <2>1. Occupying \in SUBSET Jobs /\ Occupying' \in SUBSET Jobs
    BY DEF Occupying
  <2>2. IsFiniteSet(Occupying) /\ Cardinality(Occupying) \in Nat /\ Workers \in Nat
    BY <1>1, <2>1, ConstantsAssumption DEF ConstantsAssumption
  <2>3. CASE Dispatch
    <3>1. Head(queue) \in Jobs
      BY <2>3, HeadTailProperties DEF Dispatch, TypeOK
    <3>2. Occupying' = Occupying \cup {Head(queue)}
      BY <2>3, <3>1 DEF Dispatch, Occupying, TypeOK, Running
    <3>3. Cardinality(Occupying \cup {Head(queue)}) <= Cardinality(Occupying) + 1
      BY <2>2, FS_AddElement
    <3>4. Cardinality(Occupying) + 1 <= Workers
      BY <2>2, <2>3 DEF Dispatch
    <3>5. Cardinality(Occupying') \in Nat
      BY <1>1, <2>1
    <3> QED BY <2>2, <3>2, <3>3, <3>4, <3>5
  <2>4. CASE ~Dispatch
    <3>1. Occupying' \subseteq Occupying
      BY <2>4, OnlyDispatchOccupies
    <3>2. Cardinality(Occupying') <= Cardinality(Occupying) /\ Cardinality(Occupying') \in Nat
      BY <1>1, <2>1, <2>2, <3>1, FS_Subset
    <3> QED BY <2>2, <3>2
  <2> QED BY <2>3, <2>4
<1>4. JobInv /\ Bounded => OneJobPerChat
  <2>1. JobInv => \A i, j \in Jobs : Active(i) /\ Active(j) /\ chat[i] = chat[j] => i = j
    BY DEF JobInv
  <2> QED BY <2>1 DEF OneJobPerChat
<1> QED BY <1>2, <1>3, <1>4, TypeCorrect, JobInvariant, PTL DEF Spec

\* No step takes a row out of the index or moves a watermark back, so that what a
\* failed, cancelled or killed job achieved is never done again from an earlier
\* point (indexer.py:111-152, index.py:85-124).
THEOREM ProgressTheorem == Spec => ProgressIsKept
<1> DEFINE Kept == rows \subseteq rows' /\ \A c \in Chats : watermark[c] <= watermark'[c]
<1>1. TypeOK /\ CoverInv /\ [Next]_vars => Kept
  <2> SUFFICES ASSUME TypeOK, CoverInv, [Next]_vars PROVE Kept OBVIOUS
  <2>1. ASSUME rows' = rows, watermark' = watermark PROVE Kept
    BY <2>1 DEF TypeOK
  <2>2. ASSUME NEW j \in Jobs, pc[j] \in {"scan", "save"}, rows' = rows,
               watermark' = [watermark EXCEPT ![chat[j]] = newest[j]]
        PROVE  Kept
    BY <2>2 DEF TypeOK, CoverInv
  <2>3. ASSUME NEW j \in Jobs, JobStep(j) PROVE Kept
    <3>1. ASSUME NEW S \in SUBSET Msgs, TakeSnapshot(j, S) PROVE Kept
      BY <2>1, <3>1 DEF TakeSnapshot, metaVars
    <3>2. CASE Begin(j) \/ Open(j) \/ Announce(j) \/ Since(j)
      BY <2>1, <3>2 DEF Begin, Open, Announce, Since, metaVars
    <3>3. ASSUME NEW B \in SUBSET todo[j], Flush(j, B) PROVE Kept
      BY <3>3 DEF Flush, metaVars, TypeOK
    <3>4. ASSUME NEW B \in SUBSET todo[j], FlushBatch(j, B) PROVE Kept
      BY <3>3, <3>4 DEF FlushBatch
    <3>5. CASE FlushRest(j)
      BY <3>3, <3>5 DEF FlushRest
    <3>6. CASE SaveProgress(j)
      BY <2>2, <3>6 DEF SaveProgress
    <3>7. CASE Finish(j)
      BY <2>2, <3>7 DEF Finish
    <3> QED BY <2>3, <3>1, <3>2, <3>4, <3>5, <3>6, <3>7 DEF JobStep
  <2>4. ASSUME NEW j \in Jobs, SnapshotFails(j) \/ JobFails(j) \/ JobFailsSilently(j) PROVE Kept
    BY <2>1, <2>4 DEF SnapshotFails, JobFails, JobFailsSilently, MarksError, metaVars
  <2>5. ASSUME NEW k \in Callers, NEW c \in Chats, Call(k, c) PROVE Kept
    BY <2>1, <2>5 DEF Call, metaVars
  <2>6. ASSUME NEW k \in Callers, StopWaiting(k) \/ ReadStatus(k) PROVE Kept
    BY <2>1, <2>6 DEF StopWaiting, ReadStatus, metaVars
  <2>7. ASSUME NEW c \in Chats, WarmSubmit(c) PROVE Kept
    BY <2>1, <2>7 DEF WarmSubmit, metaVars
  <2>8. CASE Start \/ Serve
    BY <2>1, <2>8 DEF Start, Serve, metaVars
  <2>9. CASE Dispatch \/ Shutdown \/ Exit \/ Crash
    BY <2>1, <2>9 DEF Dispatch, Shutdown, Exit, Crash, Dies, metaVars
  <2>10. ASSUME NEW m \in Msgs, Arrive(m) PROVE Kept
    BY <2>1, <2>10 DEF Arrive, metaVars
  <2>11. CASE UNCHANGED vars
    BY <2>1, <2>11 DEF vars, metaVars
  <2> QED BY <2>3, <2>4, <2>5, <2>6, <2>7, <2>8, <2>9, <2>10, <2>11 DEF Next
<1> QED BY <1>1, TypeCorrect, CoverInvariant, PTL DEF Spec, ProgressIsKept

-----------------------------------------------------------------------------
(* The promise to the client                                                 *)

\* The stages from Open to Finish in which todo and count are set.
Streaming == {"announce", "since", "scan", "save"}

\* The cached snapshot is at least as recent as any that a job works on or a chat
\* was last indexed from, and a job begins on one that is not older than that.
BaseInv ==
  /\ \A c \in Chats : base[c] \subseteq arrived /\ \A S \in cached : base[c] \subseteq S
  /\ \A j \in Jobs : /\ \A S \in cached : snap[j] \subseteq S
                     /\ pc[j] = "begin" => base[chat[j]] \subseteq snap[j]

\* While a job works, its chat is marked as being indexed from the job's snapshot,
\* and the job holds nothing that is a row already.
WorkOf(j) ==
  /\ pc[j] \in Streaming \cup {"open"} => state[chat[j]] = "indexing" /\ base[chat[j]] = snap[j]
  /\ pc[j] \in Streaming => todo[j] \cap rows = {}

WorkInv == \A j \in Jobs : WorkOf(j)

\* A job's count is the number of its chat's rows, from Open on.
CountOf(j) == pc[j] \in Streaming => count[j] = Cardinality(AlreadyIndexed(chat[j]))

ReadyOf(c) ==
  state[c] = "ready" =>
    indexed[c] = Cardinality(AlreadyIndexed(c)) /\ indexed[c] <= total[c]

CountInv == (\A j \in Jobs : CountOf(j)) /\ (\A c \in Chats : ReadyOf(c))

\* What a statement of job j leaves alone: the other jobs, the other chats, chat.db.
Local(j) ==
  /\ UNCHANGED mailVars
  /\ \A i \in Jobs \ {j} : UNCHANGED <<pc[i], chat[i], snap[i], todo[i], count[i]>>
  /\ \A c \in Chats \ {chat[j]} : UNCHANGED <<base[c], state[c], indexed[c], total[c]>>
  /\ rows \subseteq rows' /\ \A m \in rows' \ rows : ChatOf[m] = chat[j]

\* No statement of a job, and no failure of one, does more than that.
LEMMA StatementsAreLocal ==
  ASSUME TypeOK, SnapInv, NEW j \in Jobs,
         JobStep(j) \/ SnapshotFails(j) \/ JobFails(j) \/ JobFailsSilently(j)
  PROVE  Local(j)
<1> USE DEF TypeOK, Local, mailVars
<1>1. ASSUME NEW S \in SUBSET Msgs, TakeSnapshot(j, S) PROVE Local(j)
  BY <1>1 DEF TakeSnapshot, metaVars
<1>2. CASE Begin(j)
  BY <1>2 DEF Begin, jobLocals
<1>3. CASE Open(j)
  BY <1>3 DEF Open, metaVars
<1>4. CASE Announce(j)
  BY <1>4 DEF Announce, jobLocals
<1>5. CASE Since(j)
  BY <1>5 DEF Since, metaVars
<1>6. ASSUME NEW B \in SUBSET todo[j], Flush(j, B), \A i \in Jobs \ {j} : pc'[i] = pc[i]
      PROVE  Local(j)
  <2>1. \A m \in B : ChatOf[m] = chat[j]
    BY DEF SnapInv, Wanted
  <2> QED BY <1>6, <2>1 DEF Flush, metaVars
<1>7. ASSUME NEW B \in SUBSET todo[j], FlushBatch(j, B) PROVE Local(j)
  BY <1>6, <1>7 DEF FlushBatch
<1>8. CASE FlushRest(j)
  BY <1>6, <1>8 DEF FlushRest
<1>9. CASE SaveProgress(j)
  BY <1>9 DEF SaveProgress, jobLocals
<1>10. CASE Finish(j)
  BY <1>10 DEF Finish, Ends
<1>11. CASE SnapshotFails(j) \/ JobFails(j)
  BY <1>11 DEF SnapshotFails, JobFails, MarksError, Ends
<1>12. CASE JobFailsSilently(j)
  BY <1>12 DEF JobFailsSilently, Ends, metaVars
<1> QED BY <1>1, <1>2, <1>3, <1>4, <1>5, <1>7, <1>8, <1>9, <1>10, <1>11, <1>12 DEF JobStep

\* No other unfinished job is for the same chat, so none notices.
LEMMA OtherJobsDoNotNotice ==
  ASSUME TypeOK, JobInv, SnapInv, NEW j \in Jobs, Active(j), Local(j),
         NEW i \in Jobs \ {j}, Active(i)
  PROVE  /\ UNCHANGED <<pc[i], chat[i], snap[i], todo[i], count[i], base[chat[i]], state[chat[i]]>>
         /\ \A m \in rows' \ rows : ChatOf[m] # chat[i]
<1>1. chat[i] # chat[j] /\ chat[i] \in Chats
  BY DEF JobInv, TypeOK
<1> QED BY <1>1 DEF Local

\* A statement of job j keeps WorkInv if it does for j ...
LEMMA OwnWorkSuffices ==
  ASSUME TypeOK, JobInv, SnapInv, WorkInv, NEW j \in Jobs, Active(j), Local(j), WorkOf(j)'
  PROVE  WorkInv'
<1>1. ASSUME NEW i \in Jobs \ {j} PROVE WorkOf(i)'
  <2>1. CASE pc[i] \notin Streaming \cup {"open"}
    BY <2>1 DEF Local, WorkOf
  <2>2. CASE pc[i] \in Streaming \cup {"open"}
    <3>1. /\ UNCHANGED <<pc[i], chat[i], snap[i], todo[i], base[chat[i]], state[chat[i]]>>
          /\ \A m \in rows' \ rows : ChatOf[m] # chat[i]
      BY <2>2, OtherJobsDoNotNotice DEF Active, Running, Streaming
    <3>2. \A m \in todo[i] : ChatOf[m] = chat[i]
      BY DEF SnapInv, Wanted
    <3>3. (pc[i] \in Streaming \cup {"open"} =>
             state[chat[i]] = "indexing" /\ base[chat[i]] = snap[i])'
      BY <3>1 DEF WorkInv, WorkOf
    <3>4. (pc[i] \in Streaming => todo[i] \cap rows = {})'
      BY <3>1, <3>2 DEF WorkInv, WorkOf
    <3> QED BY <3>3, <3>4 DEF WorkOf
  <2> QED BY <2>1, <2>2
<1> QED BY <1>1 DEF WorkInv

\* ... and CountInv if it does for j and its chat.
LEMMA OwnCountSuffices ==
  ASSUME TypeOK, JobInv, SnapInv, CountInv, NEW j \in Jobs, Active(j), Local(j), CountOf(j)',
         NEW d \in Chats, d = chat[j], ReadyOf(d)'
  PROVE  CountInv'
<1>1. ASSUME NEW c \in Chats, c # d PROVE AlreadyIndexed(c)' = AlreadyIndexed(c)
  BY <1>1 DEF AlreadyIndexed, Local
<1>2. ASSUME NEW i \in Jobs \ {j} PROVE CountOf(i)'
  <2>1. CASE pc[i] \notin Streaming
    BY <2>1 DEF Local, CountOf
  <2>2. CASE pc[i] \in Streaming
    <3>1. PICK c \in Chats : c = chat[i]
      BY DEF TypeOK
    <3>2. UNCHANGED <<pc[i], chat[i], count[i]>> /\ c # d
      BY <2>2, <3>1 DEF Local, JobInv, Active, Running, Streaming
    <3>3. AlreadyIndexed(c)' = AlreadyIndexed(c) /\ count[i] = Cardinality(AlreadyIndexed(c))
      BY <1>1, <2>2, <3>1, <3>2 DEF CountInv, CountOf
    <3>4. AlreadyIndexed(chat[i])' = AlreadyIndexed(c)'
      BY <3>1, <3>2 DEF AlreadyIndexed
    <3> QED BY <3>2, <3>3, <3>4 DEF CountOf
  <2> QED BY <2>1, <2>2
<1>3. ASSUME NEW c \in Chats, c # d PROVE ReadyOf(c)'
  BY <1>1, <1>3 DEF CountInv, ReadyOf, Local
<1> QED BY <1>2, <1>3 DEF CountInv

\* Snapshots only get more recent: a chat is never indexed again from an older one
\* than before, whatever its last job was told and however stale the cache is.
THEOREM BaseInvariant == Spec => []BaseInv
<1>1. Init => BaseInv
  BY DEF Init, BaseInv
<1>2. TypeOK /\ JobInv /\ SnapInv /\ BaseInv /\ [Next]_vars => BaseInv'
  <2> SUFFICES ASSUME TypeOK, JobInv, SnapInv, BaseInv, [Next]_vars PROVE BaseInv' OBVIOUS
  <2>1. ASSUME arrived \subseteq arrived', cached' \subseteq cached \cup {arrived},
               UNCHANGED base, \A i \in Jobs : snap'[i] \in {snap[i], {}},
               \A i \in Jobs : pc'[i] = "begin" => UNCHANGED <<pc[i], chat[i], snap[i]>>
        PROVE  BaseInv'
    <3>1. ASSUME NEW S \in cached', NEW X, X \subseteq arrived, \A T \in cached : X \subseteq T
          PROVE  X \subseteq S
      BY <2>1, <3>1
    <3>2. \A c \in Chats : base'[c] \subseteq arrived' /\ \A S \in cached' : base'[c] \subseteq S
      BY <2>1, <3>1 DEF BaseInv
    <3>3. \A i \in Jobs : \A S \in cached' : snap'[i] \subseteq S
      BY <2>1, <3>1 DEF BaseInv, SnapInv
    <3>4. \A i \in Jobs : pc'[i] = "begin" => base'[chat'[i]] \subseteq snap'[i]
      BY <2>1 DEF BaseInv
    <3> QED BY <3>2, <3>3, <3>4 DEF BaseInv
  <2>2. ASSUME NEW j \in Jobs, NEW S \in SUBSET Msgs, TakeSnapshot(j, S) PROVE BaseInv'
    <3>1. /\ S \in cached \cup {arrived} /\ cached' = {S}
          /\ snap' = [snap EXCEPT ![j] = S] /\ UNCHANGED <<arrived, base, chat>>
          /\ \A i \in Jobs \ {j} : pc'[i] = pc[i]
      BY <2>2 DEF TakeSnapshot, SnapshotOf, mailVars, TypeOK
    <3>2. \A c \in Chats : base[c] \subseteq S
      BY <3>1 DEF BaseInv
    <3>3. \A i \in Jobs : snap[i] \subseteq S
      BY <3>1 DEF BaseInv, SnapInv
    <3>4. \A i \in Jobs : snap'[i] \subseteq S /\ chat[i] \in Chats
      BY <3>1, <3>3 DEF TypeOK
    <3>5. \A i \in Jobs : pc'[i] = "begin" => base'[chat'[i]] \subseteq snap'[i]
      BY <3>1, <3>2, <3>4 DEF BaseInv, TypeOK
    <3> QED BY <3>1, <3>2, <3>4, <3>5 DEF BaseInv
  <2>3. ASSUME NEW j \in Jobs, Begin(j) PROVE BaseInv'
    <3>1. /\ pc[j] = "begin" /\ pc' = [pc EXCEPT ![j] = "open"]
          /\ base' = [base EXCEPT ![chat[j]] = snap[j]]
          /\ UNCHANGED <<arrived, cached, chat, snap>>
      BY <2>3 DEF Begin, mailVars, jobLocals
    <3>2. snap[j] \subseteq arrived /\ \A S \in cached : snap[j] \subseteq S
      BY DEF BaseInv, SnapInv
    <3>3. \A i \in Jobs : pc'[i] = "begin" => chat[i] # chat[j]
      BY <3>1 DEF TypeOK, JobInv, Active, Running
    <3>4. \A c \in Chats : base'[c] \in {base[c], snap[j]} /\ (c # chat[j] => base'[c] = base[c])
      BY <3>1 DEF TypeOK
    <3>5. \A i \in Jobs : pc'[i] = "begin" => base'[chat'[i]] \subseteq snap'[i]
      BY <3>1, <3>3, <3>4 DEF BaseInv, TypeOK
    <3>6. \A c \in Chats : base'[c] \subseteq arrived' /\ \A S \in cached' : base'[c] \subseteq S
      BY <3>1, <3>2, <3>4 DEF BaseInv
    <3> QED BY <3>1, <3>5, <3>6 DEF BaseInv
  <2>4. ASSUME NEW j \in Jobs,
               \/ Open(j) \/ Announce(j) \/ Since(j) \/ SaveProgress(j) \/ FlushRest(j) \/ Finish(j)
               \/ (\E B \in SUBSET todo[j] : FlushBatch(j, B))
               \/ SnapshotFails(j) \/ JobFails(j) \/ JobFailsSilently(j)
        PROVE  BaseInv'
    <3>1. UNCHANGED <<arrived, cached, base>>
      BY <2>4 DEF Open, Announce, Since, SaveProgress, FlushRest, Finish, FlushBatch, Flush,
                  SnapshotFails, JobFails, JobFailsSilently, mailVars
    <3>2. pc'[j] # "begin" /\ snap'[j] \in {snap[j], {}}
      BY <2>4 DEF Open, Announce, Since, SaveProgress, FlushRest, Finish, FlushBatch, Flush,
                  SnapshotFails, JobFails, JobFailsSilently, Ends, jobLocals, TypeOK
    <3>3. Local(j)
      BY <2>4, StatementsAreLocal DEF JobStep
    <3> QED BY <2>1, <3>1, <3>2, <3>3 DEF Local
  <2>5. ASSUME NEW c \in Chats, NEW j \in Jobs, Launches(c, j)
        PROVE  \A i \in Jobs : pc'[i] = "begin" => UNCHANGED <<pc[i], chat[i]>>
    BY <2>5 DEF Launches, TypeOK
  <2>6. ASSUME NEW k \in Callers, NEW c \in Chats, Call(k, c) PROVE BaseInv'
    BY <2>1, <2>5, <2>6 DEF Call, mailVars, jobLocals
  <2>7. ASSUME NEW c \in Chats, WarmSubmit(c) PROVE BaseInv'
    BY <2>1, <2>5, <2>7 DEF WarmSubmit, mailVars, jobLocals
  <2>8. CASE Dispatch
    <3>1. Head(queue) \in Jobs
      BY <2>8, HeadTailProperties DEF Dispatch, TypeOK
    <3> QED BY <2>1, <2>8, <3>1 DEF Dispatch, mailVars, jobLocals, TypeOK
  <2>9. CASE Shutdown
    BY <2>1, <2>9 DEF Shutdown, mailVars, jobLocals, TypeOK
  <2>10. CASE Exit \/ Crash
    BY <2>1, <2>10 DEF Exit, Crash, Dies, mailVars
  <2>11. ASSUME NEW k \in Callers, StopWaiting(k) \/ ReadStatus(k) PROVE BaseInv'
    BY <2>1, <2>11 DEF StopWaiting, ReadStatus, mailVars, jobVars, jobLocals
  <2>12. ASSUME NEW m \in Msgs, Arrive(m) PROVE BaseInv'
    BY <2>1, <2>12 DEF Arrive, jobVars, jobLocals
  <2>13. CASE Start \/ Serve \/ UNCHANGED vars
    BY <2>1, <2>13 DEF Start, Serve, SnapshotOf, vars, mailVars, jobVars, jobLocals
  <2> QED BY <2>2, <2>3, <2>4, <2>6, <2>7, <2>8, <2>9, <2>10, <2>11, <2>12, <2>13 DEF Next, JobStep
<1> QED BY <1>1, <1>2, TypeCorrect, JobInvariant, SnapshotInvariant, PTL DEF Spec

\* Steps outside the jobs, which change neither tables nor a running job.
LEMMA OutsideTheJobs ==
  ASSUME TypeOK, [Next]_vars,
         ~\E j \in Jobs : JobStep(j) \/ SnapshotFails(j) \/ JobFails(j) \/ JobFailsSilently(j)
  PROVE  /\ UNCHANGED <<rows, metaVars, base>>
         /\ \A i \in Jobs : \/ pc'[i] \in {"pending", "start", "done"}
                            \/ UNCHANGED <<pc[i], chat[i], snap[i], todo[i], count[i]>>
<1>1. ASSUME NEW c \in Chats, NEW j \in Jobs, Launches(c, j)
      PROVE  \A i \in Jobs : pc'[i] = "pending" \/ UNCHANGED <<pc[i], chat[i]>>
  BY <1>1 DEF Launches, TypeOK
<1>2. CASE Dispatch
  <2>1. Head(queue) \in Jobs
    BY <1>2, HeadTailProperties DEF Dispatch, TypeOK
  <2> QED BY <1>2, <2>1 DEF Dispatch, jobLocals, TypeOK
<1>3. CASE \E m \in Msgs : Arrive(m)
  BY <1>3 DEF Arrive, jobVars, jobLocals
<1>4. ASSUME NEW k \in Callers, NEW c \in Chats, Call(k, c)
      PROVE  /\ UNCHANGED <<rows, metaVars, base, snap, todo, count>>
             /\ \A i \in Jobs : pc'[i] = "pending" \/ UNCHANGED <<pc[i], chat[i]>>
  BY <1>1, <1>4 DEF Call, jobLocals
<1>5. CASE \E k \in Callers : StopWaiting(k) \/ ReadStatus(k)
  BY <1>5 DEF StopWaiting, ReadStatus, jobVars, jobLocals
<1>6. ASSUME NEW c \in Chats, WarmSubmit(c)
      PROVE  /\ UNCHANGED <<rows, metaVars, base, snap, todo, count>>
             /\ \A i \in Jobs : pc'[i] = "pending" \/ UNCHANGED <<pc[i], chat[i]>>
  BY <1>1, <1>6 DEF WarmSubmit, jobLocals
<1>7. CASE Start \/ Serve \/ UNCHANGED vars
  BY <1>7 DEF Start, Serve, vars, jobVars, jobLocals
<1>8. CASE Shutdown
  BY <1>8 DEF Shutdown, jobLocals, TypeOK
<1>9. CASE Exit \/ Crash
  BY <1>9 DEF Exit, Crash, Dies
<1> QED BY <1>2, <1>3, <1>4, <1>5, <1>6, <1>7, <1>8, <1>9 DEF Next

\* Between Open and its end a job is of the chat that is being indexed from its
\* snapshot, and never holds a row of the index (indexer.py:97-124).
THEOREM WorkInvariant == Spec => []WorkInv
<1>1. Init => WorkInv
  BY DEF Init, WorkInv, WorkOf, Streaming
<1>2. TypeOK /\ JobInv /\ SnapInv /\ WorkInv /\ [Next]_vars => WorkInv'
  <2> SUFFICES ASSUME TypeOK, JobInv, SnapInv, WorkInv, [Next]_vars PROVE WorkInv' OBVIOUS
  <2>1. ASSUME NEW j \in Jobs, JobStep(j) \/ SnapshotFails(j) \/ JobFails(j) \/ JobFailsSilently(j)
        PROVE  WorkInv'
    <3>1. Local(j) /\ Active(j)
      BY <2>1, StatementsAreLocal, StatementsMoveOneJob DEF JobMoves
    <3>2. WorkOf(j)
      BY DEF WorkInv
    <3>3. WorkOf(j)'
      <4> USE DEF WorkOf, Streaming, TypeOK
      <4>1. ASSUME NEW S \in SUBSET Msgs, TakeSnapshot(j, S) PROVE WorkOf(j)'
        BY <4>1 DEF TakeSnapshot
      <4>2. CASE Begin(j)
        BY <4>2 DEF Begin, jobLocals
      <4>3. CASE Open(j)
        BY <3>2, <4>3 DEF Open, metaVars, Wanted, AlreadyIndexed
      <4>4. CASE Announce(j)
        BY <3>2, <4>4 DEF Announce, jobLocals
      <4>5. CASE Since(j)
        BY <3>2, <4>5 DEF Since, metaVars
      <4>6. ASSUME NEW B \in SUBSET todo[j], Flush(j, B), pc[j] = "scan" PROVE WorkOf(j)'
        BY <3>2, <4>6 DEF Flush, metaVars
      <4>7. CASE SaveProgress(j)
        BY <3>2, <4>7 DEF SaveProgress, jobLocals
      <4>8. CASE Finish(j) \/ SnapshotFails(j) \/ JobFails(j) \/ JobFailsSilently(j)
        BY <4>8 DEF Finish, SnapshotFails, JobFails, JobFailsSilently, Ends
      <4> QED BY <2>1, <4>1, <4>2, <4>3, <4>4, <4>5, <4>6, <4>7, <4>8
              DEF JobStep, FlushBatch, FlushRest
    <3> QED BY <3>1, <3>3, OwnWorkSuffices
  <2>2. CASE ~\E j \in Jobs : JobStep(j) \/ SnapshotFails(j) \/ JobFails(j) \/ JobFailsSilently(j)
    <3>1. /\ UNCHANGED <<rows, metaVars, base>>
          /\ \A i \in Jobs : \/ pc'[i] \in {"pending", "start", "done"}
                             \/ UNCHANGED <<pc[i], chat[i], snap[i], todo[i], count[i]>>
      BY <2>2, OutsideTheJobs
    <3> QED BY <3>1 DEF WorkInv, WorkOf, Streaming, metaVars
  <2> QED BY <2>1, <2>2
<1> QED BY <1>1, <1>2, TypeCorrect, JobInvariant, SnapshotInvariant, PTL DEF Spec

\* Disjoint finite sets add up.
LEMMA DisjointCardinality ==
  ASSUME NEW A, NEW B, IsFiniteSet(A), IsFiniteSet(B), A \cap B = {}
  PROVE  Cardinality(A \cup B) = Cardinality(A) + Cardinality(B)
<1>1. Cardinality(A \cup B) = Cardinality(A) + Cardinality(B) - Cardinality(A \cap B)
  BY FS_Union
<1>2. Cardinality(A \cap B) = 0
  BY FS_EmptySet
<1>3. Cardinality(A) \in Nat /\ Cardinality(B) \in Nat
  BY FS_CardinalityType
<1> QED BY <1>1, <1>2, <1>3

\* A first part of the stream is flushed: the count goes up by what is added.
LEMMA FlushCounts ==
  ASSUME TypeOK, SnapInv, WorkInv, CountInv, NEW j \in Jobs, NEW B \in SUBSET todo[j],
         pc[j] = "scan", Flush(j, B)
  PROVE  CountOf(j)'
<1>1. PICK c \in Chats : c = chat[j] /\ chat'[j] = c
  BY DEF Flush, TypeOK
<1>2. B \subseteq Msgs /\ B \cap AlreadyIndexed(c) = {} /\ AlreadyIndexed(c) \subseteq Msgs
  BY ConstantsAssumption
     DEF WorkInv, WorkOf, Streaming, AlreadyIndexed, TypeOK, ConstantsAssumption
<1>3. AlreadyIndexed(c)' = AlreadyIndexed(c) \cup B
  BY <1>1 DEF Flush, AlreadyIndexed, SnapInv, Wanted
<1>4. Cardinality(AlreadyIndexed(c) \cup B) = Cardinality(AlreadyIndexed(c)) + Cardinality(B)
  BY <1>2, BatchIsFinite, DisjointCardinality
<1>5. count'[j] = count[j] + Cardinality(B) /\ count[j] = Cardinality(AlreadyIndexed(c))
  BY <1>1 DEF Flush, CountInv, CountOf, Streaming, TypeOK
<1>6. AlreadyIndexed(chat[j])' = AlreadyIndexed(c)'
  BY <1>1 DEF AlreadyIndexed
<1> QED BY <1>3, <1>4, <1>5, <1>6 DEF CountOf

\* The count of a job is exact at every statement, and so is the status of a chat
\* that is ready (indexer.py:99-152).
THEOREM CountInvariant == Spec => []CountInv
<1>1. Init => CountInv
  BY DEF Init, CountInv, CountOf, ReadyOf, Streaming
<1>2. TypeOK /\ JobInv /\ SnapInv /\ WorkInv /\ CountInv /\ [Next]_vars => CountInv'
  <2> SUFFICES ASSUME TypeOK, JobInv, SnapInv, WorkInv, CountInv, [Next]_vars PROVE CountInv'
    OBVIOUS
  <2>1. ASSUME NEW j \in Jobs, JobStep(j) \/ SnapshotFails(j) \/ JobFails(j) \/ JobFailsSilently(j)
        PROVE  CountInv'
    <3>1. Local(j) /\ Active(j)
      BY <2>1, StatementsAreLocal, StatementsMoveOneJob DEF JobMoves
    <3>2. PICK d \in Chats : d = chat[j]
      BY DEF TypeOK
    <3>3. CountOf(j) /\ ReadyOf(d) /\ WorkOf(j)
      BY DEF CountInv, WorkInv
    <3>4. ASSUME UNCHANGED <<rows, indexed, total, state>> PROVE ReadyOf(d)'
      BY <3>3, <3>4 DEF ReadyOf, AlreadyIndexed
    <3>5. ASSUME pc[j] \in Streaming, pc'[j] \in Streaming,
                 UNCHANGED <<rows, chat[j], count[j]>>
          PROVE  CountOf(j)'
      BY <3>2, <3>3, <3>5 DEF CountOf, AlreadyIndexed
    <3>6. ASSUME pc'[j] \notin Streaming PROVE CountOf(j)'
      BY <3>6 DEF CountOf
    <3>7. ASSUME state'[d] # "ready" PROVE ReadyOf(d)'
      BY <3>7 DEF ReadyOf
    <3>8. CountOf(j)' /\ ReadyOf(d)'
      <4> USE DEF Streaming
      <4>1. ASSUME NEW S \in SUBSET Msgs, TakeSnapshot(j, S) PROVE CountOf(j)' /\ ReadyOf(d)'
        BY <3>4, <3>6, <4>1 DEF TakeSnapshot, metaVars, TypeOK
      <4>2. CASE Begin(j)
        BY <3>2, <3>6, <3>7, <4>2 DEF Begin, TypeOK
      <4>3. CASE Open(j)
        <5>1. count'[j] = Cardinality(AlreadyIndexed(d)) /\ UNCHANGED <<rows, chat>>
          BY <3>2, <4>3 DEF Open, TypeOK
        <5>2. AlreadyIndexed(chat[j])' = AlreadyIndexed(d)
          BY <3>2, <5>1 DEF AlreadyIndexed
        <5> QED BY <3>4, <4>3, <5>1, <5>2 DEF CountOf, Open, metaVars
      <4>4. CASE Announce(j)
        <5>1. CountOf(j)'
          BY <3>5, <4>4 DEF Announce, jobLocals, TypeOK
        <5>2. state'[d] = "indexing"
          BY <3>2, <3>3, <4>4 DEF Announce, WorkOf
        <5> QED BY <3>7, <5>1, <5>2
      <4>5. CASE Since(j)
        BY <3>4, <3>5, <4>5 DEF Since, metaVars, TypeOK
      <4>6. ASSUME NEW B \in SUBSET todo[j], Flush(j, B), pc[j] = "scan"
            PROVE  CountOf(j)' /\ ReadyOf(d)'
        <5>1. CountOf(j)'
          BY <4>6, FlushCounts
        <5>2. state'[d] = "indexing"
          BY <3>2, <3>3, <4>6 DEF Flush, WorkOf, metaVars
        <5> QED BY <3>7, <5>1, <5>2
      <4>7. CASE SaveProgress(j)
        <5>1. CountOf(j)'
          BY <3>5, <4>7 DEF SaveProgress, jobLocals, TypeOK
        <5>2. state'[d] = "indexing"
          BY <3>2, <3>3, <4>7 DEF SaveProgress, WorkOf
        <5> QED BY <3>7, <5>1, <5>2
      <4>8. CASE Finish(j)
        <5>1. /\ indexed'[d] = count[j] /\ count[j] = Cardinality(AlreadyIndexed(d))
              /\ total'[d] = IF size[j] > count[j] THEN size[j] ELSE count[j]
              /\ rows' = rows
          BY <3>2, <3>3, <4>8 DEF Finish, CountOf, TypeOK
        <5>2. count[j] \in Nat /\ size[j] \in Nat
          BY DEF TypeOK
        <5>3. AlreadyIndexed(d)' = AlreadyIndexed(d)
          BY <5>1 DEF AlreadyIndexed
        <5>4. ReadyOf(d)'
          BY <5>1, <5>2, <5>3 DEF ReadyOf
        <5>5. pc'[j] = "done"
          BY <4>8 DEF Finish, Ends, TypeOK
        <5> QED BY <3>6, <5>4, <5>5
      <4>9. CASE SnapshotFails(j) \/ JobFails(j)
        BY <3>2, <3>6, <3>7, <4>9 DEF SnapshotFails, JobFails, MarksError, Ends, TypeOK
      <4>10. CASE JobFailsSilently(j)
        BY <3>4, <3>6, <4>10 DEF JobFailsSilently, Ends, metaVars, TypeOK
      <4> QED BY <2>1, <4>1, <4>2, <4>3, <4>4, <4>5, <4>6, <4>7, <4>8, <4>9, <4>10
              DEF JobStep, FlushBatch, FlushRest
    <3> QED BY <3>1, <3>2, <3>8, OwnCountSuffices
  <2>2. CASE ~\E j \in Jobs : JobStep(j) \/ SnapshotFails(j) \/ JobFails(j) \/ JobFailsSilently(j)
    <3>1. /\ UNCHANGED <<rows, metaVars, base>>
          /\ \A i \in Jobs : \/ pc'[i] \in {"pending", "start", "done"}
                             \/ UNCHANGED <<pc[i], chat[i], snap[i], todo[i], count[i]>>
      BY <2>2, OutsideTheJobs
    <3> QED BY <3>1 DEF CountInv, CountOf, ReadyOf, AlreadyIndexed, Streaming, metaVars
  <2> QED BY <2>1, <2>2
<1> QED BY <1>1, <1>2, TypeCorrect, JobInvariant, SnapshotInvariant, WorkInvariant, PTL DEF Spec

\* tools.py:268-284.  A chat that is ready reports as many indexed messages as it
\* has rows, and not more than its total, whatever failed or crashed before.
THEOREM ReadyTheorem == Spec => []ReadyCountsRows
<1>1. CountInv => ReadyCountsRows
  BY DEF CountInv, ReadyOf, ReadyCountsRows, AlreadyIndexed
<1> QED BY <1>1, CountInvariant, PTL
-----------------------------------------------------------------------------
(* The refinement of ChatIndex                                               *)

\* A message that arrives is late only when another one passes it.
LEMMA ArriveRefines ==
  ASSUME TypeOK, NEW m \in Msgs, Arrive(m)
  PROVE  Promise!Arrive(m)
<1>1. /\ m \in Msgs \ arrived /\ arrived' = arrived \cup {m}
      /\ late' = IF Overtaken(m) THEN late \cup {m} ELSE late
      /\ UNCHANGED <<rows, state, base>>
  BY DEF Arrive, metaVars
<1>2. ASSUME m \in late'
      PROVE  \E k \in Msgs : Promise!Passes(k, m) /\ (k \in arrived \/ Date[k] <= Date[m])
  <2>1. Overtaken(m)
    BY <1>1, <1>2 DEF TypeOK
  <2>2. CASE Shadowed(m)
    BY <2>2, ConstantsAssumption DEF Shadowed, Promise!Passes, ConstantsAssumption
  <2>3. CASE \E k \in arrived : ChatOf[k] = ChatOf[m] /\ Date[m] < SentAt[k]
    BY <1>1, <2>3 DEF Promise!Passes, TypeOK
  <2> QED BY <2>1, <2>2, <2>3 DEF Overtaken
<1> QED BY <1>1, <1>2 DEF Promise!Arrive

\* Each statement of a job is one step of its chat's index, or none.
LEMMA StatementRefines ==
  ASSUME TypeOK, SnapInv, CoverInv, BaseInv, WorkInv, NEW j \in Jobs,
         JobStep(j) \/ SnapshotFails(j) \/ JobFails(j) \/ JobFailsSilently(j)
  PROVE  Promise!Next \/ UNCHANGED <<arrived, late, rows, state, base>>
<1>1. PICK c \in Chats : c = chat[j]
  BY DEF TypeOK
<1>2. /\ snap[j] \subseteq arrived /\ todo[j] \subseteq snap[j] \cap Text
      /\ \A m \in todo[j] : ChatOf[m] = c
  BY <1>1 DEF SnapInv, Wanted
<1>3. ASSUME NEW S \in SUBSET Msgs, TakeSnapshot(j, S) PROVE UNCHANGED <<arrived, late, rows, state, base>>
  BY <1>3 DEF TakeSnapshot, mailVars, metaVars
<1>4. CASE Begin(j)
  <2>1. base[c] \subseteq snap[j]
    BY <1>1, <1>4 DEF Begin, BaseInv
  <2>2. Promise!Begin(c, snap[j])
    BY <1>1, <1>2, <1>4, <2>1 DEF Begin, Promise!Begin, mailVars
  <2> QED BY <1>2, <2>2 DEF Promise!Next
<1>5. CASE Open(j) \/ Announce(j) \/ Since(j) \/ SaveProgress(j) \/ JobFailsSilently(j)
  BY <1>5 DEF Open, Announce, Since, SaveProgress, JobFailsSilently, mailVars, metaVars
<1>6. ASSUME NEW B \in SUBSET todo[j], pc[j] = "scan", Flush(j, B) PROVE Promise!Next
  <2>1. state[c] = "indexing" /\ base[c] = snap[j] /\ todo[j] \cap rows = {}
    BY <1>1, <1>6 DEF WorkInv, WorkOf, Streaming
  <2>2. Promise!Add(c, B)
    BY <1>2, <1>6, <2>1 DEF Flush, Promise!Add, mailVars, metaVars
  <2> QED BY <1>2, <1>6, <2>1, <2>2 DEF Promise!Next
<1>7. CASE Finish(j)
  <2>1. state[c] = "indexing" /\ base[c] = snap[j] /\ todo[j] = {}
    BY <1>1, <1>7 DEF WorkInv, WorkOf, Streaming, Finish, Drained
  <2>2. Wanted(c, snap[j]) \ late \subseteq rows
    BY <1>1, <1>7, <2>1 DEF CoverInv, Finish
  <2>3. \A m \in (base[c] \cap Text) \ late : ChatOf[m] = c => m \in rows
    BY <2>1, <2>2 DEF Wanted
  <2>4. Promise!Ready(c)
    BY <1>1, <1>7, <2>1, <2>3 DEF Finish, Promise!Ready, mailVars
  <2> QED BY <2>4 DEF Promise!Next
<1>8. CASE SnapshotFails(j) \/ JobFails(j)
  <2>1. Promise!Fail(c)
    BY <1>1, <1>8 DEF SnapshotFails, JobFails, MarksError, Promise!Fail, mailVars
  <2> QED BY <2>1 DEF Promise!Next
<1> QED BY <1>3, <1>4, <1>5, <1>6, <1>7, <1>8 DEF JobStep, FlushBatch, FlushRest

\* Whatever fails, crashes or is overtaken, the index keeps the promise ChatIndex
\* makes to a client that knows nothing of jobs: a chat declared ready holds every
\* message of the snapshot its indexing began with, or that message is late
\* (indexer.py:86-165, tools.py:256-284).
THEOREM PromiseTheorem == Spec => KeepsPromise
<1>1. Init => Promise!Init
  BY DEF Init, Promise!Init
<1>2. TypeOK /\ SnapInv /\ CoverInv /\ BaseInv /\ WorkInv /\ [Next]_vars
        => [Promise!Next]_(Promise!chatIndexVars)
  <2> SUFFICES ASSUME TypeOK, SnapInv, CoverInv, BaseInv, WorkInv, [Next]_vars
               PROVE  Promise!Next \/ UNCHANGED <<arrived, late, rows, state, base>>
    BY DEF Promise!chatIndexVars
  <2>1. ASSUME NEW m \in Msgs, Arrive(m) PROVE Promise!Next
    BY <2>1, ArriveRefines DEF Promise!Next
  <2>2. CASE \E j \in Jobs : JobStep(j) \/ SnapshotFails(j) \/ JobFails(j) \/ JobFailsSilently(j)
    BY <2>2, StatementRefines
  <2>3. ASSUME ~\E j \in Jobs : JobStep(j) \/ SnapshotFails(j) \/ JobFails(j) \/ JobFailsSilently(j),
               ~\E m \in Msgs : Arrive(m)
        PROVE  UNCHANGED <<arrived, late, rows, state, base>>
    <3>1. UNCHANGED <<rows, metaVars, base>>
      BY <2>3, OutsideTheJobs
    <3>2. UNCHANGED mailVars
      BY <2>3 DEF Next, Dispatch, Call, StopWaiting, ReadStatus, Start, WarmSubmit, Serve, Shutdown,
                  Exit, Crash, Dies, vars
    <3> QED BY <3>1, <3>2 DEF mailVars, metaVars
  <2> QED BY <2>1, <2>2, <2>3
<1> QED BY <1>1, <1>2, TypeCorrect, SnapshotInvariant, CoverInvariant, BaseInvariant, WorkInvariant,
           PTL DEF Spec, KeepsPromise, Promise!Spec
=============================================================================
