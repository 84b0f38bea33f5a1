----------------------------- MODULE Publisher -----------------------------
(***************************************************************************)
(* The publisher (messages/imsg_mcp/push.py): launchd starts a run every   *)
(* ten minutes while the Mac is awake.  A run copies chat.db, and for each *)
(* chat asks Postgres for the newest sentAt it has and upserts the         *)
(* messages from there on, a batch and a commit at a time.  Nothing but    *)
(* the rows of MessageVector is kept between runs: they are the watermark. *)
(***************************************************************************)
EXTENDS Naturals, FiniteSets

CONSTANTS
  Msgs, Chats, NoChat,
  ChatOf, Date,
  SentAt,       \* sentAt of the row of a message, back in nanoseconds
  Text,         \* the messages with text once it is stripped
  Real,         \* the messages chat_summaries counts
  MinMessages,  \* --min-messages
  Limit,        \* --limit; 0 is none
  Batch,        \* BATCH
  Broken,       \* messages that cannot be embedded or stored
  MaxFaults     \* bound: failures in a behaviour

PublisherAssumption ==
  /\ IsFiniteSet(Msgs) /\ NoChat \notin Chats
  /\ ChatOf \in [Msgs -> Chats]
  /\ Date \in [Msgs -> Nat \ {0}] /\ SentAt \in [Msgs -> Nat \ {0}]
  /\ Text \subseteq Msgs /\ Real \subseteq Msgs /\ Broken \subseteq Text
  /\ MinMessages \in Nat /\ Limit \in Nat /\ Batch \in Nat \ {0} /\ MaxFaults \in Nat
  /\ \A m, n \in Msgs : Date[m] = Date[n] => SentAt[m] = SentAt[n]

ASSUME PublisherAssumption

VARIABLES
  arrived,   \* messages in chat.db
  late,      \* history: messages that MAX(sentAt) may pass, Overtaken when they arrived
  cloud,     \* the committed rows of MessageVector
  pc, snap, targets, chat, todo,   \* the run and its locals
  pushed,    \* history: chats this run went through without an exception
  faults

mailVars == <<arrived, late>>
runVars == <<pc, snap, targets, chat, todo, pushed>>
vars == <<mailVars, cloud, runVars, faults>>

TypeOK ==
  /\ arrived \subseteq Msgs /\ late \subseteq arrived
  /\ cloud \subseteq Text \cap arrived
  /\ pc \in {"idle", "next", "since", "scan"}
  /\ snap \subseteq arrived /\ targets \subseteq Chats
  /\ chat \in Chats \cup {NoChat} /\ (pc \in {"since", "scan"} => chat \in Chats)
  /\ todo \subseteq Text
  /\ pushed \subseteq Chats
  /\ faults \in 0..MaxFaults

Init ==
  /\ arrived = {} /\ late = {} /\ cloud = {}
  /\ pc = "idle" /\ snap = {} /\ targets = {} /\ chat = NoChat /\ todo = {}
  /\ pushed = {}
  /\ faults = 0

Fault == faults < MaxFaults /\ faults' = faults + 1

-----------------------------------------------------------------------------
\* sentAt is in microseconds and may be rounded up past the next message
Shadowed(m) ==
  \E k \in Text \ {m} : ChatOf[k] = ChatOf[m] /\ Date[k] <= Date[m] /\ Date[m] < SentAt[k]

Overtaken(m) == Shadowed(m) \/ \E k \in arrived : ChatOf[k] = ChatOf[m] /\ Date[m] < SentAt[k]

\* a message reaches chat.db, perhaps after messages that were sent later
Arrive(m) ==
  /\ m \in Msgs \ arrived
  /\ arrived' = arrived \cup {m}
  /\ late' = IF Overtaken(m) THEN late \cup {m} ELSE late
  /\ UNCHANGED <<cloud, runVars, faults>>

RealIn(c, S) == {m \in S \cap Real : ChatOf[m] = c}
Eligible(S) == {c \in Chats : RealIn(c, S) # {} /\ Cardinality(RealIn(c, S)) >= MinMessages}

\* c was active no earlier than d
Fresher(c, d, S) ==
  \E m \in RealIn(c, S) : \A n \in RealIn(d, S) : Date[n] <= Date[m]

\* eligible[:limit], or all of them
Targets(T, S) ==
  /\ T \subseteq Eligible(S)
  /\ T = Eligible(S) \/ (Limit > 0 /\ Cardinality(T) = Limit)
  /\ Limit > 0 => Cardinality(T) <= Limit
  /\ \A c \in T, d \in Eligible(S) \ T : Fresher(c, d, S)

StartRun ==
  /\ pc = "idle"
  /\ snap' = arrived /\ pushed' = {}
  /\ \E T \in SUBSET Chats : Targets(T, arrived) /\ targets' = T
  /\ pc' = "next"
  /\ UNCHANGED <<mailVars, cloud, chat, todo, faults>>

\* chats are pushed in the order of their last activity
NextChat(c) ==
  /\ pc = "next" /\ c \in targets
  /\ \A d \in targets : Fresher(c, d, snap)
  /\ targets' = targets \ {c} /\ chat' = c
  /\ pc' = "since"
  /\ UNCHANGED <<mailVars, cloud, snap, todo, pushed, faults>>

Rows(c) == {m \in cloud : ChatOf[m] = c}
Wanted_Textless(c, S) == {m \in S : ChatOf[m] = c}
Wanted(c, S) == {m \in S \cap Text : ChatOf[m] = c}

\* the stream starts at MAX(sentAt), the message at it included
Streams_After(m, c) == \A k \in Rows(c) : Date[m] > SentAt[k]
Streams(m, c) == \A k \in Rows(c) : Date[m] >= SentAt[k]

ReadSince ==
  /\ pc = "since"
  /\ todo' = {m \in Wanted(chat, snap) : Streams(m, chat)}
  /\ pc' = "scan"
  /\ UNCHANGED <<mailVars, cloud, snap, targets, chat, pushed, faults>>

\* B is a first part of the stream, which is in the order of the dates
Earliest_Unordered(B, S) == B \subseteq S
Earliest(B, S) == \A m \in B, n \in S \ B : Date[m] <= Date[n]

\* a full batch, or the smaller last one
NextBatch(B) ==
  /\ pc = "scan" /\ B # {} /\ Earliest(B, todo)
  /\ Cardinality(B) = Batch \/ (B = todo /\ Cardinality(B) < Batch)

\* the batch is embedded, upserted and committed
Flush(B) ==
  /\ NextBatch(B) /\ B \cap Broken = {}
  /\ cloud' = cloud \cup B
  /\ todo' = todo \ B
  /\ UNCHANGED <<mailVars, pc, snap, targets, chat, pushed, faults>>

LeavesChat == pc' = "next" /\ chat' = NoChat /\ todo' = {} /\ UNCHANGED <<snap, targets>>

ChatPushed ==
  /\ pc = "scan" /\ todo = {}
  /\ LeavesChat /\ pushed' = pushed \cup {chat}
  /\ UNCHANGED <<mailVars, cloud, faults>>

EndsRun ==
  /\ pc' = "idle" /\ snap' = {} /\ targets' = {} /\ chat' = NoChat /\ todo' = {}

\* push_chat raises: roll back, go on with the next chat
GivesUpChat_EndsRun == EndsRun /\ UNCHANGED <<mailVars, cloud, pushed>>
GivesUpChat == LeavesChat /\ UNCHANGED <<mailVars, cloud, pushed>>

BatchBreaks(B) == NextBatch(B) /\ B \cap Broken # {} /\ GivesUpChat /\ UNCHANGED faults
ChatFails == pc \in {"since", "scan"} /\ Fault /\ GivesUpChat

RunDone ==
  /\ pc = "next" /\ targets = {}
  /\ EndsRun
  /\ UNCHANGED <<mailVars, cloud, pushed, faults>>

\* the process dies, or the connection is lost and the rollback raises too
RunDies ==
  /\ pc # "idle" /\ Fault
  /\ EndsRun
  /\ UNCHANGED <<mailVars, cloud, pushed>>

RunStep ==
  \/ (\E c \in Chats : NextChat(c)) \/ ReadSince
  \/ (\E B \in SUBSET todo : Flush(B) \/ BatchBreaks(B)) \/ ChatPushed
  \/ RunDone

Next ==
  \/ \E m \in Msgs : Arrive(m)
  \/ StartRun \/ RunStep \/ ChatFails \/ RunDies

Spec == Init /\ [][Next]_vars

\* launchd starts run after run, and a run goes on
FairSpec == Spec /\ WF_vars(StartRun) /\ WF_vars(RunStep)

-----------------------------------------------------------------------------
(* Properties                                                                *)

\* push.py:69-119.  The newest row of a chat is where the next run starts, so no
\* earlier message may be missing, whichever batch, chat or run failed before:
\* only a message that arrived behind a later one, or that another one's sentAt
\* is rounded past, can be lost.
NoGap ==
  \A k \in cloud, m \in (arrived \ late) \cap Text :
    ChatOf[m] = ChatOf[k] /\ Date[m] < SentAt[k] => m \in cloud

\* push.py:144-148.  Of a chat that a run went through without an exception, all
\* of the run's snapshot is in Postgres, late messages excepted, however little
\* of it the run itself had to push.
PushedIsComplete ==
  pc # "idle" => \A c \in pushed : Wanted(c, snap) \ late \subseteq cloud

\* push.py:142-149.  Chats are isolated: with finitely many failures, and with
\* chats that fail in every run, each message of the others is published at last.
OthersArePublished ==
  \A m \in {n \in Text : \A k \in Broken : ChatOf[k] # ChatOf[n]} :
    m \in arrived /\ ChatOf[m] \in Eligible(arrived) ~> m \in cloud \cup late

\* the inductive invariant behind NoGap and PushedIsComplete: what arrived after
\* the run's snapshot is late or behind it, and what is before the stream's rest
\* is in Postgres
RunInv ==
  /\ \A m \in arrived \ late : ~Shadowed(m)
  /\ \A k \in snap, m \in arrived \ (late \cup snap) :
       ChatOf[k] = ChatOf[m] => SentAt[k] <= Date[m]
  /\ pc # "scan" => todo = {}
  /\ pc = "scan" => /\ todo \subseteq Wanted(chat, snap)
                    /\ Wanted(chat, snap) \ late \subseteq cloud \cup todo

IInv == TypeOK /\ RunInv /\ NoGap /\ PushedIsComplete
=============================================================================
