---------------------------- MODULE CloudSearch ----------------------------
(***************************************************************************)
(* The production search (MessageVectorSearchService over MessageVector)   *)
(* while the publisher runs and time passes: what its freshness note says  *)
(* of the replica, against when the replica was really brought up to date. *)
(***************************************************************************)
EXTENDS Publisher

CONSTANTS
  StaleAfter,   \* STALE_AFTER
  MaxNow        \* bound: the clock stops there

ASSUME ClockAssumption == StaleAfter \in Nat /\ MaxNow \in Nat

VARIABLES
  now,        \* the clock, in the units of the messages' dates
  syncedAt,   \* history: when a batch or a chat was last pushed
  answer      \* what a search has just answered: no freshnessNote, or one

searchVars == <<vars, now, syncedAt, answer>>

SearchTypeOK ==
  /\ TypeOK
  /\ now \in 0..MaxNow /\ syncedAt \in 0..now
  /\ answer \in {"none", "silent", "note"}

SearchInit ==
  /\ Init
  /\ now = 0 /\ syncedAt = 0
  /\ answer = "none"

\* no message is dated in the future
PublisherStep ==
  /\ Next
  /\ \A m \in arrived' \ arrived : Date[m] <= now /\ SentAt[m] <= now
  /\ syncedAt' = IF cloud' # cloud \/ pushed' \ pushed # {} THEN now ELSE syncedAt
  /\ answer' = "none" /\ UNCHANGED now

Tick ==
  /\ now < MaxNow /\ now' = now + 1
  /\ answer' = "none" /\ UNCHANGED <<vars, syncedAt>>

\* MAX(sentAt) is older than STALE_AFTER; of an empty table it is NULL
Stale_SwappedBetween == cloud # {} /\ \A m \in cloud : SentAt[m] > now + StaleAfter
Stale == cloud # {} /\ \A m \in cloud : now > SentAt[m] + StaleAfter

Search ==
  /\ answer' = IF Stale THEN "note" ELSE "silent"
  /\ UNCHANGED <<vars, now, syncedAt>>

SearchNext == PublisherStep \/ Tick \/ Search

SearchSpec == SearchInit /\ [][SearchNext]_searchVars

\* time passes, launchd starts run after run, and a run goes on
FairSearchSpec ==
  /\ SearchSpec /\ WF_searchVars(Tick)
  /\ WF_searchVars(StartRun /\ PublisherStep) /\ WF_searchVars(RunStep /\ PublisherStep)

-----------------------------------------------------------------------------
(* Properties                                                                *)

\* MessageVectorSearchService.java:30-31, 70-80.  An answer from a replica with
\* rows that says nothing of staleness is given while the last push is recent:
\* also when chats failed, messages arrived late or runs died.
SilenceIsHonest == answer = "silent" /\ cloud # {} => now - syncedAt <= StaleAfter
=============================================================================
