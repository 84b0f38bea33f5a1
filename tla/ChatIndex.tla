----------------------------- MODULE ChatIndex -----------------------------
(***************************************************************************)
(* What the index of the MCP server promises its clients, whatever jobs,   *)
(* batches and watermarks it is built with: a row is added only for a      *)
(* message of the snapshot the chat's indexing began with, rows stay, and  *)
(* a chat is ready only when that snapshot is indexed, save for messages   *)
(* that reached chat.db behind a later one.                                *)
(***************************************************************************)
EXTENDS Naturals

CONSTANTS Msgs, Chats, ChatOf, SentAt, Date, Text

VARIABLES arrived, late, rows, state, base

chatIndexVars == <<arrived, late, rows, state, base>>

Init ==
  /\ arrived = {} /\ late = {} /\ rows = {}
  /\ state = [c \in Chats |-> "absent"] /\ base = [c \in Chats |-> {}]

\* k, of the chat of m, keeps an instant that is past m
Passes(k, m) == k # m /\ ChatOf[k] = ChatOf[m] /\ Date[m] < SentAt[k]

\* chat.db only grows; only what is behind a message already there, or so close
\* to an earlier one that rounding puts it behind that one, is late
Arrive(m) ==
  /\ m \in Msgs \ arrived
  /\ arrived' = arrived \cup {m}
  /\ late' \in {late, late \cup {m}}
  /\ m \in late' => \E k \in Msgs : Passes(k, m) /\ (k \in arrived \/ Date[k] <= Date[m])
  /\ UNCHANGED <<rows, state, base>>

\* indexing of c begins on a snapshot that is not older than the last one
Begin(c, S) ==
  /\ base[c] \subseteq S /\ S \subseteq arrived
  /\ state' = [state EXCEPT ![c] = "indexing"] /\ base' = [base EXCEPT ![c] = S]
  /\ UNCHANGED <<arrived, late, rows>>

\* a batch of new messages of that snapshot becomes searchable at once
Add(c, B) ==
  /\ state[c] = "indexing"
  /\ B \subseteq (base[c] \cap Text) \ rows /\ \A m \in B : ChatOf[m] = c
  /\ rows' = rows \cup B
  /\ UNCHANGED <<arrived, late, state, base>>

Ready(c) ==
  /\ state[c] = "indexing"
  /\ \A m \in (base[c] \cap Text) \ late : ChatOf[m] = c => m \in rows
  /\ state' = [state EXCEPT ![c] = "ready"]
  /\ UNCHANGED <<arrived, late, rows, base>>

Fail(c) ==
  /\ state' = [state EXCEPT ![c] = "error"]
  /\ UNCHANGED <<arrived, late, rows, base>>

Next ==
  \/ \E m \in Msgs : Arrive(m)
  \/ \E c \in Chats :
       \/ \E S \in SUBSET arrived : Begin(c, S)
       \/ \E B \in SUBSET base[c] : Add(c, B)
       \/ Ready(c) \/ Fail(c)

Spec == Init /\ [][Next]_chatIndexVars
=============================================================================
