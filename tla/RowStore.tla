------------------------------ MODULE RowStore ------------------------------
(***************************************************************************)
(* What the vector store promises its users, however many connections and  *)
(* servers share vectors.db: a batch of messages is filed under a chat     *)
(* they are in, whole and at once; a filed message stays filed; a status   *)
(* write changes the status of one chat and no filing.                     *)
(***************************************************************************)
CONSTANTS Guids, Chats, NoChat, InChats, Statuses

VARIABLES
  filed,   \* the chat under which a message is indexed, or NoChat
  status   \* the status of each chat

rowStoreVars == <<filed, status>>

Init ==
  /\ filed = [g \in Guids |-> NoChat]
  /\ status \in [Chats -> Statuses]

FileBatch(c, B) ==
  /\ \A g \in B : c \in InChats[g]
  /\ filed' = [g \in Guids |-> IF g \in B THEN c ELSE filed[g]]
  /\ UNCHANGED status

Report(c) ==
  /\ status' = [status EXCEPT ![c] = status'[c]] /\ status'[c] \in Statuses
  /\ UNCHANGED filed

Next == \E c \in Chats : Report(c) \/ \E B \in SUBSET Guids : FileBatch(c, B)

Spec == Init /\ [][Next]_rowStoreVars
=============================================================================
