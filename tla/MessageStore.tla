---------------------------- MODULE MessageStore ----------------------------
(***************************************************************************)
(* What a snapshot of chat.db yields: MessageStore.messages (queries.py),  *)
(* the counts of snapshot_queries.py, and the text of a message as the     *)
(* stream, the search and the fallback decoder (decoder.py) see it.        *)
(*                                                                         *)
(* A snapshot is a sequence of rows of the table message by ROWID:         *)
(*   guid, date (0 is NULL), assoc (associated_message_type), target (of   *)
(*   associated_message_guid), item (item_type), text, body, and chats,    *)
(*   the chats the row is joined with.                                     *)
(***************************************************************************)
EXTENDS Integers, Ordering, SequencesExt

CONSTANT Chunk       \* _BATCH of queries.py
ChunkAssumption == Chunk \in Nat \ {0}
ASSUME ChunkAssumption

NoOne == "none"

-----------------------------------------------------------------------------
(* Tapbacks: two definitions, in constants.py and in models.py               *)

TapbackAdd == 2000 .. 2006

IsTapbackType(t) == t # 0 /\ (IF t >= 3000 THEN t - 1000 ELSE t) \in TapbackAdd

FromRaw(t) ==       \* 0 is None
  LET base == IF t >= 3000 THEN t - 1000 ELSE t
  IN  IF base \in TapbackAdd THEN base ELSE 0

-----------------------------------------------------------------------------
(* The stream.  params is [chat, since, until]; NoOne and 0 are NULL.  What   *)
(* is selected is a sequence of pairs of a row and one of its chats.         *)

\* MESSAGE_SQL: the rows of the join in the window, by date and ROWID
Selected(rows, params) ==
  LET pairs == UNION {{<<i, c>> : c \in rows[i].chats} : i \in DOMAIN rows}
      InWindow(p) ==
        /\ params.chat \in {NoOne, p[2]}
        /\ params.since = 0 \/ rows[p[1]].date >= params.since
        /\ params.until = 0 \/ rows[p[1]].date < params.until
      Sooner(p, q) ==
        \/ rows[p[1]].date < rows[q[1]].date
        \/ rows[p[1]].date = rows[q[1]].date /\ p[1] < q[1]
  IN  Sorted(SetToSeq({p \in pairs : InWindow(p)}), Sooner)

\* _collect_reactions: the tapbacks of the same selection, by target
CollectReactions(rows, selection) ==
  Filtered(selection, LAMBDA p :
    LET r == rows[p[1]] IN
    IsTapbackType(r.assoc) /\ r.target # NoOne /\ FromRaw(r.assoc) # 0 /\ r.date # 0)

\* the rows that are messages
Kept(rows, selection, events) ==
  Filtered(selection, LAMBDA p :
    ~IsTapbackType(rows[p[1]].assoc) /\ (rows[p[1]].item = 0 \/ events))

\* _row_to_message: a message without a date is none
RowToMessage(rows, reactions, p) ==
  LET r == rows[p[1]]
      its == Filtered(reactions, LAMBDA q : rows[q[1]].target = r.guid)
  IN  IF r.date = 0 THEN <<>>
      ELSE <<[guid |-> r.guid, chat |-> p[2],
              reactions |-> [n \in DOMAIN its |-> rows[its[n][1]].guid]]>>

YieldBatch(rows, reactions, batch) ==
  FlattenSeq([n \in DOMAIN batch |-> RowToMessage(rows, reactions, batch[n])])

\* batches of Chunk, and the rest
Fill(acc, p) ==
  LET batch == Append(acc.batch, p)
  IN  IF Len(batch) >= Chunk THEN [full |-> Append(acc.full, batch), batch |-> <<>>]
                             ELSE [acc EXCEPT !.batch = batch]
Batched(kept) == FoldLeft(Fill, [full |-> <<>>, batch |-> <<>>], kept)

Batches_FullOnly(kept) == Batched(kept).full
Batches(kept) == Append(Batched(kept).full, Batched(kept).batch)

Messages(rows, params, events) ==
  LET selection == Selected(rows, params)
      reactions == CollectReactions(rows, selection)
      batches == Batches(Kept(rows, selection, events))
  IN  FlattenSeq([n \in DOMAIN batches |-> YieldBatch(rows, reactions, batches[n])])

-----------------------------------------------------------------------------
(* The counts of snapshot_queries.py                                         *)

IsReal_WithEvents(r) == r.assoc = 0
IsReal(r) == r.assoc = 0 /\ r.item = 0

\* message_count_for_chat
MessageCount(rows, c) ==
  Cardinality({i \in DOMAIN rows : c \in rows[i].chats /\ IsReal(rows[i]) /\ rows[i].hasText})

-----------------------------------------------------------------------------
(* The text of a message, as its number of bytes: 0 is NULL or empty, Blank  *)
(* is white space.  A body is [archive, header, size]: what typedstream      *)
(* makes of it, the bytes that declare a length, and how many are behind.    *)

Blank == -1

\* how typedstream declares the length of a text (external)
Declares(length) ==
  IF length < 128 THEN <<length>> ELSE <<129, length % 256, length \div 256>>

Shorter(m, n) == IF m < n THEN m ELSE n

ByteScan_OneByte(header, size) ==
  IF header = <<>> THEN 0 ELSE Shorter(header[1], size)

\* _byte_scan_nsstring: 0x81 announces a length of two bytes
ByteScan(header, size) ==
  CASE header = <<>>                         -> 0
    [] header # <<>> /\ header[1] # 129      -> Shorter(header[1], size)
    [] Len(header) = 3 /\ header[1] = 129    -> Shorter(header[2] + 256 * header[3], size)
    [] Len(header) \in 1 .. 2 /\ header[1] = 129 -> 0

\* decode_attributed_body: the archive's string; when reading it raises, or yields none, what
\* the scan finds
DecodeBody(body) ==
  CASE body.archive = "absent" -> 0
    [] body.archive = "read"   -> body.text
    [] body.archive = "raises" -> ByteScan(body.header, body.size)

\* the text of the stream, which is indexed
TextOf(r) == IF r.text \notin {0, Blank} THEN r.text ELSE DecodeBody(r.body)

\* the text of a hit
HitText(r) == IF r.text \in {0, Blank} THEN DecodeBody(r.body) ELSE r.text
=============================================================================
