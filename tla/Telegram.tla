------------------------------ MODULE Telegram ------------------------------
(***************************************************************************)
(* TelegramService.sendMessage: one post with HTML markup, and when that   *)
(* raises one without; when that raises too the reply is dropped.          *)
(***************************************************************************)
EXTENDS Sequences

CONSTANTS
  Senders,   \* the threads that deliver replies
  Parcels,   \* what they deliver
  NoParcel

ASSUME ParcelsAssumption == NoParcel \notin Parcels

VARIABLES
  sending,   \* which post of sendMessage a sender is at
  parcel,    \* the reply it delivers
  sent       \* the replies that appeared in a Telegram chat, in this order

telegramVars == <<sending, parcel, sent>>

TelegramTypeOK ==
  /\ sending \in [Senders -> {"idle", "html", "plain"}]
  /\ parcel \in [Senders -> Parcels \cup {NoParcel}]
  /\ \A s \in Senders : sending[s] # "idle" => parcel[s] \in Parcels
  /\ sent \in Seq(Parcels)

TelegramInit ==
  /\ sending = [s \in Senders |-> "idle"]
  /\ parcel = [s \in Senders |-> NoParcel]
  /\ sent = <<>>

SendMessage(s, p) ==
  /\ sending[s] = "idle"
  /\ sending' = [sending EXCEPT ![s] = "html"]
  /\ parcel' = [parcel EXCEPT ![s] = p]
  /\ UNCHANGED sent

\* delivered; refused, as markup Telegram cannot parse is; or delivered although
\* the post raises, because the response is lost
Outcomes == {"delivered", "refused", "unanswered"}

FallsBack_Always(s, o) == sending[s] = "html"
FallsBack(s, o) == sending[s] = "html" /\ o # "delivered"

Post(s, o) ==
  /\ sending[s] # "idle"
  /\ sent' = IF o = "refused" THEN sent ELSE Append(sent, parcel[s])
  /\ sending' = [sending EXCEPT ![s] = IF FallsBack(s, o) THEN "plain" ELSE "idle"]
  /\ parcel' = [parcel EXCEPT ![s] = IF FallsBack(s, o) THEN parcel[s] ELSE NoParcel]

\* nothing of the post is left to chance: it went the way it should, or its
\* refusal is answered by the fallback
Harmless(s, o) == o = "delivered" \/ (o = "refused" /\ sending[s] = "html")

\* the process dies
SendersDie ==
  /\ sending' = [s \in Senders |-> "idle"]
  /\ parcel' = [s \in Senders |-> NoParcel]
  /\ UNCHANGED sent
=============================================================================
