------------------------------- MODULE Names -------------------------------
(***************************************************************************)
(* Who a handle is, and which chat a caller means: contacts.py, the name   *)
(* index of store_cache.py, and the resolution and listing of chats in     *)
(* tools.py and snapshot_queries.py.                                       *)
(*                                                                         *)
(* A phone number is a sequence of characters: "+", which comes first or   *)
(* not at all, a digit, or " ", which stands for every other one.  A name  *)
(* is a sequence of numbers: its letters after case folding, and 0 for a   *)
(* blank.  E-mail addresses have a book of their own, in which they are    *)
(* looked up as they are but for case and blanks; it is left out.          *)
(***************************************************************************)
EXTENDS AppleTime, Ordering, SequencesExt

CONSTANT National    \* the digits of a number without a country code: 10
NationalAssumption == National \in Nat \ {0}
ASSUME NationalAssumption

Nobody == <<>>       \* None, as a name

-----------------------------------------------------------------------------
(* contacts.py                                                               *)

NormalizePhone(raw) ==
  LET cleaned == Filtered(raw, LAMBDA ch : ch # " ")
  IN  IF cleaned = <<>> \/ Head(cleaned) = "+" THEN cleaned ELSE <<"+">> \o cleaned

\* the fields of an AddressBook record are Nobody, OnlyBlanks, or a name without blanks
\* around it; a field of blanks counts as one that is there
OnlyBlanks == <<0>>
Stripped(field) == IF field = OnlyBlanks THEN <<>> ELSE field

BuildName(r) ==
  LET parts == SelectSeq(<<r.first, r.last>>, LAMBDA part : part # Nobody)
  IN  IF r.nickname # Nobody THEN Stripped(r.nickname)
      ELSE IF Len(parts) = 2 THEN Stripped(r.first) \o <<0>> \o Stripped(r.last)
      ELSE IF parts # <<>> THEN Stripped(Head(parts))
      ELSE Stripped(r.organization)

\* one row of a source: nothing that is in the book is overwritten
Listed_Overwrites(phones, r) ==
  LET norm == NormalizePhone(r.number)
  IN  IF BuildName(r) = Nobody \/ norm = <<>> THEN phones
      ELSE [n \in DOMAIN phones \cup {norm} |-> IF n = norm THEN BuildName(r) ELSE phones[n]]

Listed(phones, r) ==
  LET norm == NormalizePhone(r.number)
  IN  IF BuildName(r) = Nobody \/ norm = <<>> \/ norm \in DOMAIN phones THEN phones
      ELSE [n \in DOMAIN phones \cup {norm} |-> IF n = norm THEN BuildName(r) ELSE phones[n]]

\* a source that may not be copied, or whose query fails, adds nothing
LoadOne(phones, source) ==
  IF source.readable THEN FoldLeft(Listed, phones, source.rows) ELSE phones

EmptyBook == [n \in {} |-> Nobody]
FromSources(sources) == FoldLeft(LoadOne, EmptyBook, sources)

Lookup(phones, handle) ==
  LET norm == NormalizePhone(handle)
      digits == Filtered(norm, LAMBDA ch : ch # "+")
      american == <<"+", "1">> \o digits
  IN  IF norm = <<>> THEN Nobody
      ELSE IF norm \in DOMAIN phones THEN phones[norm]
      ELSE IF Len(digits) = National /\ american \in DOMAIN phones THEN phones[american]
      ELSE Nobody

-----------------------------------------------------------------------------
(* The name index.  A book is a function from handles to names.              *)

NameIndex(book) ==
  [name \in {book[h] : h \in DOMAIN book} |-> {h \in DOMAIN book : book[h] = name}]

Within(q, name) == \E i \in 1 .. Len(name) : IsPrefix(q, SubSeq(name, i, Len(name)))
Atmost(limit, s) == SubSeq(s, 1, IF limit < Len(s) THEN limit ELSE Len(s))

Ranked_Alphabetically(names, q) == Sorted(SetToSeq({n \in names : Within(q, n)}), Precedes)
Ranked(names, q) ==
  LET exact == names \cap {q}
      prefix == {n \in names : IsStrictPrefix(q, n)}
      substr == {n \in names : Within(q, n) /\ ~IsPrefix(q, n)}
  IN  SetToSeq(exact) \o Sorted(SetToSeq(prefix), Precedes) \o Sorted(SetToSeq(substr), Precedes)

\* resolve_name: the names that match q and their handles
ResolveName(book, q, limit) ==
  IF q = <<>> THEN <<>>
  ELSE LET found == Atmost(limit, Ranked(DOMAIN NameIndex(book), q))
       IN  [i \in DOMAIN found |-> [name |-> found[i], handles |-> NameIndex(book)[found[i]]]]

-----------------------------------------------------------------------------
(* Chats: a sequence of [guid, identifier, participants, style] by rowid     *)

NoGuid == "none"

FirstOf(chats, Test(_)) ==
  LET n == SelectInSeq(chats, Test) IN IF n = 0 THEN NoGuid ELSE chats[n].guid

\* _resolve_chat_guid: a guid that exists; else the chat with the identifier needle, else a
\* participant's direct chat, else any of a participant's
ResolveChat(chats, guid, needle) ==
  LET named == FirstOf(chats, LAMBDA c : c.identifier = needle)
      direct == FirstOf(chats, LAMBDA c : needle \in c.participants /\ c.style = "direct")
  IN  IF guid # NoGuid THEN FirstOf(chats, LAMBDA c : c.guid = guid)
      ELSE IF named # NoGuid THEN named
      ELSE IF direct # NoGuid THEN direct
      ELSE FirstOf(chats, LAMBDA c : needle \in c.participants)

\* Summaries are [guid, last, count], in the order of the rows; last is the singleton of a
\* time, or <<>> when no message has a date.
LastAt(s) == IF s.last = <<>> THEN <<>> ELSE Iso(Head(s.last))

\* sorted by descending strings Latest, which leaves those of equal strings as they are
ByRecency(list, Latest(_)) == Sorted(list, LAMBDA s, t : Precedes(Latest(t), Latest(s)))

\* recent_chat_guids
RecentChats(summaries, minMessages, limit) ==
  Atmost(limit, ByRecency(Filtered(summaries, LAMBDA s : s.count >= minMessages), LastAt))

\* list_chats: a chat without a summary comes last
ListChats(chats, summaries, groupOnly, limit) ==
  LET Latest(c) == LET n == SelectInSeq(summaries, LAMBDA s : s.guid = c.guid)
                   IN  IF n = 0 THEN <<>> ELSE LastAt(summaries[n])
  IN  Atmost(limit, ByRecency(Filtered(chats, LAMBDA c : groupOnly => c.style = "group"), Latest))
=============================================================================
