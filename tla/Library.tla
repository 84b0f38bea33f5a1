------------------------------ MODULE Library ------------------------------
(***************************************************************************)
(* The pure parts of the two packages, each asked its questions: a         *)
(* question is answered by the code's algorithm, and the properties compare*)
(* the answer with what it should be, defined in another way.              *)
(***************************************************************************)
EXTENDS Names, MessageStore

CONSTANT Questions   \* records with a field "of" that names the operation

\* a message of at most 65535 bytes: what typedstream declares in front of it is all there
Complete(body) ==
  /\ body.archive \in {"absent", "read", "raises"}
  /\ body.archive # "absent" =>
       /\ body.text \in Nat /\ body.text <= 65535 /\ body.size \in Nat /\ body.size >= body.text
       /\ body.header = Declares(body.text)

\* What the tables hold: guids are there and unique, a message is in a few chats, and a "+" is
\* at most in front of a number.
Guids == STRING \ {NoOne}
Moment == [sec : Nat, us : Nat]
Summary == [guid : Guids, last : Seq(Moment), count : Nat]
Chat == [guid : Guids, identifier : STRING, participants : SUBSET STRING, style : STRING]
MessageRow == [guid : Guids, date : Nat, assoc : Nat, target : STRING, item : Nat,
               hasText : BOOLEAN, chats : SUBSET STRING]

Table(list, Rows) ==
  list \in Seq(Rows) /\ \A i, j \in DOMAIN list : list[i].guid = list[j].guid => i = j
Summarised(summaries) ==
  Table(summaries, Summary) /\ \A i \in DOMAIN summaries : Len(summaries[i].last) <= 1
Stored(rows) ==
  Table(rows, MessageRow) /\ \A i \in DOMAIN rows : IsFiniteSet(rows[i].chats)

Window(params) == params.since \in Nat /\ params.until \in Nat

Character == {"+", " ", "0", "1", "2", "3", "4", "5", "6", "7", "8", "9"}
Number(raw) ==
  raw \in Seq(Character) /\ \A i \in DOMAIN raw : raw[i] = "+" => \A j \in 1 .. i - 1 : raw[j] = " "

Contact == [number : Seq(Character), first : Seq(Nat), last : Seq(Nat), nickname : Seq(Nat),
            organization : Seq(Nat)]
Source == [readable : BOOLEAN, rows : Seq(Contact)]

\* the places of the rows of the sources that could be read
Entries(sources) ==
  UNION {{<<i, j>> : j \in DOMAIN sources[i].rows} : i \in {i \in DOMAIN sources : sources[i].readable}}
EntryAt(sources, p) == sources[p[1]].rows[p[2]]

QuestionAssumption ==
  \A q \in Questions :
    /\ q.of = "time" => q.ns \in Int
    /\ q.of = "recent" => Summarised(q.summaries) /\ q.least \in Nat /\ q.limit \in Nat
    /\ q.of = "list" => /\ Table(q.chats, Chat) /\ Summarised(q.summaries)
                        /\ q.groupOnly \in BOOLEAN /\ q.limit \in Nat
    /\ q.of = "lookup" => /\ Number(q.handle) /\ q.sources \in Seq(Source)
                          /\ \A p \in Entries(q.sources) : Number(EntryAt(q.sources, p).number)
    /\ q.of = "find" => /\ IsFiniteSet(DOMAIN q.book) /\ q.limit \in Nat
                        /\ q.name \in Seq(Nat) /\ \A h \in DOMAIN q.book : q.book[h] \in Seq(Nat)
    /\ q.of = "chat" => Table(q.chats, Chat)
    /\ q.of = "stream" => Stored(q.rows) /\ Window(q.params) /\ q.events \in BOOLEAN
    /\ q.of = "count" => Stored(q.rows) /\ q.chat \in Guids
    /\ q.of = "text" => q.row.text \in Nat \cup {Blank} /\ Complete(q.row.body)

ASSUME QuestionAssumption

VARIABLES question, answer

libraryVars == <<question, answer>>

Unanswered == <<>>

LibraryInit == question \in Questions /\ answer = Unanswered

Asked(op) == answer = Unanswered /\ question.of = op
Answers(v) == answer' = <<v>> /\ UNCHANGED question

ConvertTime ==
  /\ Asked("time")
  /\ LET us == AppleToDt(question.ns)
     IN  Answers([us |-> us, ns |-> DtToAppleNs(us), again |-> AppleToDt(DtToAppleNs(us))])

RankChats ==
  /\ Asked("recent")
  /\ Answers(RecentChats(question.summaries, question.least, question.limit))

ListAll ==
  /\ Asked("list")
  /\ Answers(ListChats(question.chats, question.summaries, question.groupOnly, question.limit))

LookUp ==
  /\ Asked("lookup")
  /\ Answers(Lookup(FromSources(question.sources), question.handle))

FindContacts ==
  /\ Asked("find")
  /\ Answers(ResolveName(question.book, question.name, question.limit))

Resolve ==
  /\ Asked("chat")
  /\ Answers(ResolveChat(question.chats, question.guid, question.identifier))

Stream ==
  /\ Asked("stream")
  /\ Answers(Messages(question.rows, question.params, question.events))

Count ==
  /\ Asked("count")
  /\ Answers([count |-> MessageCount(question.rows, question.chat),
              stream |-> Messages(question.rows, [chat |-> question.chat, since |-> 0, until |-> 0],
                                  FALSE)])

ReadText == Asked("text") /\ Answers([stream |-> TextOf(question.row), hit |-> HitText(question.row)])

LibraryNext ==
  \/ ConvertTime \/ RankChats \/ ListAll \/ LookUp \/ FindContacts \/ Resolve
  \/ Stream \/ Count \/ ReadText

LibrarySpec == LibraryInit /\ [][LibraryNext]_libraryVars

Answered(op) == answer # Unanswered /\ question.of = op
Reply == Head(answer)

-----------------------------------------------------------------------------
(* Properties                                                                *)

\* An instant of chat.db that goes through a datetime and back is moved by less than a
\* microsecond; what comes back as a stored watermark stays what it is however often a job
\* reads and writes it (apple_to_dt, dt_to_apple_ns, _get_last_indexed_dt).
TimesAreKept ==
  Answered("time") =>
    LET t == Reply IN
    t.ns - question.ns < 1000 /\ question.ns - t.ns < 1000 /\ t.again = t.us

\* out is the order of the latest activity of the items of all, or the first limit of it
LatestFirst(out, all, limit, LastOf(_)) ==
  LET listed == ToSet(out)
      NotBefore(t, u) == u # <<>> => t # <<>> /\ ~Earlier(Head(t), Head(u))
  IN  /\ listed \subseteq all /\ Cardinality(listed) = Len(out)
      /\ Len(out) = Shorter(limit, Cardinality(all))
      /\ \A i \in DOMAIN out, a \in all :
           a \notin {out[j] : j \in 1 .. i} => NotBefore(LastOf(out[i]), LastOf(a))

RecentlyFirst(out, summaries, least, limit) ==
  LatestFirst(out, {s \in ToSet(summaries) : s.count >= least}, limit, LAMBDA s : s.last)

\* the latest activity of a chat is that of its summary
OwnLast(summaries, c) ==
  LET own == {s \in ToSet(summaries) : s.guid = c.guid}
  IN  IF own = {} THEN <<>> ELSE (CHOOSE s \in own : TRUE).last

ListedFirst(out, chats, summaries, groupOnly, limit) ==
  LatestFirst(out, {c \in ToSet(chats) : groupOnly => c.style = "group"}, limit,
              LAMBDA c : OwnLast(summaries, c))

\* Ranking by ISO strings is ranking by time ("sort chronologically as plain text"): a chat
\* that comes later, or is left out of the most recent ones, has too few messages or no later
\* activity than each of those before it (recent_chat_guids, list_chats).
RecentAreRecent ==
  /\ Answered("recent") =>
       RecentlyFirst(Reply, question.summaries, question.least, question.limit)
  /\ Answered("list") =>
       ListedFirst(Reply, question.chats, question.summaries, question.groupOnly, question.limit)

Digits(raw) == Filtered(raw, LAMBDA ch : ch \notin {"+", " "})
Written(raw) == \E i \in DOMAIN raw : raw[i] # " "

\* the contacts with some digits, and the name of the first one of some
Owners(sources, d) ==
  {p \in Entries(sources) :
     LET r == EntryAt(sources, p)
     IN  BuildName(r) # Nobody /\ Written(r.number) /\ Digits(r.number) = d}
FirstPlace(S) == CHOOSE p \in S : \A q \in S : p[1] < q[1] \/ (p[1] = q[1] /\ p[2] <= q[2])
FirstName(sources, S) == BuildName(EntryAt(sources, FirstPlace(S)))

NamedExactly(name, sources, handle) ==
  LET owners == Owners(sources, Digits(handle))
      american == Owners(sources, <<"1">> \o Digits(handle))
  IN  name = IF Written(handle) /\ owners # {} THEN FirstName(sources, owners)
             ELSE IF Len(Digits(handle)) = National /\ american # {} THEN FirstName(sources, american)
             ELSE Nobody

\* A handle gets the name of the first contact, in the order of the sources that could be
\* read, with the same digits, else with those of a national number behind a 1: however
\* both are written, and never anybody else's (contacts.py).
LookupIsExact ==
  Answered("lookup") => NamedExactly(Reply, question.sources, question.handle)

\* how well a name matches, and how well a chat does
NameRank(q, n) == CASE n = q -> 1 [] IsStrictPrefix(q, n) -> 2 [] OTHER -> 3
ChatRank(x, c) ==
  CASE c.identifier = x -> 1
    [] c.identifier # x /\ x \in c.participants /\ c.style = "direct" -> 2
    [] c.identifier # x /\ x \in c.participants /\ c.style # "direct" -> 3
    [] OTHER -> 4

BestNames(found, book, q, limit) ==
  LET matching == {n \in {book[h] : h \in DOMAIN book} : q # <<>> /\ Within(q, n)}
      names == {found[i].name : i \in DOMAIN found}
      NoBetter(n, m) == \/ NameRank(q, m) < NameRank(q, n)
                        \/ NameRank(q, m) = NameRank(q, n) /\ ~Precedes(n, m)
  IN  /\ names \subseteq matching /\ Cardinality(names) = Len(found)
      /\ Len(found) = Shorter(limit, Cardinality(matching))
      /\ \A i \in DOMAIN found, n \in matching :
           n \notin {found[j].name : j \in 1 .. i} => NoBetter(n, found[i].name)
      /\ \A i \in DOMAIN found, h \in DOMAIN book :
           (h \in found[i].handles) = (book[h] = found[i].name)

BestChat(found, chats, guid, identifier) ==
  LET ranks == [i \in DOMAIN chats |-> ChatRank(identifier, chats[i])]
      Best(i) == /\ ranks[i] < 4
                 /\ \A j \in DOMAIN ranks : ranks[i] < ranks[j] \/ (ranks[i] = ranks[j] /\ i <= j)
  IN  IF guid # NoGuid
        THEN found = IF \E c \in ToSet(chats) : c.guid = guid THEN guid ELSE NoGuid
      ELSE \/ \E i \in DOMAIN ranks : Best(i) /\ found = chats[i].guid
           \/ (\A i \in DOMAIN ranks : ranks[i] = 4) /\ found = NoGuid

\* What is found is the best there is: no name that is left out matches better than one that
\* is returned, or as well and is before it in the alphabet, each comes with exactly its
\* handles, and an identifier means the chat that matches it best, of equals the oldest
\* (resolve_name, _resolve_chat_guid).
BestMatchesFirst ==
  /\ Answered("find") => BestNames(Reply, question.book, question.name, question.limit)
  /\ Answered("chat") => BestChat(Reply, question.chats, question.guid, question.identifier)

\* rows of the window that the stream selects in chat c
InRange(r, params) ==
  /\ params.since = 0 \/ r.date >= params.since
  /\ params.until = 0 \/ r.date < params.until

ChatsOf(r, params) == {c \in r.chats : params.chat \in {NoOne, c}}

StreamsExactly(out, rows, params, events) ==
  LET RowOf(guid) == CHOOSE i \in DOMAIN rows : rows[i].guid = guid
      Times(r, m) == Cardinality({n \in DOMAIN m.reactions : m.reactions[n] = r.guid})
      tapbacks == {i \in DOMAIN rows : FromRaw(rows[i].assoc) # 0}
  IN  /\ \A n \in DOMAIN out : \E i \in DOMAIN rows : out[n].guid = rows[i].guid
      /\ \A i \in DOMAIN rows, c \in UNION {rows[j].chats : j \in DOMAIN rows} :
           Cardinality({n \in DOMAIN out : out[n].guid = rows[i].guid /\ out[n].chat = c}) =
             IF /\ c \in ChatsOf(rows[i], params) /\ InRange(rows[i], params)
                /\ rows[i].date # 0 /\ i \notin tapbacks
                /\ (rows[i].item = 0 \/ events)
               THEN 1 ELSE 0
      /\ \A m, n \in DOMAIN out : m < n =>
           rows[RowOf(out[m].guid)].date <= rows[RowOf(out[n].guid)].date
      /\ \A n \in DOMAIN out, i \in DOMAIN rows :
           Times(rows[i], out[n]) =
             IF i \in tapbacks /\ rows[i].target = out[n].guid /\ rows[i].date # 0
                  /\ InRange(rows[i], params)
               THEN Cardinality(ChatsOf(rows[i], params)) ELSE 0

\* Every dated row of the window comes out exactly once for each of its chats, in the order of
\* the dates and over any number of batches: as a message, unless it is a tapback or a group
\* event; a tapback comes out with each yield of its target, as often as it is in the chats
\* asked for, and a message has no others (messages, _collect_reactions, _yield_batch).
StreamIsExact ==
  Answered("stream") => StreamsExactly(Reply, question.rows, question.params, question.events)

CountsStreamed(count, stream, rows, chat) ==
  LET streamed == {i \in DOMAIN rows : \E n \in DOMAIN stream : stream[n].guid = rows[i].guid}
      associated == {i \in DOMAIN rows : rows[i].assoc # 0}
      undated == {i \in DOMAIN rows : rows[i].date = 0 /\ rows[i].assoc = 0 /\ rows[i].item = 0
                                      /\ rows[i].hasText /\ chat \in rows[i].chats}
      silent == {i \in DOMAIN rows : ~rows[i].hasText}
  IN  count = Cardinality((streamed \ (associated \cup silent)) \cup undated)

\* The size of an index job and the stream it reads agree on what a message is: the messages
\* that the stream yields for a chat are those that are counted, but for associated rows that
\* are no tapbacks (which the stream has and the count has not), rows without a date and rows
\* without text or body (message_count_for_chat, MessageStore.messages, is_tapback_type).
CountedAreStreamed ==
  Answered("count") => CountsStreamed(Reply.count, Reply.stream, question.rows, question.chat)

\* The text of a message is found whatever typedstream makes of its body, up to 65535 bytes,
\* and a hit shows the text that was indexed (decode_attributed_body, _row_to_message,
\* _fetch_hits_by_guids).
TextIsRecovered ==
  Answered("text") =>
    LET r == question.row IN
    /\ Reply.hit = Reply.stream
    /\ Reply.stream = IF r.text > 0 THEN r.text
                             ELSE IF r.body.archive = "absent" THEN 0 ELSE r.body.text
=============================================================================
