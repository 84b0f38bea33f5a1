----------------------------- MODULE MCLibrary -----------------------------
(* The questions asked of Library. *)
EXTENDS Library

Times == [of : {"time"}, ns : {3 * n : n \in 0 .. MaxNs \div 3}]

Lasts == {<<>>} \cup {<<[sec |-> s, us |-> u]>> : s \in 0 .. 1, u \in {0, 1, 999999}}
Summaries(g) == [guid : {g}, last : Lasts, count : 1 .. 2]
Recents == {[of |-> "recent", summaries |-> <<s, t, u>>, least |-> n, limit |-> k] :
              s \in Summaries("g1"), t \in Summaries("g2"), u \in Summaries("g3"),
              n \in {2}, k \in 1 .. 2}

Listing(g, style) == [guid |-> g, identifier |-> "x", participants |-> {}, style |-> style]

\* the third chat has no messages
Listings == {[of |-> "list", groupOnly |-> b, limit |-> k,
              summaries |-> <<[guid |-> "g2", last |-> l2, count |-> 1],
                              [guid |-> "g1", last |-> l1, count |-> 1]>>,
              chats |-> <<Listing("g1", s1), Listing("g2", s2), Listing("g3", "group")>>] :
               l1 \in Lasts, l2 \in Lasts, s1 \in {"direct", "group"},
               s2 \in {"direct", "group"}, b \in BOOLEAN, k \in 1 .. 3}

\* numbers of two digits without and of three with their country code
Numbers == {<<"+", "1", "5", "6">>, <<"1", " ", "5", "6">>, <<"5", "6">>, <<"+", "5", " ", "6">>,
            <<"1", "5">>, <<" ">>, <<" ", "+">>}
Record(number, first, nick, org) ==
  [number |-> number, first |-> first, last |-> <<>>, nickname |-> nick, organization |-> org]
Records == {Record(n, <<1>>, <<>>, <<>>) : n \in Numbers}
           \cup {Record(n, <<>>, <<2>>, <<3>>) : n \in Numbers}
           \cup {Record(n, <<>>, <<>>, <<>>) : n \in Numbers}
           \cup {Record(n, <<1>>, OnlyBlanks, <<3>>) : n \in Numbers}
Sources == [readable : BOOLEAN, rows : {<<>>} \cup {<<r>> : r \in Records}]
Lookups == {[of |-> "lookup", sources |-> <<s, t>>, handle |-> h] :
              s \in Sources, t \in Sources, h \in Numbers \cup {<<>>}}

Letters == UNION {[1 .. n -> 1 .. 2] : n \in 1 .. 3}
Books == {f \in [{"h1", "h2", "h3"} -> {<<1>>, <<1, 2>>, <<2, 1>>, <<1, 1, 2>>, <<2, 2, 1>>}] : TRUE}
Finds == [of : {"find"}, book : Books, name : Letters \cup {<<>>}, limit : 1 .. 2]

ChatRows(g) == [guid : {g}, identifier : {"x", "y"}, participants : SUBSET {"x", "y"},
                style : {"direct", "group"}]
ChatQuestions == {[of |-> "chat", chats |-> <<c, d>>, guid |-> g, identifier |-> "x"] :
                    c \in ChatRows("g1"), d \in ChatRows("g2"), g \in {NoGuid, "g2", "g3"}}

Row(guid, date, assoc, target, item, text, chats) ==
  [guid |-> guid, date |-> date, assoc |-> assoc, target |-> target, item |-> item,
   hasText |-> text, chats |-> chats]
Firsts == {Row("m1", d, 0, NoOne, 0, TRUE, cs) :
             d \in 0 .. 2, cs \in {{"c1"}, {"c2"}, {"c1", "c2"}}}
Seconds == {Row("m2", d, a, t, 0, TRUE, cs) :
              d \in 0 .. 2, a \in {0, 1000, 2001, 3001}, t \in {NoOne, "m1", "m3"},
              cs \in {{"c1"}, {"c1", "c2"}}}
Thirds == {Row("m3", d, 0, NoOne, i, x, {"c1"}) : d \in 1 .. 2, i \in 0 .. 1, x \in BOOLEAN}
Tables == {<<r, s, t>> : r \in Firsts, s \in Seconds, t \in Thirds}
Windows == [chat : {NoOne, "c1"}, since : {0, 2}, until : {0, 2}]
Streams == [of : {"stream"}, rows : {t \in Tables : t[3].hasText}, params : Windows, events : {FALSE}]
           \cup [of : {"stream"}, rows : {t \in Tables : t[3].hasText},
                 params : {[chat |-> "c1", since |-> 0, until |-> 0]}, events : {TRUE}]
Counts == [of : {"count"}, rows : Tables, chat : {"c1", "c2"}]

Lengths == {1, 127, 128, 129, 130, 255, 256, 32767, 33153, 65535}
Bodies == {[archive |-> "absent", header |-> <<>>, size |-> 0, text |-> 0]} \cup
          {[archive |-> a, header |-> Declares(n), size |-> n + more, text |-> n] :
             a \in {"read", "raises"}, n \in Lengths, more \in {0, 20}}
Texts == {[of |-> "text", row |-> [text |-> t, body |-> b]] : t \in {0, Blank, 7}, b \in Bodies}

MCQuestions == Times \cup Recents \cup Listings \cup Lookups \cup Finds \cup ChatQuestions
               \cup Streams \cup Counts \cup Texts
=============================================================================
