----------------------------- MODULE MCExchange -----------------------------
(***************************************************************************)
(* An instance of Exchange.                                                *)
(***************************************************************************)
EXTENDS Exchange

\* Texts: empty, and of the lengths at which a push (6, 7), a login (7, 8) or
\* a text message (10, 11, 12) ends at, before or after a block; one with a
\* NUL inside and one that is not UTF-8.
Plain(n) == [i \in 1..n |-> 65]
Texts    == {Plain(n) : n \in {0, 1, 6, 7, 10, 11, 12}}
Odd      == {<<65, 0, 65>>, <<65, INVALID>>}

SomeRoutes == {FLOOD, DIRECT, TRANSPORT_FLOOD}
SomeTs     == {1, 1700000000}

Txts ==
    [kind : {"txt"}, route : SomeRoutes, ts : SomeTs, attempt : {0, 3}, type : {0, 2}, text : Texts \cup Odd]

\* What is pushed was decoded before, so its text is clean.
Pushes == [kind : {"push"}, route : {FLOOD, DIRECT}, ts : SomeTs, attempt : {0, 5}, text : Texts]

Echoes == [kind : {"echo"}, route : {FLOOD, DIRECT}, ts : SomeTs, attempt : {0, 5}, type : {0}, text : Texts]

Logins == [kind : {"login"}, route : SomeRoutes, ts : SomeTs, text : {ADMIN, GUEST, <<>>, Plain(8), <<97, 0, 97>>}]

Reqs == [kind : {"req"}, route : SomeRoutes, ts : SomeTs, text : {<<Tag>>, <<1>>, <<Tag, 0, 7>>}]

Grps == [kind : {"grp"}, route : {FLOOD}, ts : SomeTs, attempt : {2}, type : {0}, text : Texts]

SomeApps ==
    {[type |-> 1, name |-> name, lat |-> lat, lon |-> lon, feat1 |-> f1, feat2 |-> f2] :
        name \in {<<>>, <<78>>, <<78, 0>>}, lat \in {<<>>, <<-52000001>>}, lon \in {<<>>, <<179999999>>}, f1 \in {<<>>, <<258>>}, f2 \in {<<>>, <<3>>}}

Adverts == [kind : {"advert"}, route : {FLOOD, DIRECT}, from : {Client, Author}, ts : {4, 6}, app : SomeApps]

SomeMessages == Txts \cup Echoes \cup Pushes \cup Logins \cup Reqs \cup Grps \cup Adverts

SomeKnown == {<<>>, [ts |-> 5, name |-> <<77>>]}

SomeDigests == {<<1, 2, 3, 4>>, <<1, 2, 0, 0>>, <<0, 0, 0, 0>>}
=============================================================================
