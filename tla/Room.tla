-------------------------------- MODULE Room --------------------------------
(***************************************************************************)
(* The room server (room_server/protocol.py over room_server/db.py): a     *)
(* receive loop that handles one packet at a time, the background tasks it *)
(* spawns (fan_out after a post, sync_client after a login), and the one   *)
(* SQLite connection they all use.                                         *)
(*                                                                         *)
(* An action is what runs between two awaits.  Every await of the handler, *)
(* a sync and a push may raise; the process may die at any point and come  *)
(* back with the committed database and nothing else.  A push is what      *)
(* PushOutcome promises of it, which RoomPush implements.                  *)
(***************************************************************************)
EXTENDS Naturals, Sequences, FiniteSets

CONSTANTS
    Clients,     \* clients, identified by their public keys
    Msgs,        \* text messages that clients may send to the room
    Sinces,      \* values of sync_since a login may carry
    TTL,         \* config.recent_message_ttl_s
    MaxSync,     \* config.max_sync_posts
    MaxNow,      \* bound: clock ticks
    MaxLogins,   \* bound: logins handled
    MaxFaults,   \* bound: awaits that raise
    MaxCrashes   \* bound: process deaths

\* A message is identified by all that its ACK hash covers, and plain by its txt_type.
ASSUME MsgAssumption ==
    \A m \in Msgs : /\ m.author \in Clients
                    /\ m.ts \in Nat
                    /\ m.plain \in BOOLEAN

ASSUME BoundAssumption ==
    /\ Sinces \subseteq Nat
    /\ {TTL, MaxSync, MaxNow, MaxLogins, MaxFaults, MaxCrashes} \subseteq Nat

VARIABLES
    handler,   \* where the receive loop is suspended, with its locals
    sessions,  \* _sessions: the clients known to this process
    recent,    \* _recent_messages: <<message, seen_at>>
    posts,     \* table posts as the connection sees it; the id is the index
    clients,   \* table clients as the connection sees it: the rows' keys ...
    cursor,    \* ... and their last_timestamp
    disk,      \* what is committed of the three
    fans,      \* spawned fan_out tasks that have not run yet, by post id
    syncs,     \* running sync_client tasks
    pushes,    \* running push_post calls
    received,  \* <<c, x>>: client c has received the post content x
    acked,     \* messages the room has sent an ACK for
    now,       \* time.monotonic()
    budget,    \* how many logins, faults and crashes have happened
    begun,     \* history: <<c, id>> for which push_post has been called
    synced,    \* history: <<c, since>> for which sync_client has read the posts
    skipped    \* history: <<c, id>> left out by the sync limit or by an exception

store == <<posts, clients, cursor>>
tasks == <<fans, syncs, pushes>>
seen  == <<begun, synced, skipped>>
vars  == <<handler, sessions, recent, store, disk, tasks, received, acked, now, budget, seen>>

Idle == [pc |-> "idle"]

\* What room_push_ack_hash covers of a post besides the attempt.
PostContent(id) == [author |-> posts[id].msg.author, ts |-> posts[id].msg.ts,
                    text |-> posts[id].msg.text]

\* One of the bounded faults happens.
Fault == budget.faults < MaxFaults /\ budget' = [budget EXCEPT !.faults = @ + 1]

\* commit(): the connection is shared, so whatever any task has executed is
\* committed with it.
Commit == disk' = [posts |-> posts, clients |-> clients, cursor |-> cursor]

-----------------------------------------------------------------------------
Init ==
    /\ handler = Idle
    /\ sessions = {}
    /\ recent = {}
    /\ posts = <<>>
    /\ clients = {}
    /\ cursor = [c \in Clients |-> 0]
    /\ disk = [posts |-> posts, clients |-> clients, cursor |-> cursor]
    /\ fans = {}
    /\ syncs = {}
    /\ pushes = {}
    /\ received = {}
    /\ acked = {}
    /\ now = 0
    /\ budget = [logins |-> 0, faults |-> 0, crashes |-> 0]
    /\ begun = {}
    /\ synced = {}
    /\ skipped = {}

-----------------------------------------------------------------------------
(* handle_login *)

\* An accepted login: the session exists before anything is awaited.
LoginStart(c, since) ==
    /\ handler = Idle
    /\ budget.logins < MaxLogins
    /\ budget' = [budget EXCEPT !.logins = @ + 1]
    /\ sessions' = sessions \cup {c}
    /\ handler' = [pc |-> "upsert", client |-> c, since |-> since]
    /\ UNCHANGED <<recent, store, disk, tasks, received, acked, now, seen>>

\* upsert_client: a new row starts with last_timestamp 0, an old one keeps its own.
Upsert(c) ==
    /\ clients' = clients \cup {c}
    /\ cursor' = cursor

LoginUpsert ==
    /\ handler.pc = "upsert"
    /\ Upsert(handler.client)
    /\ handler' = [handler EXCEPT !.pc = "upsert_commit"]
    /\ UNCHANGED <<sessions, recent, posts, disk, tasks, received, acked, now, budget, seen>>

LoginCommit ==
    /\ handler.pc = "upsert_commit"
    /\ Commit
    /\ handler' = [handler EXCEPT !.pc = "respond"]
    /\ UNCHANGED <<sessions, recent, store, tasks, received, acked, now, budget, seen>>

\* The RESPONSE is published; only then is the sync spawned.
LoginRespond ==
    /\ handler.pc = "respond"
    /\ syncs' = syncs \cup {[n |-> budget.logins, client |-> handler.client,
                             since |-> handler.since, pc |-> "select", todo |-> {}]}
    /\ handler' = Idle
    /\ UNCHANGED <<sessions, recent, store, disk, fans, pushes, received, acked, now, budget, seen>>

-----------------------------------------------------------------------------
(* handle_post *)

\* Mutant: an entry is dropped when it is exactly as old as the TTL.
FreshStrict == {e \in recent : e[2] + TTL > now}

\* remember_message drops the entries older than the TTL ...
Fresh == {e \in recent : e[2] + TTL >= now}

\* Mutant: any recent message of the same author counts.
IsRepeatOfAuthor(m) == \E e \in Fresh : e[1].author = m.author

\* ... and remembers the message unless it is still there; a repetition does
\* not prolong the entry.
IsRepeat(m) == \E e \in Fresh : e[1] = m

PostStart(m) ==
    /\ handler = Idle
    /\ m.author \in sessions
    /\ recent' = IF IsRepeat(m) THEN Fresh ELSE Fresh \cup {<<m, now>>}
    /\ handler' = [pc |-> IF IsRepeat(m) THEN "reack" ELSE "ack", msg |-> m, at |-> now]
    /\ UNCHANGED <<sessions, store, disk, tasks, received, acked, now, budget, seen>>

\* send_post_ack for a repetition: nothing else is done.
PostReack ==
    /\ handler.pc = "reack"
    /\ acked' = acked \cup {handler.msg}
    /\ handler' = Idle
    /\ UNCHANGED <<sessions, recent, store, disk, tasks, received, now, budget, seen>>

\* send_post_ack for a new message comes before the message is stored.
PostAck ==
    /\ handler.pc = "ack"
    /\ acked' = acked \cup {handler.msg}
    /\ handler' = IF handler.msg.plain THEN [handler EXCEPT !.pc = "insert"] ELSE Idle
    /\ UNCHANGED <<sessions, recent, store, disk, tasks, received, now, budget, seen>>

\* Mutant: the fan-out is spawned before the row is committed.
InsertAndFanOut ==
    /\ handler.pc = "insert"
    /\ posts' = Append(posts, [msg |-> handler.msg, at |-> handler.at, run |-> budget.crashes])
    /\ fans' = fans \cup {Len(posts) + 1}
    /\ handler' = [handler EXCEPT !.pc = "insert_commit"]
    /\ UNCHANGED <<sessions, recent, clients, cursor, disk, syncs, pushes, received, acked, now,
                   budget, seen>>

\* A row carries, as history, when its message was first seen and by which run.
PostInsert ==
    /\ handler.pc = "insert"
    /\ posts' = Append(posts, [msg |-> handler.msg, at |-> handler.at, run |-> budget.crashes])
    /\ handler' = [handler EXCEPT !.pc = "insert_commit"]
    /\ UNCHANGED <<sessions, recent, clients, cursor, disk, tasks, received, acked, now, budget, seen>>

\* Mutant: the id handed to the fan-out is one off.
CommitOffByOne ==
    /\ handler.pc = "insert_commit"
    /\ Commit
    /\ fans' = fans \cup {Len(posts) + 1}
    /\ handler' = Idle
    /\ UNCHANGED <<sessions, recent, store, syncs, pushes, received, acked, now, budget, seen>>

\* Only the handler inserts, and it handles one packet at a time: its row is the last.
PostCommit ==
    /\ handler.pc = "insert_commit"
    /\ Commit
    /\ fans' = fans \cup {Len(posts)}
    /\ handler' = Idle
    /\ UNCHANGED <<sessions, recent, store, syncs, pushes, received, acked, now, budget, seen>>

\* An await of the handler raises and the receive loop goes on with the next
\* packet.  The statements executed so far stay in the open transaction, and
\* an ACK may have left although publish() raised.
HandlerFails ==
    /\ handler # Idle
    /\ Fault
    /\ \/ acked' = acked
       \/ handler.pc \in {"ack", "reack"} /\ acked' = acked \cup {handler.msg}
    /\ skipped' = IF handler.pc = "insert_commit"
                  THEN skipped \cup (Clients \X {Len(posts)}) ELSE skipped
    /\ handler' = Idle
    /\ UNCHANGED <<sessions, recent, store, disk, tasks, received, now, begun, synced>>

-----------------------------------------------------------------------------
(* fan_out and sync_client *)

NewPush(c, id, by) == [client |-> c, id |-> id, by |-> by, pc |-> "deliver"]

\* Mutant: a client that is being synced is left to its sync.
TargetsNotSyncing(id) == sessions \ ({posts[id].msg.author} \cup {s.client : s \in syncs})

\* fan_out runs: everyone with a session at this moment, except the author,
\* all at the same time.
FanOutTargets(id) == sessions \ {posts[id].msg.author}

FanOut(id) ==
    /\ fans' = fans \ {id}
    /\ pushes' = pushes \cup {NewPush(c, id, 0) : c \in FanOutTargets(id)}
    /\ begun' = begun \cup (FanOutTargets(id) \X {id})
    /\ UNCHANGED <<handler, sessions, recent, store, disk, syncs, received, acked, now, budget,
                   synced, skipped>>

\* posts_since: strictly newer than since, not the caller's own.
PostsSince(since, c) == {id \in 1..Len(posts) : posts[id].msg.ts > since /\ posts[id].msg.author # c}

\* ORDER BY ts, id
Before(i, j) == \/ posts[i].msg.ts < posts[j].msg.ts
                \/ posts[i].msg.ts = posts[j].msg.ts /\ i < j

\* posts[: max_sync_posts]
Truncate(ids) == {j \in ids : Cardinality({i \in ids : Before(i, j)}) < MaxSync}

SyncSelect(s) ==
    /\ s.pc = "select"
    /\ LET found == PostsSince(s.since, s.client)
       IN  /\ syncs' = (syncs \ {s}) \cup {[s EXCEPT !.pc = "push", !.todo = Truncate(found)]}
           /\ skipped' = skipped \cup ({s.client} \X (found \ Truncate(found)))
    /\ synced' = synced \cup {<<s.client, s.since>>}
    /\ UNCHANGED <<handler, sessions, recent, store, disk, fans, pushes, received, acked, now,
                   budget, begun>>

\* posts_since raises: the sync is over before it has begun.
SyncFails(s) ==
    /\ s.pc = "select"
    /\ Fault
    /\ syncs' = syncs \ {s}
    /\ UNCHANGED <<handler, sessions, recent, store, disk, fans, pushes, received, acked, now, seen>>

PushesOf(s) == {q \in pushes : q.by = s.n}

\* The posts of a sync are pushed one after the other, oldest first.
SyncNext(s) ==
    /\ s.pc = "push"
    /\ PushesOf(s) = {}
    /\ \E id \in s.todo :
          /\ \A i \in s.todo \ {id} : Before(id, i)
          /\ syncs' = (syncs \ {s}) \cup {[s EXCEPT !.todo = @ \ {id}]}
          /\ pushes' = pushes \cup {NewPush(s.client, id, s.n)}
          /\ begun' = begun \cup {<<s.client, id>>}
    /\ UNCHANGED <<handler, sessions, recent, store, disk, fans, received, acked, now, budget,
                   synced, skipped>>

SyncEnd(s) ==
    /\ s.pc = "push"
    /\ s.todo = {}
    /\ PushesOf(s) = {}
    /\ syncs' = syncs \ {s}
    /\ UNCHANGED <<handler, sessions, recent, store, disk, fans, pushes, received, acked, now,
                   budget, seen>>

-----------------------------------------------------------------------------
(* push_post, on top of PushOutcome *)

\* The client receives the post.
PushReceived(q) ==
    /\ q.pc = "deliver"
    /\ received' = received \cup {<<q.client, PostContent(q.id)>>}
    /\ UNCHANGED <<handler, sessions, recent, store, disk, tasks, acked, now, budget, seen>>

Goto(q, label) == pushes' = (pushes \ {q}) \cup {[q EXCEPT !.pc = label]}

\* Delivered: the client's cursor is to be moved.
PushAcked(q) ==
    /\ q.pc = "deliver"
    /\ <<q.client, PostContent(q.id)>> \in received
    /\ Goto(q, "update")
    /\ UNCHANGED <<handler, sessions, recent, store, disk, fans, syncs, received, acked, now,
                   budget, seen>>

\* Mutant: a push that is given up starts over.
PushStartsOver(q) ==
    /\ q.pc = "deliver"
    /\ Goto(q, "deliver")
    /\ UNCHANGED <<handler, sessions, recent, store, disk, fans, syncs, received, acked, now,
                   budget, seen>>

\* Given up: the cursor stays.
PushUnacked(q) ==
    /\ q.pc = "deliver"
    /\ pushes' = pushes \ {q}
    /\ UNCHANGED <<handler, sessions, recent, store, disk, fans, syncs, received, acked, now,
                   budget, seen>>

\* Mutant: no `AND last_timestamp < ?`.
OverwriteCursor(c, ts) == cursor' = IF c \in clients THEN [cursor EXCEPT ![c] = ts] ELSE cursor

\* set_client_cursor: UPDATE ... WHERE pubkey = ? AND last_timestamp < ?
MoveCursor(c, ts) ==
    cursor' = IF c \in clients /\ cursor[c] < ts THEN [cursor EXCEPT ![c] = ts] ELSE cursor

PushUpdate(q) ==
    /\ q.pc = "update"
    /\ MoveCursor(q.client, posts[q.id].msg.ts)
    /\ Goto(q, "commit")
    /\ UNCHANGED <<handler, sessions, recent, posts, clients, disk, fans, syncs, received, acked,
                   now, budget, seen>>

\* Mutant: the clients table is committed on its own.
PushCommitClients(q) ==
    /\ q.pc = "commit"
    /\ disk' = [disk EXCEPT !.clients = clients, !.cursor = cursor]
    /\ pushes' = pushes \ {q}
    /\ UNCHANGED <<handler, sessions, recent, store, fans, syncs, received, acked, now, budget, seen>>

PushCommit(q) ==
    /\ q.pc = "commit"
    /\ Commit
    /\ pushes' = pushes \ {q}
    /\ UNCHANGED <<handler, sessions, recent, store, fans, syncs, received, acked, now, budget, seen>>

\* An await of the push raises.  gather() keeps the exception of a fan-out's
\* push from the others; that of a sync's push ends the whole sync.
PushFails(q) ==
    /\ Fault
    /\ pushes' = pushes \ {q}
    /\ syncs' = {s \in syncs : s.n # q.by}
    /\ skipped' = skipped \cup UNION {{s.client} \X s.todo : s \in syncs \ syncs'}
    /\ UNCHANGED <<handler, sessions, recent, store, disk, fans, received, acked, now, begun, synced>>

-----------------------------------------------------------------------------
\* The process dies and is started again on the committed database.
Crash ==
    /\ budget.crashes < MaxCrashes
    /\ budget' = [budget EXCEPT !.crashes = @ + 1]
    /\ handler' = Idle
    /\ sessions' = {}
    /\ recent' = {}
    /\ posts' = disk.posts
    /\ clients' = disk.clients
    /\ cursor' = disk.cursor
    /\ fans' = {}
    /\ syncs' = {}
    /\ pushes' = {}
    /\ begun' = {}
    /\ synced' = {}
    /\ skipped' = {}
    /\ UNCHANGED <<disk, received, acked, now>>

Tick ==
    /\ now < MaxNow
    /\ now' = now + 1
    /\ UNCHANGED <<handler, sessions, recent, store, disk, tasks, received, acked, budget, seen>>

-----------------------------------------------------------------------------
HandlerStep ==
    \/ LoginUpsert
    \/ LoginCommit
    \/ LoginRespond
    \/ PostReack
    \/ PostAck
    \/ PostInsert
    \/ PostCommit

SyncStep(s) == SyncSelect(s) \/ SyncNext(s) \/ SyncEnd(s)

PushStep(q) == PushReceived(q) \/ PushAcked(q) \/ PushUnacked(q) \/ PushUpdate(q) \/ PushCommit(q)

Next ==
    \/ \E c \in Clients, since \in Sinces : LoginStart(c, since)
    \/ \E m \in Msgs : PostStart(m)
    \/ HandlerStep
    \/ HandlerFails
    \/ \E id \in fans : FanOut(id)
    \/ \E s \in syncs : SyncStep(s) \/ SyncFails(s)
    \/ \E q \in pushes : PushStep(q) \/ PushFails(q)
    \/ Crash
    \/ Tick

Spec == Init /\ [][Next]_vars

\* The event loop runs what is ready, and every push comes to an end (PushEnds
\* of RoomPush).  No fairness for the clients: none need ever receive a post.
Fairness ==
    /\ WF_vars(HandlerStep)
    /\ WF_vars(\E id \in fans : FanOut(id))
    /\ \A n \in 0..MaxLogins :
          /\ WF_vars(\E s \in syncs : s.n = n /\ SyncStep(s))
          /\ WF_vars(\E q \in pushes : /\ q.by = n
                                       /\ PushAcked(q) \/ PushUnacked(q) \/ PushUpdate(q)
                                          \/ PushCommit(q))

FairSpec == Spec /\ Fairness
-----------------------------------------------------------------------------
(* Properties *)

Row == [msg : Msgs, at : Nat, run : Nat]

\* The variables have their types; every id that a fan-out, a sync or a push
\* holds is that of a row in the table.
TypeOK ==
    /\ \/ handler = Idle
       \/ handler \in [pc : {"upsert", "upsert_commit", "respond"}, client : Clients, since : Nat]
       \/ handler \in [pc : {"reack", "ack", "insert", "insert_commit"}, msg : Msgs, at : Nat]
    /\ sessions \subseteq Clients
    /\ recent \subseteq Msgs \X Nat
    /\ posts \in Seq(Row)
    /\ clients \subseteq Clients
    /\ cursor \in [Clients -> Nat]
    /\ disk \in [posts : Seq(Row), clients : SUBSET Clients, cursor : [Clients -> Nat]]
    /\ fans \subseteq 1..Len(posts)
    /\ syncs \subseteq [n : Nat \ {0}, client : Clients, since : Nat, pc : {"select", "push"},
                       todo : SUBSET (1..Len(posts))]
    /\ pushes \subseteq [client : Clients, id : 1..Len(posts), by : Nat,
                        pc : {"deliver", "update", "commit"}]
    /\ acked \subseteq Msgs
    /\ now \in Nat
    /\ budget \in [logins : Nat, faults : Nat, crashes : Nat]

\* Nobody falls between the login sync and the fan-out: once a client's sync
\* has read the posts, every stored post newer than its sync_since and not its
\* own has been pushed to it, or a fan-out or sync that will push it is
\* pending, or it is one the sync limit or an exception left out.
NoGap ==
    \A e \in synced : \A id \in PostsSince(e[2], e[1]) :
        \/ <<e[1], id>> \in begun \cup skipped
        \/ id \in fans
        \/ handler.pc = "insert_commit" /\ id = Len(posts)
        \/ \E s \in syncs : s.client = e[1] /\ id \in s.todo

\* A client that repeats a message gets it stored once: two rows of one message
\* lie more than the TTL apart, or a restart between them.
StoredOncePerTTL ==
    \A i, j \in 1..Len(posts) :
        (i < j /\ posts[i].msg = posts[j].msg /\ posts[i].run = posts[j].run)
            => posts[i].at + TTL < posts[j].at

\* While nothing fails, an ACKed post (the ACK of a repetition included) is in
\* the database once the handler is done with it.
AckedPostKept ==
    (handler = Idle /\ budget.faults = 0 /\ budget.crashes = 0) =>
        \A m \in acked : m.plain => \E i \in 1..Len(disk.posts) : disk.posts[i].msg = m

\* A cursor on disk never runs ahead of the posts on disk: it is the timestamp
\* of a committed post of another author that the client has received, even
\* though a sync may push a post whose INSERT is not committed yet.
DurableCursorSound ==
    \A c \in Clients : disk.cursor[c] # 0 =>
        \E i \in 1..Len(disk.posts) :
            LET m == disk.posts[i].msg
            IN  /\ m.ts = disk.cursor[c]
                /\ m.author # c
                /\ <<c, [author |-> m.author, ts |-> m.ts, text |-> m.text]>> \in received

\* Pushes finish in any order, logins repeat and the process restarts, and
\* still no client's cursor on disk ever goes back.
CursorNeverGoesBack ==
    [][\A c \in Clients : disk.cursor[c] <= disk'.cursor[c]]_vars

\* What is fanned out is on disk: no crash takes back a post that the fan-out
\* has shown to the clients.
FanOutIsDurable ==
    /\ \A id \in fans : id <= Len(disk.posts)
    /\ \A q \in pushes : q.by = 0 => q.id <= Len(disk.posts)

\* Once no more clients log in, every sync comes to an end, even when its client
\* never acknowledges anything.
SyncEnds == <>[](syncs = {})

\* "stores it, ACKs it": when the handler is done, every ACKed post is in the
\* database, whatever failed on the way.
AckedImpliesStored ==
    handler = Idle =>
        \A m \in acked : m.plain => \E i \in 1..Len(disk.posts) : disk.posts[i].msg = m
=============================================================================
