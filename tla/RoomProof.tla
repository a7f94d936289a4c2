----------------------------- MODULE RoomProof -----------------------------
(***************************************************************************)
(* Proofs about Room, for every number of clients, messages and posts, any *)
(* TTL and sync limit, and any number of logins, faults and crashes.       *)
(***************************************************************************)
EXTENDS Room, TLAPS

-----------------------------------------------------------------------------
(* The inductive invariant, in groups that are proved one after the other. *)

LoginPc == {"upsert", "upsert_commit", "respond"}
PostPc  == {"reack", "ack", "insert", "insert_commit"}

\* A login that is being handled has been counted and has its session; a row
\* that waits for its commit is the last one and holds the handler's message.
HandlerSound ==
    /\ handler.pc \in LoginPc => budget.logins > 0 /\ handler.client \in sessions
    /\ handler.pc = "insert_commit" => Len(posts) > 0 /\ posts[Len(posts)].msg = handler.msg

Typed == TypeOK /\ HandlerSound

\* The committed posts are the first ones of the connection's.
DiskIsPrefix ==
    /\ Len(disk.posts) <= Len(posts)
    /\ \A i \in 1..Len(disk.posts) : disk.posts[i] = posts[i]

\* The committed cursors are not ahead of the connection's.
DiskCursorBehind == \A c \in Clients : disk.cursor[c] <= cursor[c]

Committed == DiskIsPrefix /\ DiskCursorBehind /\ FanOutIsDurable

\* What a client has received of row r.
Shown(c, r) == <<c, [author |-> r.msg.author, ts |-> r.msg.ts, text |-> r.msg.text]>> \in received

\* Row r accounts for the value t of client c's cursor.
Accounts(r, c, t) == r.msg.ts = t /\ r.msg.author # c /\ Shown(c, r)

\* A cursor of the connection is accounted for by a row, committed or not.
CursorSound ==
    \A c \in Clients : cursor[c] # 0 => \E i \in 1..Len(posts) : Accounts(posts[i], c, cursor[c])

\* Nobody is pushed a post of his own, and the cursor of a client is moved for
\* a post that the client has received.
PushSound ==
    /\ \A s \in syncs : \A id \in s.todo : posts[id].msg.author # s.client
    /\ \A q \in pushes : /\ posts[q.id].msg.author # q.client
                         /\ q.pc = "update" => Shown(q.client, posts[q.id])

Delivered == CursorSound /\ DurableCursorSound /\ PushSound

\* Who syncs or has synced in this run has a session, and a sync has nothing to
\* do before it has read the posts.
SyncSound ==
    /\ \A e \in synced : e[1] \in sessions
    /\ \A s \in syncs : s.client \in sessions /\ (s.pc = "select" => s.todo = {})

\* Post id has been pushed to client c, or is on its way there, or is one that
\* the sync limit or an exception left out.
Pending(c, id) ==
    \/ <<c, id>> \in begun \cup skipped
    \/ id \in fans
    \/ handler.pc = "insert_commit" /\ id = Len(posts)
    \/ \E s \in syncs : s.client = c /\ id \in s.todo

\* A row was stored by this run or an earlier one, and a row of this run is
\* remembered until it is older than the TTL.
RowsRemembered ==
    \A i \in 1..Len(posts) :
        /\ posts[i].run <= budget.crashes
        /\ posts[i].run = budget.crashes =>
              <<posts[i].msg, posts[i].at>> \in recent \/ posts[i].at + TTL < now

\* A message that is about to be stored is remembered as well, and every row of
\* this run that holds the same message is older than the TTL.
NewRowIsNew ==
    handler.pc \in {"ack", "insert"} =>
        /\ <<handler.msg, handler.at>> \in recent \/ handler.at + TTL < now
        /\ \A i \in 1..Len(posts) :
              (posts[i].msg = handler.msg /\ posts[i].run = budget.crashes)
                  => posts[i].at + TTL < handler.at

Remembered == RowsRemembered /\ NewRowIsNew /\ StoredOncePerTTL

Holds(rows, m) == \E i \in 1..Len(rows) : rows[i].msg = m

\* While nothing fails, a post that was ACKed or is remembered is on disk, or
\* the handler is still at it.
AckedOrHandled ==
    (budget.faults = 0 /\ budget.crashes = 0) =>
        /\ \A m \in acked : m.plain =>
              \/ Holds(disk.posts, m)
              \/ handler.pc \in {"insert", "insert_commit"} /\ handler.msg = m
        /\ \A e \in recent : e[1].plain =>
              \/ Holds(disk.posts, e[1])
              \/ handler.pc \in {"ack", "insert", "insert_commit"} /\ handler.msg = e[1]
        /\ handler.pc = "reack" /\ handler.msg.plain => Holds(disk.posts, handler.msg)

-----------------------------------------------------------------------------
(* Type correctness. *)

\* A handler that is at a login holds the client and its sync_since; one that is
\* at a message holds it and when it was seen.
LEMMA HandlerType ==
    ASSUME TypeOK
    PROVE  /\ handler.pc \in LoginPc => handler \in [pc : LoginPc, client : Clients, since : Nat]
           /\ handler.pc \in PostPc => handler \in [pc : PostPc, msg : Msgs, at : Nat]
           /\ handler.pc \notin LoginPc \cup PostPc => handler = Idle
BY DEF TypeOK, Idle, LoginPc, PostPc

\* A row holds a message, the time it was seen and the run that stored it.
LEMMA RowType ==
    ASSUME TypeOK, NEW i \in 1..Len(posts)
    PROVE  /\ posts[i].msg \in Msgs /\ posts[i].msg.ts \in Nat
           /\ posts[i].at \in Nat /\ posts[i].run \in Nat
<1>1. posts[i] \in Row
  BY DEF TypeOK
<1>2. posts[i].msg \in Msgs /\ posts[i].at \in Nat /\ posts[i].run \in Nat
  BY <1>1 DEF Row
<1> QED
  BY <1>2, MsgAssumption

\* Counting a login, a fault or a crash counts it.
LEMMA BudgetType ==
    ASSUME TypeOK
    PROVE  /\ [budget EXCEPT !.logins = @ + 1] \in [logins : Nat, faults : Nat, crashes : Nat]
           /\ [budget EXCEPT !.faults = @ + 1] \in [logins : Nat, faults : Nat, crashes : Nat]
           /\ [budget EXCEPT !.crashes = @ + 1] \in [logins : Nat, faults : Nat, crashes : Nat]
           /\ [budget EXCEPT !.logins = @ + 1].logins > 0
           /\ [budget EXCEPT !.faults = @ + 1].logins = budget.logins
           /\ [budget EXCEPT !.faults = @ + 1].faults # 0
           /\ [budget EXCEPT !.faults = @ + 1].crashes = budget.crashes
           /\ [budget EXCEPT !.logins = @ + 1].faults = budget.faults
           /\ [budget EXCEPT !.logins = @ + 1].crashes = budget.crashes
           /\ [budget EXCEPT !.crashes = @ + 1].crashes = budget.crashes + 1
<1>1. budget \in [logins : Nat, faults : Nat, crashes : Nat]
  BY DEF TypeOK
<1>2. budget.logins + 1 \in Nat /\ budget.faults + 1 \in Nat /\ budget.crashes + 1 \in Nat
  BY <1>1
<1> QED
  BY <1>1, <1>2

\* A room that has just started has well-typed state.
LEMMA InitTyped == Init => Typed
BY DEF Init, Typed, TypeOK, HandlerSound, Idle, LoginPc

\* Every step keeps the types and what is known of the handler.
LEMMA NextTyped == Typed /\ [Next]_vars => Typed'
<1> SUFFICES ASSUME Typed, [Next]_vars PROVE Typed'
  OBVIOUS
<1> USE DEF store, tasks, seen
<1>a. TypeOK /\ HandlerSound
  BY DEF Typed
<1>b. Sinces \subseteq Nat
  BY BoundAssumption
<1>1. ASSUME NEW c \in Clients, NEW since \in Sinces, LoginStart(c, since) PROVE Typed'
  <2>1. handler' \in [pc : LoginPc, client : Clients, since : Nat] /\ handler'.pc = "upsert"
    BY <1>1, <1>b DEF LoginStart, LoginPc
  <2>2. budget' \in [logins : Nat, faults : Nat, crashes : Nat] /\ budget'.logins > 0
    BY <1>1, <1>a, BudgetType DEF LoginStart
  <2>3. HandlerSound'
    BY <1>1, <2>2 DEF HandlerSound, LoginStart
  <2> QED
    BY <1>1, <1>a, <2>1, <2>2, <2>3 DEF Typed, TypeOK, LoginStart, LoginPc
<1>2. ASSUME NEW m \in Msgs, PostStart(m) PROVE Typed'
  <2>1. handler' \in [pc : PostPc, msg : Msgs, at : Nat] /\ handler'.pc \in {"ack", "reack"}
    BY <1>2, <1>a DEF PostStart, PostPc, TypeOK
  <2>2. recent' \subseteq Msgs \X Nat
    BY <1>2, <1>a DEF PostStart, TypeOK, Fresh
  <2> QED
    BY <1>2, <1>a, <2>1, <2>2 DEF Typed, TypeOK, HandlerSound, LoginPc, PostPc, PostStart
<1>3. ASSUME LoginUpsert PROVE Typed'
  <2>1. handler \in [pc : LoginPc, client : Clients, since : Nat]
    BY <1>3, <1>a, HandlerType DEF LoginUpsert, LoginPc
  <2> QED
    BY <1>3, <1>a, <2>1 DEF Typed, TypeOK, HandlerSound, LoginPc, LoginUpsert, Upsert
<1>4. ASSUME LoginCommit PROVE Typed'
  <2>1. handler \in [pc : LoginPc, client : Clients, since : Nat]
    BY <1>4, <1>a, HandlerType DEF LoginCommit, LoginPc
  <2> QED
    BY <1>4, <1>a, <2>1 DEF Typed, TypeOK, HandlerSound, LoginPc, LoginCommit, Commit
<1>5. ASSUME LoginRespond PROVE Typed'
  <2>1. handler \in [pc : LoginPc, client : Clients, since : Nat] /\ budget.logins > 0
    BY <1>5, <1>a, HandlerType DEF LoginRespond, LoginPc, HandlerSound
  <2>2. syncs' \subseteq [n : Nat \ {0}, client : Clients, since : Nat, pc : {"select", "push"},
                          todo : SUBSET (1..Len(posts))]
    BY <1>5, <1>a, <2>1 DEF LoginRespond, TypeOK
  <2> QED
    BY <1>5, <1>a, <2>2 DEF Typed, TypeOK, HandlerSound, LoginPc, LoginRespond, Idle
<1>6. ASSUME PostReack PROVE Typed'
  <2>1. handler \in [pc : PostPc, msg : Msgs, at : Nat]
    BY <1>6, <1>a, HandlerType DEF PostReack, PostPc
  <2> QED
    BY <1>6, <1>a, <2>1 DEF Typed, TypeOK, HandlerSound, LoginPc, PostReack, Idle
<1>7. ASSUME PostAck PROVE Typed'
  <2>1. handler \in [pc : PostPc, msg : Msgs, at : Nat]
    BY <1>7, <1>a, HandlerType DEF PostAck, PostPc
  <2>2. handler' = Idle \/ (handler' \in [pc : PostPc, msg : Msgs, at : Nat] /\ handler'.pc = "insert")
    BY <1>7, <2>1 DEF PostAck, PostPc
  <2> QED
    BY <1>7, <1>a, <2>1, <2>2 DEF Typed, TypeOK, HandlerSound, LoginPc, PostPc, PostAck, Idle
<1>8. ASSUME PostInsert PROVE Typed'
  <2>1. handler \in [pc : PostPc, msg : Msgs, at : Nat] /\ posts \in Seq(Row) /\ budget.crashes \in Nat
    BY <1>8, <1>a, HandlerType DEF PostInsert, PostPc, TypeOK
  <2>2. handler' \in [pc : PostPc, msg : Msgs, at : Nat] /\ handler'.pc = "insert_commit"
        /\ handler'.msg = handler.msg
    BY <1>8, <2>1 DEF PostInsert, PostPc
  <2> DEFINE row == [msg |-> handler.msg, at |-> handler.at, run |-> budget.crashes]
  <2>3. row \in Row
    BY <2>1 DEF Row
  <2>4. posts' \in Seq(Row) /\ Len(posts') = Len(posts) + 1 /\ posts'[Len(posts')] = row
    BY <1>8, <2>1, <2>3 DEF PostInsert
  <2>5. HandlerSound'
    BY <2>2, <2>4, <2>1 DEF HandlerSound, LoginPc
  <2>6. 1..Len(posts) \subseteq 1..Len(posts')
    BY <2>1, <2>4
  <2>7. /\ fans' \subseteq 1..Len(posts')
        /\ syncs' \subseteq [n : Nat \ {0}, client : Clients, since : Nat, pc : {"select", "push"},
                             todo : SUBSET (1..Len(posts'))]
        /\ pushes' \subseteq [client : Clients, id : 1..Len(posts'), by : Nat,
                              pc : {"deliver", "update", "commit"}]
    <3>1. fans' = fans /\ syncs' = syncs /\ pushes' = pushes
      BY <1>8 DEF PostInsert
    <3> HIDE <1>8
    <3> QED
      BY <3>1, <1>a, <2>6 DEF TypeOK
  <2> QED
    BY <1>8, <1>a, <2>2, <2>4, <2>5, <2>7 DEF Typed, TypeOK, PostPc, PostInsert
<1>9. ASSUME PostCommit PROVE Typed'
  <2>1. Len(posts) \in 1..Len(posts)
    BY <1>9, <1>a DEF PostCommit, HandlerSound, TypeOK
  <2> QED
    BY <1>9, <1>a, <2>1 DEF Typed, TypeOK, HandlerSound, LoginPc, PostCommit, Commit, Idle
<1>10. ASSUME HandlerFails PROVE Typed'
  <2>1. acked' \subseteq Msgs
    BY <1>10, <1>a, HandlerType DEF HandlerFails, PostPc, TypeOK
  <2>2. budget' \in [logins : Nat, faults : Nat, crashes : Nat]
    BY <1>10, <1>a, BudgetType DEF HandlerFails, Fault
  <2> QED
    BY <1>10, <1>a, <2>1, <2>2 DEF Typed, TypeOK, HandlerSound, LoginPc, HandlerFails, Idle
<1>11. ASSUME NEW id \in fans, FanOut(id) PROVE Typed'
  <2>1. pushes' \subseteq [client : Clients, id : 1..Len(posts), by : Nat,
                           pc : {"deliver", "update", "commit"}]
    BY <1>11, <1>a DEF TypeOK, FanOut, FanOutTargets, NewPush
  <2> QED
    BY <1>11, <1>a, <2>1 DEF Typed, TypeOK, HandlerSound, FanOut
<1>12. ASSUME NEW s \in syncs, SyncSelect(s) PROVE Typed'
  <2> DEFINE found == PostsSince(s.since, s.client)
  <2>1. Truncate(found) \subseteq 1..Len(posts)
    BY DEF Truncate, PostsSince
  <2>2. [s EXCEPT !.pc = "push", !.todo = Truncate(found)]
          \in [n : Nat \ {0}, client : Clients, since : Nat, pc : {"select", "push"},
               todo : SUBSET (1..Len(posts))]
    BY <1>a, <2>1 DEF TypeOK
  <2>3. syncs' \subseteq [n : Nat \ {0}, client : Clients, since : Nat, pc : {"select", "push"},
                          todo : SUBSET (1..Len(posts))]
    BY <1>12, <1>a, <2>2 DEF TypeOK, SyncSelect
  <2> QED
    BY <1>12, <1>a, <2>3 DEF Typed, TypeOK, HandlerSound, SyncSelect
<1>13. ASSUME NEW s \in syncs, SyncNext(s) PROVE Typed'
  <2>1. PICK id \in s.todo : /\ syncs' = (syncs \ {s}) \cup {[s EXCEPT !.todo = @ \ {id}]}
                             /\ pushes' = pushes \cup {NewPush(s.client, id, s.n)}
    BY <1>13 DEF SyncNext
  <2>2. /\ s \in [n : Nat \ {0}, client : Clients, since : Nat, pc : {"select", "push"},
                  todo : SUBSET (1..Len(posts))]
        /\ id \in 1..Len(posts)
    BY <1>a DEF TypeOK
  <2>3. syncs' \subseteq [n : Nat \ {0}, client : Clients, since : Nat, pc : {"select", "push"},
                          todo : SUBSET (1..Len(posts))]
    <3>1. [s EXCEPT !.todo = @ \ {id}]
            \in [n : Nat \ {0}, client : Clients, since : Nat, pc : {"select", "push"},
                 todo : SUBSET (1..Len(posts))]
      BY <2>2
    <3> QED
      BY <2>1, <3>1, <1>a DEF TypeOK
  <2>4. pushes' \subseteq [client : Clients, id : 1..Len(posts), by : Nat,
                           pc : {"deliver", "update", "commit"}]
    BY <2>1, <2>2, <1>a DEF TypeOK, NewPush
  <2> QED
    BY <1>13, <1>a, <2>3, <2>4 DEF Typed, TypeOK, HandlerSound, SyncNext
<1>14. ASSUME NEW s \in syncs, SyncEnd(s) PROVE Typed'
  BY <1>14, <1>a DEF Typed, TypeOK, HandlerSound, SyncEnd
<1>15. ASSUME NEW q \in pushes, PushReceived(q) PROVE Typed'
  BY <1>15, <1>a DEF Typed, TypeOK, HandlerSound, PushReceived
<1>16. ASSUME NEW q \in pushes, PushAcked(q) PROVE Typed'
  BY <1>16, <1>a DEF Typed, TypeOK, HandlerSound, PushAcked, Goto
<1>17. ASSUME NEW q \in pushes, PushUnacked(q) PROVE Typed'
  BY <1>17, <1>a DEF Typed, TypeOK, HandlerSound, PushUnacked
<1>18. ASSUME NEW q \in pushes, PushUpdate(q) PROVE Typed'
  <2>1. posts[q.id].msg.ts \in Nat
    <3>1. q.id \in 1..Len(posts)
      BY <1>a DEF TypeOK
    <3> QED
      BY <1>a, <3>1, RowType
  <2>2. cursor' \in [Clients -> Nat]
    BY <1>18, <1>a, <2>1 DEF TypeOK, PushUpdate, MoveCursor
  <2> QED
    BY <1>18, <1>a, <2>2 DEF Typed, TypeOK, HandlerSound, PushUpdate, Goto
<1>19. ASSUME NEW q \in pushes, PushCommit(q) PROVE Typed'
  BY <1>19, <1>a DEF Typed, TypeOK, HandlerSound, PushCommit, Commit
<1>20. ASSUME NEW q \in pushes, PushFails(q) PROVE Typed'
  <2>1. budget' \in [logins : Nat, faults : Nat, crashes : Nat] /\ budget'.logins = budget.logins
    BY <1>20, <1>a, BudgetType DEF PushFails, Fault
  <2> QED
    BY <1>20, <1>a, <2>1 DEF Typed, TypeOK, HandlerSound, PushFails
<1>21. ASSUME NEW s \in syncs, SyncFails(s) PROVE Typed'
  <2>1. budget' \in [logins : Nat, faults : Nat, crashes : Nat] /\ budget'.logins = budget.logins
    BY <1>21, <1>a, BudgetType DEF SyncFails, Fault
  <2> QED
    BY <1>21, <1>a, <2>1 DEF Typed, TypeOK, HandlerSound, SyncFails
<1>22. ASSUME Crash PROVE Typed'
  <2>1. budget' \in [logins : Nat, faults : Nat, crashes : Nat]
    BY <1>22, <1>a, BudgetType DEF Crash
  <2> QED
    BY <1>22, <1>a, <2>1 DEF Typed, TypeOK, HandlerSound, LoginPc, Crash, Idle
<1>23. ASSUME Tick PROVE Typed'
  <2>1. now' \in Nat
    BY <1>23, <1>a DEF TypeOK, Tick
  <2> QED
    BY <1>23, <1>a, <2>1 DEF Typed, TypeOK, HandlerSound, Tick
<1>24. CASE UNCHANGED vars
  BY <1>24, <1>a DEF Typed, TypeOK, HandlerSound, vars
<1> QED
  BY <1>1, <1>2, <1>3, <1>4, <1>5, <1>6, <1>7, <1>8, <1>9, <1>10, <1>11, <1>12, <1>13, <1>14,
     <1>15, <1>16, <1>17, <1>18, <1>19, <1>20, <1>21, <1>22, <1>23, <1>24
  DEF Next, HandlerStep, SyncStep, PushStep

\* The variables keep their types, and every id that a task holds is that of a
\* row, whatever fails and however often the process restarts.
THEOREM TypeCorrect == Spec => []TypeOK
<1>1. Typed => TypeOK
  BY DEF Typed
<1> QED
  BY InitTyped, NextTyped, <1>1, PTL DEF Spec

-----------------------------------------------------------------------------
(* What a step can do to the database and to the tasks. *)

\* A step leaves the database alone, or inserts a row, commits, moves a cursor,
\* or is a crash.
LEMMA StoreSteps ==
    ASSUME [Next]_vars
    PROVE  \/ UNCHANGED <<posts, cursor, disk>>
           \/ PostInsert
           \/ Commit /\ UNCHANGED <<posts, cursor>>
           \/ \E q \in pushes : PushUpdate(q)
           \/ Crash
BY DEF Next, vars, store, tasks, seen, HandlerStep, SyncStep, PushStep, LoginStart, PostStart,
       LoginUpsert, Upsert, LoginCommit, LoginRespond, PostReack, PostAck, PostCommit, HandlerFails,
       FanOut, SyncSelect, SyncNext, SyncEnd, SyncFails, PushReceived, PushAcked, PushUnacked, PushCommit,
       PushFails, Tick

\* A step at most ends tasks, unless it is one of seven that spawn one or move
\* one on.
LEMMA TaskSteps ==
    ASSUME [Next]_vars
    PROVE  \/ fans' \subseteq fans /\ syncs' \subseteq syncs /\ pushes' \subseteq pushes
           \/ LoginRespond
           \/ PostCommit
           \/ \E id \in fans : FanOut(id)
           \/ \E s \in syncs : SyncSelect(s)
           \/ \E s \in syncs : SyncNext(s)
           \/ \E q \in pushes : PushAcked(q)
           \/ \E q \in pushes : PushUpdate(q)
BY DEF Next, vars, store, tasks, seen, HandlerStep, SyncStep, PushStep, LoginStart, PostStart,
       LoginUpsert, LoginCommit, PostReack, PostAck, PostInsert, HandlerFails, SyncEnd, SyncFails,
       PushReceived, PushUnacked, PushCommit, PushFails, Crash, Tick

-----------------------------------------------------------------------------
(* What is committed. *)

\* The committed posts stay the first of all posts.
LEMMA NextPrefix == Typed /\ DiskIsPrefix /\ [Next]_vars => DiskIsPrefix'
<1> SUFFICES ASSUME Typed, DiskIsPrefix, [Next]_vars PROVE DiskIsPrefix'
  OBVIOUS
<1>a. posts \in Seq(Row) /\ disk.posts \in Seq(Row)
  BY DEF Typed, TypeOK
<1>1. CASE UNCHANGED <<posts, cursor, disk>>
  BY <1>1 DEF DiskIsPrefix
<1>2. CASE PostInsert
  <2>1. disk' = disk /\ \E r : posts' = Append(posts, r)
    BY <1>2 DEF PostInsert
  <2>2. Len(posts') = Len(posts) + 1 /\ \A i \in 1..Len(posts) : posts'[i] = posts[i]
    BY <2>1, <1>a
  <2> QED
    BY <2>1, <2>2, <1>a DEF DiskIsPrefix
<1>3. CASE Commit /\ UNCHANGED <<posts, cursor>>
  BY <1>3, <1>a DEF Commit, DiskIsPrefix
<1>4. CASE \E q \in pushes : PushUpdate(q)
  BY <1>4 DEF PushUpdate, DiskIsPrefix
<1>5. CASE Crash
  BY <1>5, <1>a DEF Crash, DiskIsPrefix
<1> QED
  BY <1>1, <1>2, <1>3, <1>4, <1>5, StoreSteps

\* The committed cursors stay behind the connection's, and none goes back.
LEMMA NextCursor ==
    Typed /\ DiskCursorBehind /\ [Next]_vars =>
        /\ DiskCursorBehind'
        /\ \A c \in Clients : disk.cursor[c] <= disk'.cursor[c]
<1> SUFFICES ASSUME Typed, DiskCursorBehind, [Next]_vars, NEW c \in Clients
             PROVE  /\ disk'.cursor[c] <= cursor'[c]
                    /\ disk.cursor[c] <= disk'.cursor[c]
  BY DEF DiskCursorBehind
<1>a. cursor \in [Clients -> Nat] /\ disk.cursor \in [Clients -> Nat] /\ disk.cursor[c] <= cursor[c]
  BY DEF Typed, TypeOK, DiskCursorBehind
<1>b. cursor[c] \in Nat /\ disk.cursor[c] \in Nat
  BY <1>a
<1>1. CASE UNCHANGED <<posts, cursor, disk>>
  BY <1>1, <1>a, <1>b
<1>2. CASE PostInsert
  BY <1>2, <1>a, <1>b DEF PostInsert
<1>3. CASE Commit /\ UNCHANGED <<posts, cursor>>
  BY <1>3, <1>a, <1>b DEF Commit
<1>4. CASE \E q \in pushes : PushUpdate(q)
  <2>1. PICK q \in pushes : PushUpdate(q)
    BY <1>4
  <2>2. posts[q.id].msg.ts \in Nat
    BY RowType DEF Typed, TypeOK
  <2>3. cursor[c] <= cursor'[c] /\ disk' = disk /\ cursor'[c] \in Nat
    BY <2>1, <2>2, <1>a, <1>b DEF PushUpdate, MoveCursor
  <2> QED
    BY <2>3, <1>a, <1>b
<1>5. CASE Crash
  BY <1>5, <1>b DEF Crash
<1> QED
  BY <1>1, <1>2, <1>3, <1>4, <1>5, StoreSteps

\* What is being fanned out stays committed.
LEMMA NextDurable ==
    Typed /\ DiskIsPrefix /\ FanOutIsDurable /\ [Next]_vars => FanOutIsDurable'
<1> SUFFICES ASSUME Typed, DiskIsPrefix, FanOutIsDurable, [Next]_vars PROVE FanOutIsDurable'
  OBVIOUS
<1>a. /\ posts \in Seq(Row) /\ disk.posts \in Seq(Row) /\ fans \subseteq 1..Len(posts)
      /\ \A q \in pushes : q.id \in 1..Len(posts)
  BY DEF Typed, TypeOK
<1>b. Len(disk.posts) <= Len(posts)
  BY DEF DiskIsPrefix
<1>c. Len(posts) \in Nat /\ Len(disk.posts) \in Nat
  BY <1>a
<1>d. ~Crash => disk' = disk \/ Commit
  BY StoreSteps DEF PostInsert, PushUpdate
<1>1. CASE Crash
  BY <1>1 DEF Crash, FanOutIsDurable
<1>2. CASE ~Crash
  <2>1. Len(disk'.posts) \in Nat /\ Len(disk.posts) <= Len(disk'.posts)
    BY <1>2, <1>b, <1>c, <1>d DEF Commit
  <2>2. \A id \in 1..Len(posts) : id <= Len(disk.posts) => id <= Len(disk'.posts)
    BY <2>1, <1>c
  <2>3. /\ \A id \in fans : id <= Len(disk'.posts)
        /\ \A q \in pushes : q.by = 0 => q.id <= Len(disk'.posts)
    BY <2>2, <1>a DEF FanOutIsDurable
  <2>4. CASE fans' \subseteq fans /\ syncs' \subseteq syncs /\ pushes' \subseteq pushes
    BY <2>3, <2>4 DEF FanOutIsDurable
  <2>5. CASE LoginRespond
    BY <2>3, <2>5 DEF FanOutIsDurable, LoginRespond
  <2>6. CASE PostCommit
    <3>1. Len(posts) <= Len(disk'.posts)
      BY <2>6, <1>c DEF PostCommit, Commit
    <3> QED
      BY <2>3, <2>6, <3>1 DEF FanOutIsDurable, PostCommit
  <2>7. CASE \E id \in fans : FanOut(id)
    BY <2>3, <2>7 DEF FanOutIsDurable, FanOut, NewPush
  <2>8. CASE \E s \in syncs : SyncSelect(s)
    BY <2>3, <2>8 DEF FanOutIsDurable, SyncSelect
  <2>9. CASE \E s \in syncs : SyncNext(s)
    <3>1. PICK s \in syncs : SyncNext(s)
      BY <2>9
    <3>2. s.n # 0
      BY DEF Typed, TypeOK
    <3> QED
      BY <2>3, <3>1, <3>2 DEF FanOutIsDurable, SyncNext, NewPush
  <2>10. ASSUME NEW q \in pushes, PushAcked(q) \/ PushUpdate(q) PROVE FanOutIsDurable'
    <3>1. q \in [client : Clients, id : 1..Len(posts), by : Nat, pc : {"deliver", "update", "commit"}]
      BY DEF Typed, TypeOK
    <3>2. PICK label : Goto(q, label) /\ fans' = fans
      BY <2>10 DEF PushAcked, PushUpdate
    <3>3. [q EXCEPT !.pc = label].by = q.by /\ [q EXCEPT !.pc = label].id = q.id
      BY <3>1
    <3> QED
      BY <2>3, <3>2, <3>3 DEF FanOutIsDurable, Goto
  <2> QED
    BY <2>4, <2>5, <2>6, <2>7, <2>8, <2>9, <2>10, TaskSteps
<1> QED
  BY <1>1, <1>2

\* The three together are an invariant.
LEMMA CommittedInvariant == Spec => [](Typed /\ Committed)
<1>1. Init => Typed /\ Committed
  BY InitTyped DEF Init, Committed, DiskIsPrefix, DiskCursorBehind, FanOutIsDurable
<1>2. (Typed /\ Committed) /\ [Next]_vars => (Typed /\ Committed)'
  BY NextTyped, NextPrefix, NextCursor, NextDurable DEF Committed
<1> QED
  BY <1>1, <1>2, PTL DEF Spec

\* A post that is fanned out, or that the fan-out is pushing, is committed.
THEOREM FanOutDurable == Spec => []FanOutIsDurable
<1>1. Committed => FanOutIsDurable
  BY DEF Committed
<1> QED
  BY <1>1, CommittedInvariant, PTL

\* No step takes a committed cursor back.
THEOREM CursorMonotone == Spec => CursorNeverGoesBack
<1>1. (Typed /\ Committed) /\ [Next]_vars
          => [\A c \in Clients : disk.cursor[c] <= disk'.cursor[c]]_vars
  BY NextCursor DEF Committed
<1> QED
  BY <1>1, CommittedInvariant, PTL DEF Spec, CursorNeverGoesBack

-----------------------------------------------------------------------------
(* What the cursors stand for. *)

\* Short of a crash, rows stay where they are.
LEMMA RowsKept ==
    ASSUME Typed, [Next]_vars, ~Crash
    PROVE  /\ posts' = posts \/ PostInsert
           /\ Len(posts) <= Len(posts')
           /\ \A i \in 1..Len(posts) : i \in 1..Len(posts') /\ posts'[i] = posts[i]
<1>a. posts \in Seq(Row)
  BY DEF Typed, TypeOK
<1>1. posts' = posts \/ PostInsert
  BY StoreSteps DEF PushUpdate
<1>2. CASE posts' = posts
  BY <1>a, <1>2
<1>3. CASE PostInsert
  <2>1. PICK r : posts' = Append(posts, r)
    BY <1>3 DEF PostInsert
  <2> QED
    BY <1>a, <1>3, <2>1
<1> QED
  BY <1>1, <1>2, <1>3

\* What a client has received, it has received.
LEMMA ReceivedGrows == [Next]_vars => received \subseteq received'
BY DEF Next, vars, store, tasks, seen, HandlerStep, SyncStep, PushStep, LoginStart, PostStart,
       LoginUpsert, Upsert, LoginCommit, LoginRespond, PostReack, PostAck, PostInsert, PostCommit,
       HandlerFails, FanOut, SyncSelect, SyncNext, SyncEnd, SyncFails, PushReceived, PushAcked, PushUnacked,
       PushUpdate, PushCommit, PushFails, Crash, Tick

\* The cursors of the connection and the committed ones stay accounted for.
LEMMA NextCursorSound ==
    Typed /\ Delivered /\ [Next]_vars => CursorSound' /\ DurableCursorSound'
<1> SUFFICES ASSUME Typed, Delivered, [Next]_vars PROVE CursorSound' /\ DurableCursorSound'
  OBVIOUS
<1>a. \A c \in Clients : cursor[c] # 0 =>
          \E i \in 1..Len(posts) : Accounts(posts[i], c, cursor[c])
  BY DEF Delivered, CursorSound
<1>b. \A c \in Clients : disk.cursor[c] # 0 =>
          \E i \in 1..Len(disk.posts) : Accounts(disk.posts[i], c, disk.cursor[c])
  BY DEF Delivered, DurableCursorSound, Accounts, Shown
<1>c. DurableCursorSound' <=> \A c \in Clients : disk'.cursor[c] # 0 =>
          \E i \in 1..Len(disk'.posts) :
              /\ disk'.posts[i].msg.ts = disk'.cursor[c]
              /\ disk'.posts[i].msg.author # c
              /\ <<c, [author |-> disk'.posts[i].msg.author, ts |-> disk'.posts[i].msg.ts,
                       text |-> disk'.posts[i].msg.text]>> \in received'
  BY DEF DurableCursorSound
<1>d. received \subseteq received'
  BY ReceivedGrows
<1>1. CASE UNCHANGED <<posts, cursor, disk>>
  BY <1>1, <1>a, <1>b, <1>c, <1>d DEF CursorSound, Accounts, Shown
<1>2. CASE PostInsert
  <2>1. disk' = disk /\ cursor' = cursor
    BY <1>2 DEF PostInsert
  <2>2. \A i \in 1..Len(posts) : i \in 1..Len(posts') /\ posts'[i] = posts[i]
    <3>1. ~Crash
      BY <1>2 DEF PostInsert, Crash, Idle, Typed, TypeOK
    <3> QED
      BY <3>1, RowsKept
  <2>3. CursorSound'
    BY <2>1, <2>2, <1>a, <1>d DEF CursorSound, Accounts, Shown
  <2>4. DurableCursorSound'
    BY <2>1, <1>b, <1>c, <1>d DEF Accounts, Shown
  <2> QED
    BY <2>3, <2>4
<1>3. CASE Commit /\ UNCHANGED <<posts, cursor>>
  BY <1>3, <1>a, <1>c, <1>d DEF CursorSound, Accounts, Shown, Commit
<1>4. CASE \E q \in pushes : PushUpdate(q)
  <2>1. PICK q \in pushes : PushUpdate(q)
    BY <1>4
  <2>2. posts' = posts /\ disk' = disk /\ received' = received
    BY <2>1 DEF PushUpdate
  <2>3. q.id \in 1..Len(posts) /\ Accounts(posts[q.id], q.client, posts[q.id].msg.ts)
    BY <2>1 DEF Delivered, PushSound, PushUpdate, Accounts, Typed, TypeOK
  <2>4. \A c \in Clients : cursor'[c] = cursor[c] \/ (c = q.client /\ cursor'[c] = posts[q.id].msg.ts)
    BY <2>1 DEF PushUpdate, MoveCursor, Typed, TypeOK
  <2>5. CursorSound'
    <3>1. SUFFICES ASSUME NEW c \in Clients, cursor'[c] # 0
                   PROVE  \E i \in 1..Len(posts) : Accounts(posts[i], c, cursor'[c])
      BY <2>2 DEF CursorSound, Accounts, Shown
    <3>2. CASE cursor'[c] = cursor[c]
      BY <3>1, <3>2, <1>a
    <3>3. CASE c = q.client /\ cursor'[c] = posts[q.id].msg.ts
      BY <3>3, <2>3
    <3> QED
      BY <3>2, <3>3, <2>4
  <2>6. DurableCursorSound'
    BY <2>2, <1>b, <1>c DEF Accounts, Shown
  <2> QED
    BY <2>5, <2>6
<1>5. CASE Crash
  BY <1>5, <1>b, <1>c, <1>d DEF CursorSound, Accounts, Shown, Crash
<1> QED
  BY <1>1, <1>2, <1>3, <1>4, <1>5, StoreSteps

\* Pushes and syncs keep to the posts of others, and an update to a received one.
LEMMA NextPushSound == Typed /\ Delivered /\ [Next]_vars => PushSound'
<1> SUFFICES ASSUME Typed, Delivered, [Next]_vars PROVE PushSound'
  OBVIOUS
<1>a. /\ \A s \in syncs : s.todo \subseteq 1..Len(posts)
      /\ \A q \in pushes : q.id \in 1..Len(posts)
      /\ \A id \in fans : id \in 1..Len(posts)
  BY DEF Typed, TypeOK
<1>b. /\ \A s \in syncs : \A id \in s.todo : posts[id].msg.author # s.client
      /\ \A q \in pushes : /\ posts[q.id].msg.author # q.client
                           /\ q.pc = "update" => Shown(q.client, posts[q.id])
  BY DEF Delivered, PushSound
<1>c. received \subseteq received'
  BY ReceivedGrows
<1>1. CASE Crash
  BY <1>1 DEF Crash, PushSound
<1>2. CASE ~Crash
  <2>1. \A i \in 1..Len(posts) : posts'[i] = posts[i]
    BY <1>2, RowsKept
  <2>2. \A s \in syncs : \A id \in s.todo : posts'[id].msg.author # s.client
    BY <2>1, <1>a, <1>b
  <2>3. \A q \in pushes :
            /\ posts'[q.id].msg.author # q.client
            /\ q.pc = "update" =>
                 <<q.client, [author |-> posts'[q.id].msg.author, ts |-> posts'[q.id].msg.ts,
                              text |-> posts'[q.id].msg.text]>> \in received'
    BY <2>1, <1>a, <1>b, <1>c DEF Shown
  <2>4. CASE fans' \subseteq fans /\ syncs' \subseteq syncs /\ pushes' \subseteq pushes
    BY <2>2, <2>3, <2>4 DEF PushSound, Shown
  <2>5. CASE LoginRespond
    BY <2>2, <2>3, <2>5 DEF PushSound, Shown, LoginRespond
  <2>6. CASE PostCommit
    BY <2>2, <2>3, <2>6 DEF PushSound, Shown, PostCommit
  <2>7. ASSUME NEW id \in fans, FanOut(id) PROVE PushSound'
    <3>1. posts'[id] = posts[id] /\ syncs' = syncs
      BY <2>1, <2>7, <1>a DEF FanOut
    <3>2. ASSUME NEW q \in pushes'
          PROVE  q \in pushes \/ \E c \in FanOutTargets(id) : q = NewPush(c, id, 0)
      BY <2>7 DEF FanOut
    <3>3. \A c \in FanOutTargets(id) : posts'[id].msg.author # c
      BY <3>1 DEF FanOutTargets
    <3> QED
      BY <2>2, <2>3, <3>1, <3>2, <3>3 DEF PushSound, Shown, NewPush
  <2>8. ASSUME NEW s \in syncs, SyncSelect(s) PROVE PushSound'
    <3> DEFINE t == [s EXCEPT !.pc = "push", !.todo = Truncate(PostsSince(s.since, s.client))]
    <3>1. syncs' = (syncs \ {s}) \cup {t} /\ posts' = posts /\ pushes' = pushes
      BY <2>8 DEF SyncSelect, store
    <3>2. t.client = s.client /\ t.todo = Truncate(PostsSince(s.since, s.client))
      BY DEF Typed, TypeOK
    <3>3. \A id \in t.todo : posts'[id].msg.author # t.client
      BY <3>1, <3>2 DEF Truncate, PostsSince
    <3> QED
      BY <2>2, <2>3, <3>1, <3>3 DEF PushSound, Shown
  <2>9. ASSUME NEW s \in syncs, SyncNext(s) PROVE PushSound'
    <3>1. PICK id \in s.todo : /\ syncs' = (syncs \ {s}) \cup {[s EXCEPT !.todo = @ \ {id}]}
                               /\ pushes' = pushes \cup {NewPush(s.client, id, s.n)}
      BY <2>9 DEF SyncNext
    <3> DEFINE t == [s EXCEPT !.todo = @ \ {id}]
    <3>2. t.client = s.client /\ t.todo \subseteq s.todo
      BY DEF Typed, TypeOK
    <3>3. posts'[id].msg.author # s.client
      BY <2>2
    <3>4. \A x \in syncs' : \A i \in x.todo : posts'[i].msg.author # x.client
      <4>1. \A i \in t.todo : posts'[i].msg.author # t.client
        BY <2>2, <3>2
      <4> HIDE DEF t
      <4>2. syncs' = (syncs \ {s}) \cup {t}
        BY <3>1 DEF t
      <4> QED
        BY <2>2, <4>1, <4>2
    <3> QED
      BY <2>3, <3>1, <3>3, <3>4 DEF PushSound, Shown, NewPush
  <2>10. ASSUME NEW q \in pushes, PushAcked(q) PROVE PushSound'
    <3> DEFINE r == [q EXCEPT !.pc = "update"]
    <3>1. r.client = q.client /\ r.id = q.id
      BY DEF Typed, TypeOK
    <3>2. pushes' = (pushes \ {q}) \cup {r} /\ syncs' = syncs /\ posts' = posts /\ received' = received
      BY <2>10 DEF PushAcked, Goto, store
    <3>3. <<q.client, [author |-> posts[q.id].msg.author, ts |-> posts[q.id].msg.ts,
                       text |-> posts[q.id].msg.text]>> \in received
      BY <2>10 DEF PushAcked, PostContent
    <3> QED
      BY <2>2, <2>3, <3>1, <3>2, <3>3 DEF PushSound, Shown
  <2>11. ASSUME NEW q \in pushes, PushUpdate(q) PROVE PushSound'
    <3> DEFINE r == [q EXCEPT !.pc = "commit"]
    <3>1. r.client = q.client /\ r.id = q.id /\ r.pc = "commit"
      BY DEF Typed, TypeOK
    <3>2. pushes' = (pushes \ {q}) \cup {r} /\ syncs' = syncs
      BY <2>11 DEF PushUpdate, Goto
    <3> QED
      BY <2>2, <2>3, <3>1, <3>2 DEF PushSound, Shown
  <2> QED
    BY <2>4, <2>5, <2>6, <2>7, <2>8, <2>9, <2>10, <2>11, TaskSteps
<1> QED
  BY <1>1, <1>2

\* A cursor on disk is the timestamp of a committed post of another author that
\* the client has received.
THEOREM CursorOnDiskSound == Spec => []DurableCursorSound
<1>1. Init => Typed /\ Delivered
  BY InitTyped DEF Init, Delivered, CursorSound, DurableCursorSound, PushSound
<1>2. (Typed /\ Delivered) /\ [Next]_vars => (Typed /\ Delivered)'
  BY NextTyped, NextCursorSound, NextPushSound DEF Delivered
<1>3. Delivered => DurableCursorSound
  BY DEF Delivered
<1> QED
  BY <1>1, <1>2, <1>3, PTL DEF Spec

-----------------------------------------------------------------------------
(* Login sync and fan-out leave no gap between them. *)

\* Sessions last as long as the process.
LEMMA SessionsGrow == [Next]_vars => Crash \/ sessions \subseteq sessions'
BY DEF Next, vars, store, tasks, seen, HandlerStep, SyncStep, PushStep, LoginStart, PostStart,
       LoginUpsert, Upsert, LoginCommit, LoginRespond, PostReack, PostAck, PostInsert, PostCommit,
       HandlerFails, FanOut, SyncSelect, SyncNext, SyncEnd, SyncFails, PushReceived, PushAcked, PushUnacked,
       PushUpdate, PushCommit, PushFails, Tick

\* Only a sync that reads the posts, or a crash, changes who has synced.
LEMMA SyncedSteps == [Next]_vars => Crash \/ synced' = synced \/ \E s \in syncs : SyncSelect(s)
BY DEF Next, vars, store, tasks, seen, HandlerStep, SyncStep, PushStep, LoginStart, PostStart,
       LoginUpsert, Upsert, LoginCommit, LoginRespond, PostReack, PostAck, PostInsert, PostCommit,
       HandlerFails, FanOut, SyncNext, SyncEnd, SyncFails, PushReceived, PushAcked, PushUnacked,
       PushUpdate, PushCommit, PushFails, Tick

\* Who syncs keeps his session.
LEMMA NextSyncSound == Typed /\ SyncSound /\ [Next]_vars => SyncSound'
<1> SUFFICES ASSUME Typed, SyncSound, [Next]_vars PROVE SyncSound'
  OBVIOUS
<1>1. CASE Crash
  BY <1>1 DEF Crash, SyncSound
<1>2. CASE ~Crash
  <2>1. sessions \subseteq sessions'
    BY <1>2, SessionsGrow
  <2>2. \A s \in syncs : s.client \in sessions' /\ (s.pc = "select" => s.todo = {})
    BY <2>1 DEF SyncSound
  <2>3. \A e \in synced : e[1] \in sessions'
    BY <2>1 DEF SyncSound
  <2>4. \A e \in synced' : e[1] \in sessions'
    <3>1. CASE synced' = synced
      BY <3>1, <2>3
    <3>2. ASSUME NEW s \in syncs, SyncSelect(s) PROVE \A e \in synced' : e[1] \in sessions'
      <4>1. synced' = synced \cup {<<s.client, s.since>>} /\ s.client \in sessions'
        BY <3>2, <2>2 DEF SyncSelect
      <4> QED
        BY <4>1, <2>3
    <3> QED
      BY <1>2, <3>1, <3>2, SyncedSteps
  <2>5. \A s \in syncs' : s.client \in sessions' /\ (s.pc = "select" => s.todo = {})
    <3>1. CASE syncs' \subseteq syncs
      BY <3>1, <2>2
    <3>2. CASE LoginRespond
      <4>1. handler.client \in sessions'
        BY <3>2, <2>1 DEF LoginRespond, Typed, HandlerSound, LoginPc
      <4> QED
        BY <3>2, <4>1, <2>2 DEF LoginRespond
    <3>3. ASSUME NEW s \in syncs, SyncSelect(s) \/ SyncNext(s)
          PROVE \A x \in syncs' : x.client \in sessions' /\ (x.pc = "select" => x.todo = {})
      <4>1. \E todo : syncs' = (syncs \ {s}) \cup {[s EXCEPT !.pc = "push", !.todo = todo]}
        <5>1. CASE SyncSelect(s)
          BY <5>1 DEF SyncSelect
        <5>2. CASE SyncNext(s)
          <6>1. PICK id : syncs' = (syncs \ {s}) \cup {[s EXCEPT !.todo = @ \ {id}]}
            BY <5>2 DEF SyncNext
          <6>2. [s EXCEPT !.todo = @ \ {id}] = [s EXCEPT !.pc = "push", !.todo = s.todo \ {id}]
            BY <5>2 DEF SyncNext, Typed, TypeOK
          <6> QED
            BY <6>1, <6>2
        <5> QED
          BY <3>3, <5>1, <5>2
      <4>2. PICK todo : syncs' = (syncs \ {s}) \cup {[s EXCEPT !.pc = "push", !.todo = todo]}
        BY <4>1
      <4>3. /\ [s EXCEPT !.pc = "push", !.todo = todo].client = s.client
            /\ [s EXCEPT !.pc = "push", !.todo = todo].pc = "push"
        BY DEF Typed, TypeOK
      <4> QED
        BY <4>2, <4>3, <2>2
    <3>4. syncs' \subseteq syncs \/ LoginRespond \/ \E s \in syncs : SyncSelect(s) \/ SyncNext(s)
      BY TaskSteps DEF PostCommit, FanOut, PushAcked, PushUpdate, store
    <3> QED
      BY <3>1, <3>2, <3>3, <3>4
  <2> QED
    BY <2>4, <2>5 DEF SyncSound
<1> QED
  BY <1>1, <1>2

\* Short of a crash, what has begun or was left out stays so; a fan-out stays
\* pending until it runs, a sync until it moves on or fails, and a row until it
\* is committed or its handler fails.
LEMMA PendingSteps ==
    ASSUME [Next]_vars, ~Crash
    PROVE  /\ begun \subseteq begun' /\ skipped \subseteq skipped'
           /\ fans \subseteq fans' \/ \E id \in fans : FanOut(id)
           /\ \/ syncs \subseteq syncs'
              \/ \E s \in syncs : SyncSelect(s) \/ SyncNext(s) \/ SyncEnd(s) \/ SyncFails(s)
              \/ \E q \in pushes : PushFails(q)
           /\ handler.pc = "insert_commit" =>
                 (handler' = handler /\ posts' = posts) \/ PostCommit \/ HandlerFails
<1>1. begun \subseteq begun' /\ skipped \subseteq skipped'
  BY DEF Next, vars, store, tasks, seen, HandlerStep, SyncStep, PushStep, LoginStart, PostStart,
         LoginUpsert, LoginCommit, LoginRespond, PostReack, PostAck, PostInsert, PostCommit,
         HandlerFails, FanOut, SyncSelect, SyncNext, SyncEnd, SyncFails, PushReceived, PushAcked, PushUnacked,
         PushUpdate, PushCommit, PushFails, Tick
<1>2. fans \subseteq fans' \/ \E id \in fans : FanOut(id)
  BY DEF Next, vars, store, tasks, seen, HandlerStep, SyncStep, PushStep, LoginStart, PostStart,
         LoginUpsert, LoginCommit, LoginRespond, PostReack, PostAck, PostInsert, PostCommit,
         HandlerFails, SyncSelect, SyncNext, SyncEnd, SyncFails, PushReceived, PushAcked, PushUnacked,
         PushUpdate, PushCommit, PushFails, Tick
<1>3. \/ syncs \subseteq syncs'
      \/ \E s \in syncs : SyncSelect(s) \/ SyncNext(s) \/ SyncEnd(s) \/ SyncFails(s)
      \/ \E q \in pushes : PushFails(q)
  BY DEF Next, vars, store, tasks, seen, HandlerStep, SyncStep, PushStep, LoginStart, PostStart,
         LoginUpsert, LoginCommit, LoginRespond, PostReack, PostAck, PostInsert, PostCommit,
         HandlerFails, FanOut, PushReceived, PushAcked, PushUnacked, PushUpdate, PushCommit, Tick
<1>4. handler.pc = "insert_commit" =>
          (handler' = handler /\ posts' = posts) \/ PostCommit \/ HandlerFails
  <2>1. SUFFICES ASSUME handler.pc = "insert_commit"
                 PROVE  (handler' = handler /\ posts' = posts) \/ PostCommit \/ HandlerFails
    OBVIOUS
  <2>2. handler # Idle
    BY <2>1 DEF Idle
  <2>3. ~HandlerStep \/ PostCommit
    BY <2>1 DEF HandlerStep, LoginUpsert, LoginCommit, LoginRespond, PostReack, PostAck, PostInsert
  <2> QED
    BY <2>2, <2>3
    DEF Next, vars, store, tasks, seen, SyncStep, PushStep, LoginStart, PostStart, FanOut,
        SyncSelect, SyncNext, SyncEnd, SyncFails, PushReceived, PushAcked, PushUnacked, PushUpdate,
        PushCommit, PushFails, Tick
<1> QED
  BY <1>1, <1>2, <1>3, <1>4

\* A post that is pending for a client with a session stays so.
LEMMA PendingKept ==
    ASSUME Typed, SyncSound, [Next]_vars, ~Crash, NEW c \in sessions,
           NEW id \in 1..Len(posts), posts[id].msg.author # c, Pending(c, id)
    PROVE  Pending(c, id)'
<1>1. CASE <<c, id>> \in begun \cup skipped
  BY <1>1, PendingSteps DEF Pending
<1>2. CASE id \in fans
  <2>1. CASE fans \subseteq fans'
    BY <1>2, <2>1 DEF Pending
  <2>2. ASSUME NEW i \in fans, FanOut(i) PROVE Pending(c, id)'
    <3>1. CASE i = id
      <4>1. c \in FanOutTargets(i)
        BY <3>1 DEF FanOutTargets
      <4> QED
        BY <2>2, <3>1, <4>1 DEF FanOut, Pending
    <3>2. CASE i # id
      BY <1>2, <2>2, <3>2 DEF FanOut, Pending
    <3> QED
      BY <3>1, <3>2
  <2> QED
    BY <2>1, <2>2, PendingSteps
<1>3. CASE handler.pc = "insert_commit" /\ id = Len(posts)
  <2>1. CASE handler' = handler /\ posts' = posts
    BY <1>3, <2>1 DEF Pending
  <2>2. CASE PostCommit
    BY <1>3, <2>2 DEF Pending, PostCommit
  <2>3. CASE HandlerFails
    <3>1. c \in Clients
      BY DEF Typed, TypeOK
    <3> QED
      BY <1>3, <2>3, <3>1 DEF Pending, HandlerFails
  <2> QED
    BY <1>3, <2>1, <2>2, <2>3, PendingSteps
<1>4. ASSUME NEW x \in syncs, x.client = c, id \in x.todo PROVE Pending(c, id)'
  <2>a. x.pc # "select"
    BY <1>4 DEF SyncSound
  <2>1. CASE syncs \subseteq syncs'
    BY <1>4, <2>1 DEF Pending
  <2>2. ASSUME NEW s \in syncs, SyncSelect(s) PROVE Pending(c, id)'
    BY <1>4, <2>a, <2>2 DEF Pending, SyncSelect
  <2>3. ASSUME NEW s \in syncs, SyncNext(s) PROVE Pending(c, id)'
    <3>1. PICK i \in s.todo : /\ syncs' = (syncs \ {s}) \cup {[s EXCEPT !.todo = @ \ {i}]}
                              /\ begun' = begun \cup {<<s.client, i>>}
      BY <2>3 DEF SyncNext
    <3>2. CASE s # x
      BY <1>4, <3>1, <3>2 DEF Pending
    <3>3. CASE s = x /\ i = id
      BY <1>4, <3>1, <3>3 DEF Pending
    <3>4. CASE s = x /\ i # id
      <4> DEFINE t == [s EXCEPT !.todo = @ \ {i}]
      <4>1. t \in syncs'
        BY <3>1
      <4>2. t.client = c /\ id \in t.todo
        BY <1>4, <3>4 DEF Typed, TypeOK
      <4> QED
        BY <4>1, <4>2 DEF Pending
    <3> QED
      BY <3>2, <3>3, <3>4
  <2>4. ASSUME NEW s \in syncs, SyncEnd(s) \/ SyncFails(s) PROVE Pending(c, id)'
    BY <1>4, <2>a, <2>4 DEF Pending, SyncEnd, SyncFails
  <2>5. ASSUME NEW q \in pushes, PushFails(q) PROVE Pending(c, id)'
    <3>1. CASE x \in syncs'
      BY <1>4, <3>1 DEF Pending
    <3>2. CASE x \notin syncs'
      <4>1. <<c, id>> \in {x.client} \X x.todo
        BY <1>4
      <4>2. <<c, id>> \in UNION {{y.client} \X y.todo : y \in syncs \ syncs'}
        BY <4>1, <3>2
      <4> QED
        BY <2>5, <4>2 DEF PushFails, Pending
    <3> QED
      BY <3>1, <3>2
  <2> QED
    BY <2>1, <2>2, <2>3, <2>4, <2>5, PendingSteps
<1> QED
  BY <1>1, <1>2, <1>3, <1>4 DEF Pending

\* Every step leaves no gap.
LEMMA NextNoGap == Typed /\ SyncSound /\ NoGap /\ [Next]_vars => NoGap'
<1> SUFFICES ASSUME Typed, SyncSound, NoGap, [Next]_vars PROVE NoGap'
  OBVIOUS
<1>1. CASE Crash
  BY <1>1 DEF Crash, NoGap
<1>2. CASE ~Crash
  <2>0. SUFFICES ASSUME NEW e \in synced', NEW id \in PostsSince(e[2], e[1])'
                 PROVE  Pending(e[1], id)'
    BY DEF NoGap, Pending
  <2>1. id \in 1..Len(posts') /\ posts'[id].msg.ts > e[2] /\ posts'[id].msg.author # e[1]
    BY <2>0 DEF PostsSince
  <2>2. CASE id \notin 1..Len(posts)
    <3>1. PostInsert
      BY <1>2, <2>1, <2>2, RowsKept
    <3>2. id = Len(posts')
      <4>1. PICK r : posts' = Append(posts, r)
        BY <3>1 DEF PostInsert
      <4> QED
        BY <2>1, <2>2, <4>1 DEF Typed, TypeOK
    <3>3. handler'.pc = "insert_commit"
      BY <3>1, HandlerType DEF PostInsert, PostPc, Typed
    <3> QED
      BY <3>2, <3>3 DEF Pending
  <2>3. CASE id \in 1..Len(posts)
    <3>1. id \in PostsSince(e[2], e[1])
      BY <1>2, <2>1, <2>3, RowsKept DEF PostsSince
    <3>2. CASE e \in synced
      <4>1. Pending(e[1], id) /\ e[1] \in sessions /\ posts[id].msg.author # e[1]
        BY <3>1, <3>2 DEF NoGap, Pending, SyncSound, PostsSince
      <4> QED
        BY <1>2, <2>3, <4>1, PendingKept
    <3>3. CASE e \notin synced
      <4>1. PICK s \in syncs : SyncSelect(s)
        BY <1>2, <3>3, SyncedSteps
      <4>2. e = <<s.client, s.since>>
        BY <3>3, <4>1 DEF SyncSelect
      <4>3. id \in PostsSince(s.since, s.client) /\ e[1] = s.client
        BY <3>1, <4>2
      <4> DEFINE found == PostsSince(s.since, s.client)
                 t     == [s EXCEPT !.pc = "push", !.todo = Truncate(found)]
      <4>4. t.client = s.client /\ t.todo = Truncate(found)
        BY DEF Typed, TypeOK
      <4>5. CASE id \in Truncate(found)
        BY <4>1, <4>3, <4>4, <4>5 DEF SyncSelect, Pending
      <4>6. CASE id \notin Truncate(found)
        BY <4>1, <4>3, <4>6 DEF SyncSelect, Pending
      <4> QED
        BY <4>5, <4>6
    <3> QED
      BY <3>2, <3>3
  <2> QED
    BY <2>2, <2>3
<1> QED
  BY <1>1, <1>2

\* Nobody falls between the login sync and the fan-out.
THEOREM NothingFallsBetween == Spec => []NoGap
<1>1. Init => Typed /\ SyncSound /\ NoGap
  BY InitTyped DEF Init, SyncSound, NoGap
<1>2. (Typed /\ SyncSound /\ NoGap) /\ [Next]_vars => (Typed /\ SyncSound /\ NoGap)'
  BY NextTyped, NextSyncSound, NextNoGap
<1> QED
  BY <1>1, <1>2, PTL DEF Spec

-----------------------------------------------------------------------------
(* A repeated message is stored once. *)

\* A step leaves rows, memory, clock and run alone, or is one of four.
LEMMA MemorySteps ==
    ASSUME Typed, [Next]_vars
    PROVE  \/ UNCHANGED <<posts, recent, now>> /\ budget'.crashes = budget.crashes
           \/ Crash
           \/ PostInsert
           \/ \E m \in Msgs : PostStart(m)
           \/ Tick
<1>a. /\ [budget EXCEPT !.logins = @ + 1].crashes = budget.crashes
      /\ [budget EXCEPT !.faults = @ + 1].crashes = budget.crashes
  BY BudgetType DEF Typed
<1> QED
  BY <1>a
  DEF Next, vars, store, tasks, seen, HandlerStep, SyncStep, PushStep, LoginStart, Fault,
      LoginUpsert, LoginCommit, LoginRespond, PostReack, PostAck, PostCommit, HandlerFails,
      FanOut, SyncSelect, SyncNext, SyncEnd, SyncFails, PushReceived, PushAcked, PushUnacked, PushUpdate,
      PushCommit, PushFails

\* The handler comes to a new message by PostStart and then only moves on with it.
LEMMA NewMessageSteps ==
    ASSUME Typed, [Next]_vars, handler'.pc \in {"ack", "insert"}
    PROVE  \/ \E m \in Msgs : PostStart(m)
           \/ /\ handler.pc \in {"ack", "insert"}
              /\ handler'.msg = handler.msg /\ handler'.at = handler.at
              /\ ~PostInsert /\ ~Crash
<1>a. handler' # Idle
  BY DEF Idle
<1>b. ~Crash /\ ~HandlerFails
  BY <1>a DEF Crash, HandlerFails
<1>1. CASE handler' = handler
  <2>1. ~PostInsert
    <3>1. SUFFICES ASSUME PostInsert PROVE FALSE
      OBVIOUS
    <3>2. handler'.pc = "insert_commit"
      BY <3>1, HandlerType DEF PostInsert, PostPc, Typed
    <3> QED
      BY <3>2
  <2> QED
    BY <1>1, <1>b, <2>1
<1>2. CASE \E c \in Clients, since \in Sinces : LoginStart(c, since)
  BY <1>2 DEF LoginStart
<1>3. CASE LoginUpsert \/ LoginCommit
  <2>1. handler.pc \in LoginPc
    BY <1>3 DEF LoginUpsert, LoginCommit, LoginPc
  <2>2. handler'.pc \in LoginPc
    BY <1>3, <2>1, HandlerType DEF LoginUpsert, LoginCommit, LoginPc, Typed
  <2> QED
    BY <2>2 DEF LoginPc
<1>4. CASE PostInsert
  <2>1. handler'.pc = "insert_commit"
    BY <1>4, HandlerType DEF PostInsert, PostPc, Typed
  <2> QED
    BY <2>1
<1>5. CASE PostAck
  <2>1. handler.pc = "ack" /\ handler \in [pc : PostPc, msg : Msgs, at : Nat]
    BY <1>5, HandlerType DEF PostAck, PostPc, Typed
  <2>2. handler' = [handler EXCEPT !.pc = "insert"]
    BY <1>5, <1>a DEF PostAck
  <2>3. ~PostInsert
    BY <2>1 DEF PostInsert
  <2> QED
    BY <2>1, <2>2, <2>3, <1>b
<1> QED
  BY <1>a, <1>b, <1>1, <1>2, <1>3, <1>4, <1>5
  DEF Next, vars, store, tasks, seen, HandlerStep, SyncStep, PushStep, LoginRespond, PostReack,
      PostCommit, FanOut, SyncSelect, SyncNext, SyncEnd, SyncFails, PushReceived, PushAcked, PushUnacked,
      PushUpdate, PushCommit, PushFails, Tick

\* What PostInsert does to the rows.
LEMMA InsertedRow ==
    ASSUME Typed, PostInsert
    PROVE  /\ Len(posts') = Len(posts) + 1
           /\ \A i \in 1..Len(posts) : posts'[i] = posts[i]
           /\ posts'[Len(posts) + 1] = [msg |-> handler.msg, at |-> handler.at, run |-> budget.crashes]
           /\ UNCHANGED <<recent, now, budget>>
           /\ handler.pc = "insert" /\ handler \in [pc : PostPc, msg : Msgs, at : Nat]
<1>1. posts \in Seq(Row)
  BY DEF Typed, TypeOK
<1>2. handler.pc = "insert" /\ handler \in [pc : PostPc, msg : Msgs, at : Nat]
  BY HandlerType DEF PostInsert, PostPc, Typed
<1> QED
  BY <1>1, <1>2 DEF PostInsert

\* The rows of this run stay remembered.
LEMMA NextRowsRemembered ==
    Typed /\ DiskIsPrefix /\ Remembered /\ [Next]_vars => RowsRemembered'
<1> SUFFICES ASSUME Typed, DiskIsPrefix, Remembered, [Next]_vars, NEW i \in 1..Len(posts')
             PROVE  /\ posts'[i].run <= budget'.crashes
                    /\ posts'[i].run = budget'.crashes =>
                         <<posts'[i].msg, posts'[i].at>> \in recent' \/ posts'[i].at + TTL < now'
  BY DEF RowsRemembered
<1>a. /\ posts \in Seq(Row) /\ disk.posts \in Seq(Row)
      /\ budget.crashes \in Nat /\ now \in Nat /\ TTL \in Nat
  BY BoundAssumption DEF Typed, TypeOK
<1>b. ASSUME NEW j \in 1..Len(posts)
      PROVE  /\ posts[j].run <= budget.crashes
             /\ posts[j].run = budget.crashes =>
                  <<posts[j].msg, posts[j].at>> \in recent \/ posts[j].at + TTL < now
             /\ posts[j].at \in Nat /\ posts[j].run \in Nat
  BY RowType DEF Remembered, RowsRemembered, Typed
<1>1. CASE UNCHANGED <<posts, recent, now>> /\ budget'.crashes = budget.crashes
  BY <1>1, <1>b
<1>2. CASE Crash
  <2>1. budget'.crashes = budget.crashes + 1 /\ posts' = disk.posts
    BY <1>2, BudgetType DEF Crash, Typed
  <2>2. i \in 1..Len(posts) /\ posts'[i] = posts[i]
    BY <2>1, <1>a DEF DiskIsPrefix
  <2>3. posts'[i].run \in Nat /\ posts'[i].run <= budget.crashes
    BY <2>2, <1>b
  <2> QED
    BY <2>1, <2>3, <1>a
<1>3. CASE PostInsert
  <2>1. CASE i \in 1..Len(posts)
    BY <1>3, <2>1, <1>b, InsertedRow
  <2>2. CASE i = Len(posts) + 1
    <3>1. /\ posts'[i].msg = handler.msg /\ posts'[i].at = handler.at
          /\ posts'[i].run = budget.crashes /\ handler.pc = "insert"
          /\ UNCHANGED <<recent, now, budget>>
      BY <1>3, <2>2, InsertedRow
    <3>2. <<handler.msg, handler.at>> \in recent \/ handler.at + TTL < now
      BY <3>1 DEF Remembered, NewRowIsNew
    <3> QED
      BY <3>1, <3>2, <1>a
  <2> QED
    BY <1>3, <2>1, <2>2, <1>a, InsertedRow
<1>4. ASSUME NEW m \in Msgs, PostStart(m)
      PROVE  /\ posts'[i].run <= budget'.crashes
             /\ posts'[i].run = budget'.crashes =>
                  <<posts'[i].msg, posts'[i].at>> \in recent' \/ posts'[i].at + TTL < now'
  <2>1. UNCHANGED <<posts, now, budget>> /\ Fresh \subseteq recent'
    BY <1>4 DEF PostStart, store
  <2>2. i \in 1..Len(posts) /\ posts'[i] = posts[i]
    BY <2>1
  <2>3. <<posts[i].msg, posts[i].at>> \in recent =>
            <<posts[i].msg, posts[i].at>> \in Fresh \/ posts[i].at + TTL < now
    BY <2>2, <1>a, <1>b DEF Fresh
  <2> QED
    BY <2>1, <2>2, <2>3, <1>b
<1>5. CASE Tick
  <2>1. UNCHANGED <<posts, recent, budget>> /\ now' = now + 1
    BY <1>5 DEF Tick, store
  <2> QED
    BY <2>1, <1>a, <1>b
<1> QED
  BY <1>1, <1>2, <1>3, <1>4, <1>5, MemorySteps

\* What is about to be stored stays new.
LEMMA NextNewRow == Typed /\ Remembered /\ [Next]_vars => NewRowIsNew'
<1> SUFFICES ASSUME Typed, Remembered, [Next]_vars, handler'.pc \in {"ack", "insert"}
             PROVE  /\ <<handler'.msg, handler'.at>> \in recent' \/ handler'.at + TTL < now'
                    /\ \A i \in 1..Len(posts') :
                          (posts'[i].msg = handler'.msg /\ posts'[i].run = budget'.crashes)
                              => posts'[i].at + TTL < handler'.at
  BY DEF NewRowIsNew
<1>a. posts \in Seq(Row) /\ budget.crashes \in Nat /\ now \in Nat /\ TTL \in Nat
  BY BoundAssumption DEF Typed, TypeOK
<1>1. ASSUME NEW m \in Msgs, PostStart(m)
      PROVE  /\ <<handler'.msg, handler'.at>> \in recent' \/ handler'.at + TTL < now'
             /\ \A i \in 1..Len(posts') :
                   (posts'[i].msg = handler'.msg /\ posts'[i].run = budget'.crashes)
                       => posts'[i].at + TTL < handler'.at
  <2>1. handler' = [pc |-> "ack", msg |-> m, at |-> now] /\ ~IsRepeat(m)
        /\ recent' = Fresh \cup {<<m, now>>} /\ UNCHANGED <<posts, now, budget>>
    BY <1>1 DEF PostStart, store
  <2>2. ASSUME NEW i \in 1..Len(posts), posts[i].msg = m, posts[i].run = budget.crashes
        PROVE  posts[i].at + TTL < now
    <3>1. posts[i].at \in Nat
      BY RowType DEF Typed
    <3>2. <<m, posts[i].at>> \in recent \/ posts[i].at + TTL < now
      BY <2>2 DEF Remembered, RowsRemembered
    <3>3. <<m, posts[i].at>> \notin Fresh
      BY <2>1 DEF IsRepeat
    <3> QED
      BY <3>1, <3>2, <3>3, <1>a DEF Fresh
  <2> QED
    BY <2>1, <2>2
<1>2. CASE /\ handler.pc \in {"ack", "insert"}
           /\ handler'.msg = handler.msg /\ handler'.at = handler.at
           /\ ~PostInsert /\ ~Crash
  <2>1. ~\E m \in Msgs : PostStart(m)
    BY <1>2 DEF PostStart, Idle
  <2>2. /\ UNCHANGED <<posts, recent>> /\ budget'.crashes = budget.crashes
        /\ now' = now \/ now' = now + 1
    BY <1>2, <2>1, MemorySteps DEF Tick, store
  <2>3. handler.at \in Nat
    BY <1>2, HandlerType DEF PostPc, Typed
  <2>4. /\ <<handler.msg, handler.at>> \in recent \/ handler.at + TTL < now
        /\ \A i \in 1..Len(posts) :
              (posts[i].msg = handler.msg /\ posts[i].run = budget.crashes)
                  => posts[i].at + TTL < handler.at
    BY <1>2 DEF Remembered, NewRowIsNew
  <2>5. handler.at + TTL < now => handler.at + TTL < now'
    BY <1>a, <2>2, <2>3
  <2> QED
    BY <1>2, <2>2, <2>4, <2>5
<1> QED
  BY <1>1, <1>2, NewMessageSteps

\* No step stores a message a second time within the TTL.
LEMMA NextStoredOnce ==
    Typed /\ DiskIsPrefix /\ Remembered /\ [Next]_vars => StoredOncePerTTL'
<1> SUFFICES ASSUME Typed, DiskIsPrefix, Remembered, [Next]_vars,
                    NEW i \in 1..Len(posts'), NEW j \in 1..Len(posts'),
                    i < j, posts'[i].msg = posts'[j].msg, posts'[i].run = posts'[j].run
             PROVE  posts'[i].at + TTL < posts'[j].at
  BY DEF StoredOncePerTTL
<1>a. posts \in Seq(Row) /\ disk.posts \in Seq(Row) /\ Len(posts) \in Nat
  BY DEF Typed, TypeOK
<1>b. StoredOncePerTTL
  BY DEF Remembered
<1>1. CASE Crash
  <2>1. posts' = disk.posts
    BY <1>1 DEF Crash
  <2>2. i \in 1..Len(posts) /\ j \in 1..Len(posts) /\ posts'[i] = posts[i] /\ posts'[j] = posts[j]
    BY <2>1, <1>a DEF DiskIsPrefix
  <2> QED
    BY <2>2, <1>b DEF StoredOncePerTTL
<1>2. CASE posts' = posts
  BY <1>2, <1>b DEF StoredOncePerTTL
<1>3. CASE PostInsert
  <2>1. CASE j \in 1..Len(posts)
    <3>1. i \in 1..Len(posts)
      BY <2>1
    <3>2. posts'[i] = posts[i] /\ posts'[j] = posts[j]
      BY <1>3, <2>1, <3>1, InsertedRow
    <3>3. posts[i].msg = posts[j].msg /\ posts[i].run = posts[j].run
      BY <3>2
    <3> QED
      BY <2>1, <3>1, <3>2, <3>3, <1>b DEF StoredOncePerTTL
  <2>2. CASE j = Len(posts) + 1
    <3>1. i \in 1..Len(posts) /\ posts'[i] = posts[i]
      BY <1>3, <2>2, <1>a, InsertedRow
    <3>2. /\ posts'[j].msg = handler.msg /\ posts'[j].at = handler.at
          /\ posts'[j].run = budget.crashes /\ handler.pc = "insert"
      BY <1>3, <2>2, InsertedRow
    <3> QED
      BY <3>1, <3>2 DEF Remembered, NewRowIsNew
  <2>3. Len(posts') = Len(posts) + 1
    BY <1>3, InsertedRow
  <2> QED
    BY <2>1, <2>2, <2>3, <1>a
<1> QED
  BY <1>1, <1>2, <1>3, RowsKept

\* A message that is repeated within the TTL is stored once per run.
THEOREM StoredOnce == Spec => []StoredOncePerTTL
<1>1. Init => Remembered
  BY DEF Init, Remembered, RowsRemembered, NewRowIsNew, StoredOncePerTTL, Idle
<1>2. Remembered /\ (Typed /\ Committed) /\ [Next]_vars => Remembered'
  BY NextRowsRemembered, NextNewRow, NextStoredOnce DEF Remembered, Committed
<1>3. Remembered => StoredOncePerTTL
  BY DEF Remembered
<1> QED
  BY <1>1, <1>2, <1>3, CommittedInvariant, PTL DEF Spec

-----------------------------------------------------------------------------
(* An ACKed post is stored, while nothing fails. *)

\* A row that is on disk stays there.
LEMMA HeldIsKept ==
    ASSUME Typed, DiskIsPrefix, [Next]_vars, NEW m, Holds(disk.posts, m)
    PROVE  Holds(disk'.posts, m)
<1>1. PICK i \in 1..Len(disk.posts) : disk.posts[i].msg = m
  BY DEF Holds
<1>2. i \in 1..Len(posts) /\ posts[i] = disk.posts[i]
  BY DEF DiskIsPrefix, Typed, TypeOK
<1>3. disk' = disk \/ Commit
  BY StoreSteps DEF PostInsert, PushUpdate, Crash
<1> QED
  BY <1>1, <1>2, <1>3 DEF Holds, Commit

\* What a step does to the handler, to the ACKs and to the memory.
LEMMA HandlerSteps ==
    ASSUME [Next]_vars
    PROVE  \/ UNCHANGED <<handler, acked, recent>>
           \/ \E c \in Clients, since \in Sinces : LoginStart(c, since)
           \/ \E m \in Msgs : PostStart(m)
           \/ HandlerStep
           \/ HandlerFails
           \/ Crash
BY DEF Next, vars, store, tasks, seen, SyncStep, PushStep, FanOut, SyncSelect, SyncNext, SyncEnd, SyncFails,
       PushReceived, PushAcked, PushUnacked, PushUpdate, PushCommit, PushFails, Tick

\* If nothing has failed after a step, nothing had before it.
LEMMA QuietBefore ==
    ASSUME Typed, [Next]_vars, budget'.faults = 0, budget'.crashes = 0
    PROVE  budget.faults = 0 /\ budget.crashes = 0 /\ ~HandlerFails /\ ~Crash
<1>1. budget.faults \in Nat /\ budget.crashes \in Nat
  BY DEF Typed, TypeOK
<1>2. /\ [budget EXCEPT !.logins = @ + 1].faults = budget.faults
      /\ [budget EXCEPT !.logins = @ + 1].crashes = budget.crashes
      /\ [budget EXCEPT !.faults = @ + 1].faults # 0
      /\ [budget EXCEPT !.crashes = @ + 1].crashes = budget.crashes + 1
  BY BudgetType DEF Typed
<1>3. ~Fault /\ ~Crash
  <2>1. budget.crashes + 1 # 0
    BY <1>1
  <2> QED
    BY <1>2, <2>1 DEF Fault, Crash
<1>4. ~HandlerFails /\ (\A q \in pushes : ~PushFails(q)) /\ \A s \in syncs : ~SyncFails(s)
  BY <1>3 DEF HandlerFails, PushFails, SyncFails
<1>5. budget' = budget \/ budget' = [budget EXCEPT !.logins = @ + 1]
  BY <1>3, <1>4
  DEF Next, vars, store, tasks, seen, HandlerStep, SyncStep, PushStep, LoginStart, PostStart,
      LoginUpsert, LoginCommit, LoginRespond, PostReack, PostAck, PostInsert, PostCommit,
      FanOut, SyncSelect, SyncNext, SyncEnd, PushReceived, PushAcked, PushUnacked, PushUpdate,
      PushCommit, Tick
<1> QED
  BY <1>2, <1>3, <1>4, <1>5

\* Every step keeps an ACKed or remembered post on disk or in the handler.
LEMMA NextAcked == Typed /\ DiskIsPrefix /\ AckedOrHandled /\ [Next]_vars => AckedOrHandled'
<1> DEFINE Goal ==
      /\ \A m \in acked' : m.plain =>
            \/ Holds(disk'.posts, m)
            \/ handler'.pc \in {"insert", "insert_commit"} /\ handler'.msg = m
      /\ \A e \in recent' : e[1].plain =>
            \/ Holds(disk'.posts, e[1])
            \/ handler'.pc \in {"ack", "insert", "insert_commit"} /\ handler'.msg = e[1]
      /\ handler'.pc = "reack" /\ handler'.msg.plain => Holds(disk'.posts, handler'.msg)
<1> SUFFICES ASSUME Typed, DiskIsPrefix, AckedOrHandled, [Next]_vars,
                    budget'.faults = 0, budget'.crashes = 0
             PROVE  Goal
  BY DEF AckedOrHandled
<1>a. budget.faults = 0 /\ budget.crashes = 0 /\ ~HandlerFails /\ ~Crash
  BY QuietBefore
<1>b. /\ \A m \in acked : m.plain =>
            Holds(disk.posts, m) \/ (handler.pc \in {"insert", "insert_commit"} /\ handler.msg = m)
      /\ \A e \in recent : e[1].plain =>
            \/ Holds(disk.posts, e[1])
            \/ handler.pc \in {"ack", "insert", "insert_commit"} /\ handler.msg = e[1]
      /\ handler.pc = "reack" /\ handler.msg.plain => Holds(disk.posts, handler.msg)
  BY <1>a DEF AckedOrHandled
<1>c. \A m : Holds(disk.posts, m) => Holds(disk'.posts, m)
  BY HeldIsKept
<1>1. CASE UNCHANGED <<handler, acked, recent>>
  BY <1>1, <1>b, <1>c
<1>2. CASE \E c \in Clients, since \in Sinces : LoginStart(c, since)
  <2>1. handler.pc = "idle" /\ handler'.pc = "upsert" /\ UNCHANGED <<acked, recent>>
    BY <1>2 DEF LoginStart, Idle
  <2> QED
    BY <2>1, <1>b, <1>c
<1>3. ASSUME NEW m \in Msgs, PostStart(m) PROVE Goal
  <2>1. handler.pc = "idle" /\ acked' = acked
    BY <1>3 DEF PostStart, Idle
  <2>2. handler'.msg = m /\ handler'.pc = (IF IsRepeat(m) THEN "reack" ELSE "ack")
    BY <1>3 DEF PostStart
  <2>3. \A e \in recent' : e \in recent \/ (~IsRepeat(m) /\ e = <<m, now>>)
    BY <1>3 DEF PostStart, Fresh
  <2>4. IsRepeat(m) => \E e \in recent : e[1] = m
    BY DEF IsRepeat, Fresh
  <2>5. \A e \in recent' : e[1].plain =>
            Holds(disk'.posts, e[1]) \/ (handler'.pc = "ack" /\ handler'.msg = e[1])
    BY <2>1, <2>2, <2>3, <1>b, <1>c
  <2> QED
    BY <2>1, <2>2, <2>4, <2>5, <1>b, <1>c
<1>4. CASE LoginUpsert \/ LoginCommit \/ LoginRespond
  <2>1. handler.pc \in LoginPc /\ UNCHANGED <<acked, recent>>
    BY <1>4 DEF LoginUpsert, LoginCommit, LoginRespond, LoginPc
  <2>2. handler'.pc \in LoginPc \/ handler'.pc = "idle"
    BY <1>4, <2>1, HandlerType DEF LoginUpsert, LoginCommit, LoginRespond, LoginPc, Idle, Typed
  <2> QED
    BY <2>1, <2>2, <1>b, <1>c DEF LoginPc
<1>5. CASE PostReack
  <2>1. handler.pc = "reack" /\ handler'.pc = "idle" /\ recent' = recent
        /\ acked' = acked \cup {handler.msg}
    BY <1>5 DEF PostReack, Idle
  <2> QED
    BY <2>1, <1>b, <1>c
<1>6. CASE PostAck
  <2>1. /\ handler.pc = "ack" /\ recent' = recent /\ acked' = acked \cup {handler.msg}
        /\ handler \in [pc : PostPc, msg : Msgs, at : Nat]
    BY <1>6, HandlerType DEF PostAck, PostPc, Typed
  <2>2. CASE handler.msg.plain
    <3>1. handler'.pc = "insert" /\ handler'.msg = handler.msg
      BY <1>6, <2>1, <2>2 DEF PostAck
    <3> QED
      BY <2>1, <3>1, <1>b, <1>c
  <2>3. CASE ~handler.msg.plain
    <3>1. handler'.pc = "idle"
      BY <1>6, <2>3 DEF PostAck, Idle
    <3> QED
      BY <2>1, <2>3, <3>1, <1>b, <1>c
  <2> QED
    BY <2>2, <2>3
<1>7. CASE PostInsert
  <2>1. handler.pc = "insert" /\ handler'.pc = "insert_commit" /\ handler'.msg = handler.msg
        /\ UNCHANGED <<acked, recent>>
    BY <1>7, HandlerType DEF PostInsert, PostPc, Typed
  <2> QED
    BY <2>1, <1>b, <1>c
<1>8. CASE PostCommit
  <2>1. handler.pc = "insert_commit" /\ handler'.pc = "idle" /\ UNCHANGED <<acked, recent>>
        /\ disk'.posts = posts
    BY <1>8 DEF PostCommit, Commit, Idle
  <2>2. Len(posts) \in 1..Len(posts) /\ posts[Len(posts)].msg = handler.msg
    BY <2>1 DEF Typed, TypeOK, HandlerSound
  <2>3. \A m : m = handler.msg => Holds(disk'.posts, m)
    BY <2>1, <2>2 DEF Holds
  <2> QED
    BY <2>1, <2>3, <1>b, <1>c
<1> QED
  BY <1>a, <1>1, <1>2, <1>3, <1>4, <1>5, <1>6, <1>7, <1>8, HandlerSteps DEF HandlerStep

\* While nothing fails, an ACKed post is in the database when the handler is
\* done with it, although the ACK leaves first.
THEOREM AckedIsKept == Spec => []AckedPostKept
<1>1. Init => AckedOrHandled
  BY DEF Init, AckedOrHandled, Idle
<1>2. AckedOrHandled /\ (Typed /\ Committed) /\ [Next]_vars => AckedOrHandled'
  BY NextAcked DEF Committed
<1>3. AckedOrHandled => AckedPostKept
  BY DEF AckedOrHandled, AckedPostKept, Holds, Idle
<1> QED
  BY <1>1, <1>2, <1>3, CommittedInvariant, PTL DEF Spec
=============================================================================
