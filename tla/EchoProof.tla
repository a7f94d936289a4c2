----------------------------- MODULE EchoProof -----------------------------
(***************************************************************************)
(* Proofs about Echo, for every set of senders, adverts and messages, any  *)
(* TTL and reply delay, and any number of faults and crashes.              *)
(***************************************************************************)
EXTENDS Echo, TLAPS

-----------------------------------------------------------------------------
(* The inductive invariant, in groups that are proved one after the other. *)

\* A process that is down has forgotten the timestamps of the adverts.
DownForgets == handler = Down => \A s \in Senders : advertTs[s] = NoTs

\* The tasks of this process: those that sleep and those that have replied.
Spawned == tasks \cup {e.task : e \in echoed}

\* A message that is being handled was seen before now, and is remembered until
\* it is older than the TTL; so is the message of every task.
MessagesRemembered ==
    /\ handler.pc \in {"ack", "reack"} => handler.at <= now
    /\ handler.pc = "ack" =>
          [msg |-> handler.packet.msg, at |-> handler.at] \in recent \/ handler.at + TTL < now
    /\ \A t \in Spawned : t.at <= now /\ ([msg |-> t.msg, at |-> t.at] \in recent \/ t.at + TTL < now)

Apart(s, t) == s.at + TTL < t.at \/ t.at + TTL < s.at

\* Tasks of one message lie more than the TTL apart, and a message that is about
\* to get its task more than the TTL after all of them.
TasksApart ==
    /\ \A s, t \in tasks : s # t /\ s.msg = t.msg => Apart(s, t)
    /\ \A e, f \in echoed : e.task # f.task /\ e.task.msg = f.task.msg => Apart(e.task, f.task)
    /\ \A t \in tasks, e \in echoed : t.msg = e.task.msg => Apart(t, e.task)
    /\ handler.pc = "ack" =>
          \A t \in Spawned : t.msg = handler.packet.msg => t.at + TTL < handler.at

Once == MessagesRemembered /\ TasksApart

\* A path is kept only for a message that is remembered.
PathsHaveMessages == \A q \in paths : \E e \in recent : e.msg = q.msg

\* A path was recorded after the message of a task, or of the handler that is
\* about to spawn one, had arrived.
PathsFresh ==
    /\ \A t \in tasks, q \in paths : q.msg = t.msg => q.at >= t.at
    /\ handler.pc = "ack" => \A q \in paths : q.msg = handler.packet.msg => q.at >= handler.at

FreshPaths == PathsHaveMessages /\ PathsFresh /\ ReplyPathFresh

\* Within the TTL the longest path is there, unless the message had expired and
\* come back.
LongestKept ==
    /\ \A t \in tasks : (~t.again /\ now <= t.at + TTL) =>
          \E q \in paths : q.msg = t.msg /\ q.hops = t.longest
    /\ (handler.pc = "ack" /\ ~handler.again) =>
          \E q \in paths : q.msg = handler.packet.msg /\ q.hops = handler.packet.hops

\* The message has its task, or an exception has ended its handling.
Accounted(m) == m \in failed \/ \E t \in Spawned : t.msg = m

\* A message that was ACKed or is remembered has its task, or gets it when the
\* handler moves on, unless an exception has ended its handling.
AckedOrHandled ==
    /\ \A m \in acked : Accounted(m)
    /\ \A e \in recent : Accounted(e.msg) \/ (handler.pc = "ack" /\ handler.packet.msg = e.msg)
    /\ handler.pc = "reack" => Accounted(handler.packet.msg)

-----------------------------------------------------------------------------
(* Type correctness. *)

ContactBook == [Senders -> Names \cup {Unknown}]
CacheFile   == {Missing, Torn} \cup {Saved(c) : c \in ContactBook}
Entry       == [msg : Texts, at : Nat]
Busy        == [pc : {"ack", "reack"}, packet : Packets, at : Nat, again : BOOLEAN]
Answer      == [task : Task, path : Path, when : Nat]

\* An advert names a sender, a timestamp and a name; a copy its message and hops.
LEMMA InputType ==
    /\ \A a \in Adverts : a.sender \in Senders /\ a.ts \in Nat /\ a.name \in Names
    /\ \A k \in Packets : k.msg.sender \in Senders /\ k.hops \in Nat /\ k.msg \in Texts
    /\ TTL \in Nat /\ Delay \in Nat
BY EchoAssumption DEF Names, Texts

\* A loaded name is a name, and loading it again changes nothing.
LEMMA LoadedNameFacts ==
    \A n \in Names \cup {Unknown} :
        LoadedName(n) \in Names \cup {Unknown} /\ LoadedName(LoadedName(n)) = LoadedName(n)
BY DEF LoadedName, Names, Unknown

\* Loading a cache file gives a contact book, and so does starting from one.
LEMMA LoadedType ==
    ASSUME NEW file \in CacheFile
    PROVE  /\ Loaded(file) \in ContactBook
           /\ StartContacts(file) \in ContactBook
           /\ StartCache(file) \in CacheFile
<1>1. NoContacts \in ContactBook
  BY DEF NoContacts, ContactBook
<1>2. \A c \in ContactBook : [s \in Senders |-> LoadedName(c[s])] \in ContactBook
  BY LoadedNameFacts DEF ContactBook
<1>3. file.state = "ok" => \E c \in ContactBook : file = Saved(c) /\ file.rows = c
  BY DEF CacheFile, Missing, Torn, Saved
<1>4. Loaded(file) \in ContactBook
  BY <1>1, <1>2, <1>3 DEF Loaded
<1>5. "configured" \in Names
  BY DEF Names
<1>6. StartContacts(file) \in ContactBook
  BY <1>4, <1>5 DEF StartContacts, ContactBook
<1> QED
  BY <1>4, <1>6 DEF StartCache, CacheFile

\* Which cases of the handler there are.
LEMMA HandlerType ==
    ASSUME TypeOK
    PROVE  /\ handler.pc \in {"ack", "reack"} => handler \in Busy
           /\ handler.pc = "idle" => handler = Idle
           /\ handler \in {Idle, Down} => handler.pc \notin {"ack", "reack"}
BY DEF TypeOK, Idle, Down, Busy

\* Counting a fault or a crash counts it.
LEMMA BudgetType ==
    ASSUME TypeOK
    PROVE  /\ [budget EXCEPT !.faults = @ + 1] \in [faults : Nat, crashes : Nat]
           /\ [budget EXCEPT !.crashes = @ + 1] \in [faults : Nat, crashes : Nat]
<1>1. budget \in [faults : Nat, crashes : Nat]
  BY DEF TypeOK
<1>2. budget.faults + 1 \in Nat /\ budget.crashes + 1 \in Nat
  BY <1>1
<1> QED
  BY <1>1, <1>2

\* What a copy of the message does to a task: the longest path may grow.
Bump(t, k) == IF t.msg = k.msg /\ t.longest < k.hops THEN [t EXCEPT !.longest = k.hops] ELSE t

\* Nothing else of the task changes.
LEMMA BumpFacts ==
    ASSUME NEW t \in Task, NEW k \in Packets
    PROVE  /\ Bump(t, k) \in Task
           /\ Bump(t, k).msg = t.msg /\ Bump(t, k).at = t.at /\ Bump(t, k).again = t.again
           /\ Bump(t, k).longest = IF t.msg = k.msg /\ t.longest < k.hops THEN k.hops ELSE t.longest
<1>1. k.hops \in Nat
  BY InputType
<1> QED
  BY <1>1 DEF Bump, Task

\* RememberPath and DropPaths keep one path per message.
LEMMA PathsType ==
    ASSUME TypeOK, NEW k \in Packets
    PROVE  /\ DropPaths(RememberPath(k)) \subseteq Path
           /\ \A p, q \in DropPaths(RememberPath(k)) : p.msg = q.msg => p = q
<1>1. [msg |-> k.msg, hops |-> k.hops, at |-> now] \in Path
  BY InputType DEF Path, TypeOK
<1>2. RememberPath(k) \subseteq Path /\ \A p, q \in RememberPath(k) : p.msg = q.msg => p = q
  BY <1>1 DEF RememberPath, TypeOK
<1> QED
  BY <1>2 DEF DropPaths

\* The path of a reply is a path.
LEMMA BestPathType ==
    ASSUME TypeOK, NEW t \in tasks
    PROVE  /\ BestPath(t) \in Path
           /\ \/ BestPath(t) \in paths /\ BestPath(t).msg = t.msg
              \/ /\ \A q \in paths : q.msg # t.msg
                 /\ BestPath(t) = [msg |-> t.msg, hops |-> t.hops, at |-> t.at]
<1>1. t \in Task /\ paths \subseteq Path
  BY DEF TypeOK
<1>2. CASE \E q \in paths : q.msg = t.msg
  <2> DEFINE best == CHOOSE q \in paths : q.msg = t.msg
  <2>1. best \in paths /\ best.msg = t.msg
    BY <1>2
  <2> QED
    BY <1>1, <1>2, <2>1 DEF BestPath
<1>3. CASE ~\E q \in paths : q.msg = t.msg
  <2>1. [msg |-> t.msg, hops |-> t.hops, at |-> t.at] \in Path
    BY <1>1 DEF Task, Path
  <2> QED
    BY <1>3, <2>1 DEF BestPath
<1> QED
  BY <1>2, <1>3

\* A server that has just started has well-typed state.
LEMMA InitTypeOK == Init => TypeOK
<1> SUFFICES ASSUME Init PROVE TypeOK
  OBVIOUS
<1>1. contacts \in ContactBook /\ cache \in CacheFile
  BY LoadedType DEF Init, CacheFile
<1> QED
  BY <1>1 DEF Init, TypeOK, ContactBook, CacheFile

\* Every step keeps the types.
LEMMA NextTypeOK == TypeOK /\ [Next]_vars => TypeOK'
<1> SUFFICES ASSUME TypeOK, [Next]_vars PROVE TypeOK'
  OBVIOUS
<1> USE DEF book, seen
<1>a. /\ handler \in {Idle, Down} \/ handler \in Busy
      /\ contacts \in ContactBook /\ cache \in CacheFile
  BY DEF TypeOK, Busy, ContactBook, CacheFile
<1>b. TypeOK' <=> /\ handler' \in {Idle, Down} \/ handler' \in Busy
                  /\ contacts' \in ContactBook
                  /\ advertTs' \in [Senders -> Nat \cup {NoTs}]
                  /\ cache' \in CacheFile
                  /\ recent' \subseteq Entry
                  /\ \A e, f \in recent' : e.msg = f.msg => e = f
                  /\ paths' \subseteq Path
                  /\ \A p, q \in paths' : p.msg = q.msg => p = q
                  /\ tasks' \subseteq Task
                  /\ echoed' \subseteq Answer
                  /\ acked' \subseteq Texts
                  /\ failed' \subseteq Texts
                  /\ unsaved' \in BOOLEAN
                  /\ now' \in Nat
                  /\ budget' \in [faults : Nat, crashes : Nat]
  BY DEF TypeOK, Busy, ContactBook, CacheFile, Entry, Answer
<1>1. ASSUME NEW a \in Adverts, Accept(a) PROVE /\ contacts' \in ContactBook
                                                /\ advertTs' \in [Senders -> Nat \cup {NoTs}]
  BY <1>1, <1>a, InputType DEF Accept, TypeOK, ContactBook
<1>2. ASSUME NEW a \in Adverts, HandleAdvert(a) PROVE TypeOK'
  <2>1. contacts' \in ContactBook /\ advertTs' \in [Senders -> Nat \cup {NoTs}]
    BY <1>1, <1>2 DEF HandleAdvert
  <2>2. cache' \in CacheFile
    BY <1>2, <1>a, <2>1 DEF HandleAdvert, CacheFile
  <2> QED
    BY <1>2, <1>b, <2>1, <2>2 DEF HandleAdvert, TypeOK, Busy, Entry, Answer
<1>3. ASSUME NEW a \in Adverts, SaveFails(a) PROVE TypeOK'
  <2>1. contacts' \in ContactBook /\ advertTs' \in [Senders -> Nat \cup {NoTs}]
    BY <1>1, <1>3 DEF SaveFails
  <2>2. cache' \in CacheFile
    BY <1>3, <1>a DEF SaveFails, CacheFile
  <2>3. budget' \in [faults : Nat, crashes : Nat]
    BY <1>3, BudgetType DEF SaveFails, Fault
  <2> QED
    BY <1>3, <1>b, <2>1, <2>2, <2>3 DEF SaveFails, TypeOK, Busy, Entry, Answer
<1>4. ASSUME Forget, Death, cache' \in CacheFile PROVE TypeOK'
  <2>1. budget' \in [faults : Nat, crashes : Nat]
    BY <1>4, BudgetType DEF Death
  <2>2. contacts' \in ContactBook /\ advertTs' \in [Senders -> Nat \cup {NoTs}]
    BY <1>4 DEF Forget, NoContacts, ContactBook
  <2> QED
    BY <1>4, <1>b, <2>1, <2>2 DEF Forget, TypeOK
<1>5. ASSUME Crash \/ \E a \in Adverts : CrashWhileSaving(a) PROVE TypeOK'
  <2>1. Forget /\ Death /\ cache' \in CacheFile
    BY <1>5, <1>a DEF Crash, CrashWhileSaving, CacheFile
  <2> QED
    BY <1>4, <2>1
<1>6. ASSUME NEW k \in Packets, TxtStart(k) PROVE TypeOK'
  <2>1. handler' \in Busy
    BY <1>6 DEF TxtStart, TypeOK, Busy
  <2>2. paths' \subseteq Path /\ \A p, q \in paths' : p.msg = q.msg => p = q
    BY <1>6, PathsType DEF TxtStart
  <2>3. recent' \subseteq Entry /\ \A e, f \in recent' : e.msg = f.msg => e = f
    <3>1. [msg |-> k.msg, at |-> now] \in Entry
      BY InputType DEF Entry, TypeOK
    <3>2. recent \subseteq Entry /\ \A e, f \in recent : e.msg = f.msg => e = f
      BY DEF TypeOK, Entry
    <3>3. CASE IsNew(k.msg)
      BY <1>6, <3>1, <3>2, <3>3 DEF TxtStart, IsNew
    <3>4. CASE ~IsNew(k.msg)
      BY <1>6, <3>2, <3>4 DEF TxtStart
    <3> QED
      BY <3>3, <3>4
  <2>4. tasks' \subseteq Task
    <3>1. tasks \subseteq Task
      BY DEF TypeOK
    <3>2. tasks' = {Bump(t, k) : t \in tasks}
      BY <1>6 DEF TxtStart, Bump
    <3> QED
      BY <3>1, <3>2, BumpFacts
  <2> QED
    BY <1>6, <1>a, <1>b, <2>1, <2>2, <2>3, <2>4 DEF TxtStart, TypeOK, Answer
<1>7. ASSUME TxtReack PROVE TypeOK'
  <2>1. handler \in Busy
    BY <1>7, HandlerType DEF TxtReack
  <2>2. acked' \subseteq Texts
    BY <1>7, <2>1, InputType DEF TxtReack, Busy, TypeOK
  <2> QED
    BY <1>7, <1>a, <1>b, <2>2 DEF TxtReack, TypeOK, Entry, Answer
<1>8. ASSUME TxtAck PROVE TypeOK'
  <2>1. handler \in Busy
    BY <1>8, HandlerType DEF TxtAck
  <2>2. acked' \subseteq Texts
    BY <1>8, <2>1, InputType DEF TxtAck, Busy, TypeOK
  <2>3. tasks' \subseteq Task
    <3>1. now \in Nat /\ now + Delay \in Nat
      BY InputType DEF TypeOK
    <3>2. handler.packet.msg \in Texts /\ handler.packet.hops \in Nat /\ handler.at \in Nat
          /\ handler.again \in BOOLEAN
      BY <2>1, InputType DEF Busy
    <3>3. [msg |-> handler.packet.msg, hops |-> handler.packet.hops, at |-> handler.at,
           wake |-> now + Delay, longest |-> handler.packet.hops, again |-> handler.again] \in Task
      BY <3>1, <3>2 DEF Task
    <3> QED
      BY <1>8, <3>3 DEF TxtAck, TypeOK
  <2> QED
    BY <1>8, <1>a, <1>b, <2>2, <2>3 DEF TxtAck, TypeOK, Entry, Answer
<1>9. ASSUME HandlerFails PROVE TypeOK'
  <2>1. handler \in Busy
    BY <1>9, HandlerType DEF HandlerFails
  <2>2. acked' \subseteq Texts /\ failed' \subseteq Texts
    BY <1>9, <2>1, InputType DEF HandlerFails, Busy, TypeOK
  <2>3. budget' \in [faults : Nat, crashes : Nat]
    BY <1>9, BudgetType DEF HandlerFails, Fault
  <2> QED
    BY <1>9, <1>a, <1>b, <2>2, <2>3 DEF HandlerFails, TypeOK, Entry, Answer
<1>10. ASSUME NEW t \in tasks, Reply(t) PROVE TypeOK'
  <2>1. [task |-> t, path |-> BestPath(t), when |-> now] \in Answer
    BY BestPathType DEF Answer, TypeOK
  <2>2. echoed' \subseteq Answer
    BY <1>10, <2>1 DEF Reply, TypeOK, Answer
  <2> QED
    BY <1>10, <1>a, <1>b, <2>2 DEF Reply, TypeOK, Entry
<1>11. ASSUME Restart PROVE TypeOK'
  <2>1. contacts' \in ContactBook /\ cache' \in CacheFile
    BY <1>11, <1>a, LoadedType DEF Restart
  <2> QED
    BY <1>11, <1>b, <2>1 DEF Restart, TypeOK, Entry, Answer
<1>12. ASSUME RestartDies PROVE TypeOK'
  <2>1. budget' \in [faults : Nat, crashes : Nat]
    BY <1>12, BudgetType DEF RestartDies, Death
  <2>2. cache' \in CacheFile
    BY <1>12 DEF RestartDies, CacheFile
  <2> QED
    BY <1>12, <1>a, <1>b, <2>1, <2>2 DEF RestartDies, TypeOK, Entry, Answer
<1>13. ASSUME Tick PROVE TypeOK'
  <2>1. now' \in Nat
    BY <1>13 DEF Tick, TypeOK
  <2> QED
    BY <1>13, <1>a, <1>b, <2>1 DEF Tick, TypeOK, Entry, Answer
<1>14. CASE UNCHANGED vars
  BY <1>14, <1>a, <1>b DEF vars, TypeOK, Entry, Answer
<1> QED
  BY <1>2, <1>3, <1>5, <1>6, <1>7, <1>8, <1>9, <1>10, <1>11, <1>12, <1>13, <1>14 DEF Next

\* The variables keep their types; no message has two entries or two paths.
THEOREM TypeCorrect == Spec => []TypeOK
BY InitTypeOK, NextTypeOK, PTL DEF Spec

-----------------------------------------------------------------------------
(* The contacts and their cache. *)

\* A restart finds in a saved book what it holds, and what a start makes of a
\* file is what the next one would load.
LEMMA SavedIsLoaded ==
    /\ \A c \in ContactBook :
          Saved(c) \in CacheFile /\ \A s \in Senders : Loaded(Saved(c))[s] = LoadedName(c[s])
    /\ \A file \in CacheFile : \A s \in Senders :
          Loaded(StartCache(file))[s] = LoadedName(StartContacts(file)[s])
<1>1. ASSUME NEW c \in ContactBook
      PROVE  Saved(c) \in CacheFile /\ \A s \in Senders : Loaded(Saved(c))[s] = LoadedName(c[s])
  BY DEF Saved, Loaded, CacheFile
<1>2. ASSUME NEW file \in CacheFile, NEW s \in Senders
      PROVE  Loaded(StartCache(file))[s] = LoadedName(StartContacts(file)[s])
  <2>1. StartContacts(file) \in ContactBook /\ Loaded(file) \in ContactBook
    BY LoadedType
  <2>2. CASE StartContacts(file) = Loaded(file)
    <3>1. LoadedName(Loaded(file)[s]) = Loaded(file)[s]
      <4>1. CASE file.state = "ok"
        <5>1. PICK c \in ContactBook : file = Saved(c) /\ file.rows = c
          BY <4>1 DEF CacheFile, Missing, Torn, Saved
        <5>2. Loaded(file)[s] = LoadedName(c[s]) /\ c[s] \in Names \cup {Unknown}
          BY <4>1, <5>1 DEF Loaded, ContactBook
        <5> QED
          BY <5>2, LoadedNameFacts
      <4>2. CASE file.state # "ok"
        BY <4>2 DEF Loaded, NoContacts, LoadedName, Unknown
      <4> QED
        BY <4>1, <4>2
    <3> QED
      BY <2>2, <3>1 DEF StartCache
  <2>3. CASE StartContacts(file) # Loaded(file)
    BY <2>1, <2>3, <1>1 DEF StartCache
  <2> QED
    BY <2>2, <2>3
<1> QED
  BY <1>1, <1>2

\* Every step keeps the cache current.
LEMMA NextCacheCurrent == TypeOK /\ CacheCurrent /\ [Next]_vars => CacheCurrent'
<1> SUFFICES ASSUME TypeOK, CacheCurrent, [Next]_vars, handler' # Down, ~unsaved'
             PROVE  \A s \in Senders : Loaded(cache')[s] = LoadedName(contacts'[s])
  BY DEF CacheCurrent, Loaded
<1>a. contacts \in ContactBook /\ cache \in CacheFile
  BY DEF TypeOK, ContactBook, CacheFile
<1>c. handler # Down /\ ~unsaved => \A s \in Senders : Loaded(cache)[s] = LoadedName(contacts[s])
  BY DEF CacheCurrent
<1>1. ASSUME NEW a \in Adverts, HandleAdvert(a)
      PROVE  \A s \in Senders : Loaded(cache')[s] = LoadedName(contacts'[s])
  <2>1. contacts' = [contacts EXCEPT ![a.sender] = a.name] /\ handler # Down
    BY <1>1 DEF HandleAdvert, Accept
  <2>2. contacts' \in ContactBook
    BY <2>1, <1>a, InputType DEF ContactBook
  <2>3. CASE Changes(a)
    BY <1>1, <2>2, <2>3, SavedIsLoaded DEF HandleAdvert
  <2>4. CASE ~Changes(a)
    <3>1. contacts' = contacts /\ cache' = cache
      BY <1>1, <2>1, <2>4, <1>a DEF HandleAdvert, Changes, ContactBook
    <3>2. ~unsaved
      BY <1>1, <2>4 DEF HandleAdvert
    <3> QED
      BY <2>1, <3>1, <3>2, <1>c
  <2> QED
    BY <2>3, <2>4
<1>2. CASE Restart
  BY <1>2, <1>a, SavedIsLoaded DEF Restart
<1>3. CASE UNCHANGED <<contacts, cache, unsaved>> /\ (handler = Down => handler' = Down)
  BY <1>3, <1>c
<1>4. ~(Crash \/ RestartDies \/ \E a \in Adverts : SaveFails(a) \/ CrashWhileSaving(a))
  <2>1. \A a \in Adverts : ~SaveFails(a)
    BY DEF SaveFails
  <2>2. ~Crash /\ ~RestartDies /\ \A a \in Adverts : ~CrashWhileSaving(a)
    BY DEF Crash, RestartDies, CrashWhileSaving, Forget
  <2> QED
    BY <2>1, <2>2
<1>5. Idle # Down /\ (handler = Down => handler.pc = "down")
  BY DEF Idle, Down
<1>6. CASE \E k \in Packets : TxtStart(k)
  BY <1>3, <1>5, <1>6 DEF TxtStart, book
<1>7. CASE TxtReack \/ TxtAck \/ HandlerFails
  BY <1>3, <1>5, <1>7 DEF TxtReack, TxtAck, HandlerFails, book
<1>8. CASE Tick \/ UNCHANGED vars \/ \E t \in tasks : Reply(t)
  BY <1>3, <1>8 DEF Tick, vars, Reply, book
<1> QED
  BY <1>1, <1>2, <1>4, <1>6, <1>7, <1>8 DEF Next

\* Unless the last write failed, a restart knows the contacts under their names.
THEOREM CacheIsCurrent == Spec => []CacheCurrent
<1>1. Init => CacheCurrent
  <2> SUFFICES ASSUME Init PROVE \A s \in Senders : Loaded(cache)[s] = LoadedName(contacts[s])
    BY DEF CacheCurrent
  <2>1. Missing \in CacheFile
    BY DEF CacheFile
  <2> QED
    BY <2>1, SavedIsLoaded DEF Init
<1>2. CacheCurrent /\ TypeOK /\ [Next]_vars => CacheCurrent'
  BY NextCacheCurrent
<1> QED
  BY <1>1, <1>2, TypeCorrect, PTL DEF Spec

\* A process that is down stays without timestamps until it has started.
LEMMA NextDownForgets == TypeOK /\ DownForgets /\ [Next]_vars => DownForgets'
<1> SUFFICES ASSUME TypeOK, DownForgets, [Next]_vars, handler' = Down
             PROVE  \A s \in Senders : advertTs'[s] = NoTs
  BY DEF DownForgets
<1>1. CASE Forget
  BY <1>1 DEF Forget
<1>2. CASE handler = Down /\ advertTs' = advertTs
  BY <1>2 DEF DownForgets
<1>3. Idle # Down
  BY DEF Idle, Down
<1> QED
  BY <1>1, <1>2, <1>3
  DEF Next, vars, book, seen, HandleAdvert, SaveFails, Accept, CrashWhileSaving, TxtStart, TxtReack,
      TxtAck, HandlerFails, Reply, Crash, Restart, RestartDies, Tick, Down

\* An advert that is older than one already accepted never changes a name.
THEOREM NamesDoNotRevert == Spec => NamesNeverRevert
<1> DEFINE Newer == \A s \in Senders :
              (contacts'[s] # contacts[s] /\ advertTs[s] # NoTs /\ handler' # Down) =>
                  \E a \in Adverts : /\ a.sender = s
                                     /\ a.name = contacts'[s]
                                     /\ a.ts >= advertTs[s]
<1>1. Init => DownForgets
  BY DEF Init, DownForgets
<1>2. DownForgets /\ TypeOK /\ [Next]_vars => DownForgets'
  BY NextDownForgets
<1>3. DownForgets /\ TypeOK /\ [Next]_vars => [Newer]_vars
  <2> SUFFICES ASSUME DownForgets, TypeOK, Next, NEW s \in Senders,
                      contacts'[s] # contacts[s], advertTs[s] # NoTs, handler' # Down
               PROVE  \E a \in Adverts : a.sender = s /\ a.name = contacts'[s] /\ a.ts >= advertTs[s]
    OBVIOUS
  <2>1. ~Restart
    BY DEF Restart, DownForgets
  <2>2. PICK a \in Adverts : Accept(a)
    BY <2>1
    DEF Next, book, seen, HandleAdvert, SaveFails, CrashWhileSaving, TxtStart, TxtReack, TxtAck,
        HandlerFails, Reply, Crash, RestartDies, Tick, Forget
  <2>3. a.sender = s /\ a.name = contacts'[s]
    BY <2>2 DEF Accept, TypeOK
  <2>4. a.ts >= advertTs[s]
    <3>1. advertTs[s] \in Nat /\ a.ts \in Nat
      BY InputType DEF TypeOK
    <3> QED
      BY <2>2, <2>3, <3>1 DEF Accept, Stale
  <2> QED
    BY <2>3, <2>4
<1> QED
  BY <1>1, <1>2, <1>3, TypeCorrect, PTL DEF Spec, NamesNeverRevert

-----------------------------------------------------------------------------
(* Copies of one message are answered once. *)

\* A step leaves the messages and their tasks alone, and the handler too unless
\* it ends it, or is one of five.
LEMMA MessageSteps ==
    ASSUME [Next]_vars
    PROVE  \/ /\ UNCHANGED <<recent, paths, tasks, echoed, now>>
              /\ handler' = handler \/ handler' \in {Idle, Down}
           \/ Forget
           \/ \E k \in Packets : TxtStart(k)
           \/ TxtAck
           \/ \E t \in tasks : Reply(t)
           \/ Tick
BY DEF Next, vars, book, seen, HandleAdvert, SaveFails, CrashWhileSaving, TxtReack, HandlerFails,
       Crash, Restart, RestartDies

\* What TxtStart does, for a message that is new and for one that is not.
LEMMA TxtStartFacts ==
    ASSUME TypeOK, NEW k \in Packets, TxtStart(k)
    PROVE  /\ handler'.pc = (IF IsNew(k.msg) THEN "ack" ELSE "reack")
           /\ handler'.packet = k /\ handler'.at = now
           /\ handler'.again = \E e \in Expired : e.msg = k.msg
           /\ recent' = (recent \ Expired)
                           \cup (IF IsNew(k.msg) THEN {[msg |-> k.msg, at |-> now]} ELSE {})
           /\ paths' = DropPaths(RememberPath(k))
           /\ tasks' = {Bump(t, k) : t \in tasks}
           /\ \A t \in tasks' : \E u \in tasks : t = Bump(u, k) /\ t.msg = u.msg /\ t.at = u.at
           /\ UNCHANGED <<echoed, acked, now, budget>>
<1>1. tasks' = {Bump(t, k) : t \in tasks}
  BY DEF TxtStart, Bump
<1>2. \A t \in tasks : Bump(t, k).msg = t.msg /\ Bump(t, k).at = t.at
  BY BumpFacts DEF TypeOK
<1> QED
  BY <1>1, <1>2 DEF TxtStart

\* The task that TxtAck spawns.
NewTask == [msg |-> handler.packet.msg, hops |-> handler.packet.hops, at |-> handler.at,
            wake |-> now + Delay, longest |-> handler.packet.hops, again |-> handler.again]

\* What TxtAck does.
LEMMA TxtAckFacts ==
    ASSUME TypeOK, TxtAck
    PROVE  /\ handler.pc = "ack" /\ handler \in Busy /\ handler' = Idle /\ handler'.pc = "idle"
           /\ tasks' = tasks \cup {NewTask}
           /\ UNCHANGED <<recent, paths, echoed, now, budget>>
BY HandlerType DEF TxtAck, NewTask, seen, Idle

\* The tasks of this process are tasks.
LEMMA SpawnedType == ASSUME TypeOK PROVE Spawned \subseteq Task
BY DEF TypeOK, Spawned

\* Every step keeps what is remembered of the messages.
LEMMA NextRemembered == TypeOK /\ MessagesRemembered /\ [Next]_vars => MessagesRemembered'
<1> SUFFICES ASSUME TypeOK, MessagesRemembered, [Next]_vars PROVE MessagesRemembered'
  OBVIOUS
<1>a. now \in Nat /\ TTL \in Nat /\ \A t \in Spawned : t.at \in Nat
  BY InputType, SpawnedType DEF TypeOK, Task
<1>b. \A t \in Spawned : t.at <= now /\ ([msg |-> t.msg, at |-> t.at] \in recent \/ t.at + TTL < now)
  BY DEF MessagesRemembered
<1>c. Idle.pc = "idle" /\ Down.pc = "down"
  BY DEF Idle, Down
<1>1. CASE /\ UNCHANGED <<recent, paths, tasks, echoed, now>>
           /\ handler' = handler \/ handler' \in {Idle, Down}
  BY <1>1, <1>c DEF MessagesRemembered, Spawned
<1>2. CASE Forget
  BY <1>2, <1>c DEF Forget, MessagesRemembered, Spawned
<1>3. ASSUME NEW k \in Packets, TxtStart(k) PROVE MessagesRemembered'
  <2>1. \A t \in Spawned' : \E u \in Spawned : t.msg = u.msg /\ t.at = u.at
    <3>1. echoed' = echoed /\ \A t \in tasks' : \E u \in tasks : t.msg = u.msg /\ t.at = u.at
      BY <1>3, TxtStartFacts
    <3> QED
      BY <3>1 DEF Spawned
  <2>2. \A u \in Spawned : [msg |-> u.msg, at |-> u.at] \in recent' \/ u.at + TTL < now
    <3>1. TAKE u \in Spawned
    <3>2. CASE [msg |-> u.msg, at |-> u.at] \in Expired
      BY <3>2 DEF Expired
    <3>3. CASE [msg |-> u.msg, at |-> u.at] \in recent \ Expired
      BY <1>3, <3>3, TxtStartFacts
    <3> QED
      BY <1>b, <3>2, <3>3
  <2>3. \A t \in Spawned' : t.at <= now /\ ([msg |-> t.msg, at |-> t.at] \in recent' \/ t.at + TTL < now)
    BY <2>1, <2>2, <1>b
  <2>4. /\ handler'.at <= now'
        /\ handler'.pc = "ack" => [msg |-> handler'.packet.msg, at |-> handler'.at] \in recent'
        /\ now' = now
    <3>1. handler'.at = now /\ now' = now /\ handler'.packet = k
      BY <1>3, TxtStartFacts
    <3>2. handler'.pc = "ack" => [msg |-> k.msg, at |-> now] \in recent'
      BY <1>3, TxtStartFacts
    <3> QED
      BY <3>1, <3>2, <1>a
  <2> QED
    BY <2>3, <2>4 DEF MessagesRemembered
<1>4. CASE TxtAck
  <2>1. handler'.pc = "idle" /\ UNCHANGED <<recent, now>>
    BY <1>4, TxtAckFacts
  <2>2. \A t \in Spawned' : t \in Spawned \/ t = NewTask
    BY <1>4, TxtAckFacts DEF Spawned
  <2>3. /\ NewTask.at <= now
        /\ [msg |-> NewTask.msg, at |-> NewTask.at] \in recent \/ NewTask.at + TTL < now
    BY <1>4, TxtAckFacts DEF MessagesRemembered, NewTask
  <2> QED
    BY <2>1, <2>2, <2>3, <1>b DEF MessagesRemembered
<1>5. ASSUME NEW t \in tasks, Reply(t) PROVE MessagesRemembered'
  <2>1. Spawned' \subseteq Spawned /\ UNCHANGED <<handler, recent, now>>
    BY <1>5 DEF Reply, Spawned, seen
  <2> QED
    BY <2>1, <1>b DEF MessagesRemembered
<1>6. CASE Tick
  <2>1. Spawned' = Spawned /\ UNCHANGED <<handler, recent>> /\ now' = now + 1
    BY <1>6 DEF Tick, Spawned, seen
  <2>2. \A t \in Spawned : t.at <= now' /\ ([msg |-> t.msg, at |-> t.at] \in recent \/ t.at + TTL < now')
    <3>1. TAKE t \in Spawned
    <3>2. t.at \in Nat /\ now' = now + 1 /\ t.at <= now
      BY <2>1, <1>a, <1>b
    <3> QED
      BY <3>2, <1>a, <1>b
  <2>3. handler.pc \in {"ack", "reack"} => handler.at \in Nat
    BY HandlerType DEF Busy
  <2>4. /\ handler.pc \in {"ack", "reack"} => handler.at <= now'
        /\ handler.pc = "ack" =>
              [msg |-> handler.packet.msg, at |-> handler.at] \in recent \/ handler.at + TTL < now'
    BY <2>1, <2>3, <1>a DEF MessagesRemembered
  <2> QED
    BY <2>1, <2>2, <2>4 DEF MessagesRemembered
<1> QED
  BY <1>1, <1>2, <1>3, <1>4, <1>5, <1>6, MessageSteps

\* Every step keeps the tasks of a message apart.
LEMMA NextApart == TypeOK /\ Once /\ [Next]_vars => TasksApart'
<1> SUFFICES ASSUME TypeOK, Once, [Next]_vars PROVE TasksApart'
  OBVIOUS
<1>a. now \in Nat /\ TTL \in Nat /\ \A t \in Spawned : t.at \in Nat
  BY InputType, SpawnedType DEF TypeOK, Task
<1>b. /\ \A s, t \in tasks : s # t /\ s.msg = t.msg => Apart(s, t)
      /\ \A e, f \in echoed : e.task # f.task /\ e.task.msg = f.task.msg => Apart(e.task, f.task)
      /\ \A t \in tasks, e \in echoed : t.msg = e.task.msg => Apart(t, e.task)
      /\ handler.pc = "ack" =>
            \A t \in Spawned : t.msg = handler.packet.msg => t.at + TTL < handler.at
  BY DEF Once, TasksApart
<1>c. Idle.pc = "idle" /\ Down.pc = "down"
  BY DEF Idle, Down
<1>1. CASE /\ UNCHANGED <<recent, paths, tasks, echoed, now>>
           /\ handler' = handler \/ handler' \in {Idle, Down}
  BY <1>1, <1>b, <1>c DEF TasksApart, Spawned
<1>2. CASE Forget
  BY <1>2, <1>c DEF Forget, TasksApart, Spawned
<1>3. ASSUME NEW k \in Packets, TxtStart(k) PROVE TasksApart'
  <2>1. \A t \in tasks' : \E u \in tasks : t = Bump(u, k) /\ t.msg = u.msg /\ t.at = u.at
    BY <1>3, TxtStartFacts
  <2>2. \A s, t \in tasks' : s # t /\ s.msg = t.msg => Apart(s, t)
    <3>1. SUFFICES ASSUME NEW s \in tasks', NEW t \in tasks', s # t, s.msg = t.msg PROVE Apart(s, t)
      OBVIOUS
    <3>2. PICK u \in tasks : s = Bump(u, k) /\ s.msg = u.msg /\ s.at = u.at
      BY <2>1
    <3>3. PICK v \in tasks : t = Bump(v, k) /\ t.msg = v.msg /\ t.at = v.at
      BY <2>1
    <3>4. Apart(u, v)
      BY <1>b, <3>1, <3>2, <3>3
    <3> QED
      BY <3>2, <3>3, <3>4 DEF Apart
  <2>3. \A t \in tasks', e \in echoed : t.msg = e.task.msg => Apart(t, e.task)
    BY <2>1, <1>b DEF Apart
  <2>4. handler'.pc = "ack" => \A t \in Spawned' : t.msg = k.msg => t.at + TTL < now
    <3>1. SUFFICES ASSUME handler'.pc = "ack", NEW t \in Spawned', t.msg = k.msg PROVE t.at + TTL < now
      OBVIOUS
    <3>2. PICK u \in Spawned : t.msg = u.msg /\ t.at = u.at
      BY <1>3, <2>1, TxtStartFacts DEF Spawned
    <3>3. IsNew(k.msg)
      BY <1>3, <3>1, TxtStartFacts
    <3>4. [msg |-> u.msg, at |-> u.at] \notin recent \ Expired
      BY <3>1, <3>2, <3>3 DEF IsNew
    <3>5. [msg |-> u.msg, at |-> u.at] \in Expired => u.at + TTL < now
      BY DEF Expired
    <3> QED
      BY <3>2, <3>4, <3>5 DEF Once, MessagesRemembered
  <2>5. handler'.packet = k /\ handler'.at = now /\ UNCHANGED <<echoed, now>>
    BY <1>3, TxtStartFacts
  <2> QED
    BY <2>2, <2>3, <2>4, <2>5, <1>b DEF TasksApart
<1>4. CASE TxtAck
  <2>1. handler'.pc = "idle" /\ tasks' = tasks \cup {NewTask} /\ echoed' = echoed
    BY <1>4, TxtAckFacts
  <2>2. \A t \in Spawned : t.msg = NewTask.msg => t.at + TTL < NewTask.at
    BY <1>4, <1>b, TxtAckFacts DEF NewTask
  <2>3. \A s, t \in tasks' : s # t /\ s.msg = t.msg => Apart(s, t)
    BY <2>1, <2>2, <1>b DEF Apart, Spawned
  <2>4. \A t \in tasks', e \in echoed : t.msg = e.task.msg => Apart(t, e.task)
    BY <2>1, <2>2, <1>b DEF Apart, Spawned
  <2> QED
    BY <2>1, <2>3, <2>4, <1>b DEF TasksApart
<1>5. ASSUME NEW t \in tasks, Reply(t) PROVE TasksApart'
  <2>1. /\ tasks' = tasks \ {t} /\ handler' = handler
        /\ \A e \in echoed' : e \in echoed \/ e.task = t
    BY <1>5 DEF Reply
  <2>2. Spawned' \subseteq Spawned
    BY <2>1 DEF Spawned
  <2>3. \A e, f \in echoed' : e.task # f.task /\ e.task.msg = f.task.msg => Apart(e.task, f.task)
    <3>1. \A e \in echoed : t.msg = e.task.msg => Apart(t, e.task) /\ Apart(e.task, t)
      BY <1>b DEF Apart
    <3> QED
      BY <2>1, <3>1, <1>b
  <2>4. \A s \in tasks', e \in echoed' : s.msg = e.task.msg => Apart(s, e.task)
    BY <2>1, <1>b
  <2> QED
    BY <2>1, <2>2, <2>3, <2>4, <1>b DEF TasksApart
<1>6. CASE Tick
  BY <1>6, <1>b DEF Tick, TasksApart, Spawned
<1> QED
  BY <1>1, <1>2, <1>3, <1>4, <1>5, <1>6, MessageSteps

\* What is remembered and the distance of the tasks are an invariant.
LEMMA OnceInvariant == Spec => [](TypeOK /\ Once)
<1>1. Init => TypeOK /\ Once
  BY InitTypeOK DEF Init, Once, MessagesRemembered, TasksApart, Spawned, Idle
<1>2. (TypeOK /\ Once) /\ [Next]_vars => (TypeOK /\ Once)'
  BY NextTypeOK, NextRemembered, NextApart DEF Once
<1> QED
  BY <1>1, <1>2, PTL DEF Spec

\* Copies of one message are answered once per TTL, however they interleave with
\* the replies.
THEOREM EchoedOnce == Spec => []EchoedOncePerTTL
<1>1. TypeOK /\ Once => EchoedOncePerTTL
  <2> SUFFICES ASSUME TasksApart, NEW s \in Spawned, NEW t \in Spawned, s # t, s.msg = t.msg
               PROVE  s.at + TTL < t.at \/ t.at + TTL < s.at
    BY DEF EchoedOncePerTTL, Spawned, Once
  <2> QED
    BY DEF TasksApart, Apart, Spawned
<1> QED
  BY <1>1, OnceInvariant, PTL

-----------------------------------------------------------------------------
(* The path of a reply. *)

\* TxtStart keeps only paths of messages that have not expired: old ones, and
\* that of the copy.  If the message is new, only that of the copy.
LEMMA PathsAfterStart ==
    ASSUME TypeOK, PathsHaveMessages, NEW k \in Packets, TxtStart(k), NEW q \in paths'
    PROVE  /\ q \in paths \/ q = [msg |-> k.msg, hops |-> k.hops, at |-> now]
           /\ \A e \in Expired : e.msg # q.msg
           /\ \E e \in recent' : e.msg = q.msg
           /\ IsNew(k.msg) /\ q.msg = k.msg => q = [msg |-> k.msg, hops |-> k.hops, at |-> now]
<1>1. q \in RememberPath(k) /\ \A e \in Expired : e.msg # q.msg
  BY TxtStartFacts DEF DropPaths
<1>2. q \in paths \/ q = [msg |-> k.msg, hops |-> k.hops, at |-> now]
  BY <1>1 DEF RememberPath
<1>3. ASSUME q \in paths
      PROVE  \E e \in recent \ Expired : e.msg = q.msg
  BY <1>1, <1>3 DEF PathsHaveMessages
<1>4. IsNew(k.msg) /\ q.msg = k.msg => q \notin paths
  BY <1>3 DEF IsNew
<1>5. \E e \in recent' : e.msg = q.msg
  <2>1. recent' = (recent \ Expired) \cup (IF IsNew(k.msg) THEN {[msg |-> k.msg, at |-> now]} ELSE {})
    BY TxtStartFacts
  <2>2. CASE q \in paths
    BY <1>3, <2>1, <2>2
  <2>3. CASE q = [msg |-> k.msg, hops |-> k.hops, at |-> now] /\ IsNew(k.msg)
    <3>1. [msg |-> k.msg, at |-> now] \in recent' /\ q.msg = k.msg
      BY <2>1, <2>3
    <3> QED
      BY <3>1
  <2>4. CASE q = [msg |-> k.msg, hops |-> k.hops, at |-> now] /\ ~IsNew(k.msg)
    BY <2>1, <2>4 DEF IsNew
  <2> QED
    BY <1>2, <2>2, <2>3, <2>4
<1> QED
  BY <1>1, <1>2, <1>4, <1>5

\* Every step keeps the paths fresh.
LEMMA NextFresh == TypeOK /\ Once /\ FreshPaths /\ [Next]_vars => FreshPaths'
<1> SUFFICES ASSUME TypeOK, Once, FreshPaths, [Next]_vars PROVE FreshPaths'
  OBVIOUS
<1>a. /\ \A q \in paths : \E e \in recent : e.msg = q.msg
      /\ \A t \in tasks, q \in paths : q.msg = t.msg => q.at >= t.at
      /\ handler.pc = "ack" => \A q \in paths : q.msg = handler.packet.msg => q.at >= handler.at
      /\ \A e \in echoed : e.path.at >= e.task.at
  BY DEF FreshPaths, PathsHaveMessages, PathsFresh, ReplyPathFresh
<1>b. Idle.pc = "idle" /\ Down.pc = "down"
  BY DEF Idle, Down
<1>c. now \in Nat /\ \A t \in tasks : t.at \in Nat /\ t.at <= now
  BY DEF TypeOK, Task, Once, MessagesRemembered, Spawned
<1>1. CASE /\ UNCHANGED <<recent, paths, tasks, echoed, now>>
           /\ handler' = handler \/ handler' \in {Idle, Down}
  BY <1>1, <1>a, <1>b DEF FreshPaths, PathsHaveMessages, PathsFresh, ReplyPathFresh
<1>2. CASE Forget
  BY <1>2, <1>b DEF Forget, FreshPaths, PathsHaveMessages, PathsFresh, ReplyPathFresh
<1>3. ASSUME NEW k \in Packets, TxtStart(k) PROVE FreshPaths'
  <2>1. \A q \in paths' : \E e \in recent' : e.msg = q.msg
    BY <1>3, PathsAfterStart DEF FreshPaths
  <2>2. \A t \in tasks', q \in paths' : q.msg = t.msg => q.at >= t.at
    <3>1. SUFFICES ASSUME NEW t \in tasks', NEW q \in paths', q.msg = t.msg PROVE q.at >= t.at
      OBVIOUS
    <3>2. PICK u \in tasks : t.msg = u.msg /\ t.at = u.at
      BY <1>3, TxtStartFacts
    <3>3. CASE q \in paths
      BY <1>a, <3>1, <3>2, <3>3
    <3>4. CASE q = [msg |-> k.msg, hops |-> k.hops, at |-> now]
      <4>1. q.at = now
        BY <3>4
      <4> QED
        BY <1>c, <3>2, <4>1
    <3> QED
      BY <1>3, <3>3, <3>4, PathsAfterStart DEF FreshPaths
  <2>3. handler'.pc = "ack" => \A q \in paths' : q.msg = handler'.packet.msg => q.at >= handler'.at
    <3>1. SUFFICES ASSUME handler'.pc = "ack", NEW q \in paths', q.msg = handler'.packet.msg
                   PROVE  q.at >= handler'.at
      OBVIOUS
    <3>2. IsNew(k.msg) /\ handler'.packet = k /\ handler'.at = now
      BY <1>3, <3>1, TxtStartFacts
    <3>3. q = [msg |-> k.msg, hops |-> k.hops, at |-> now]
      BY <1>3, <3>1, <3>2, PathsAfterStart DEF FreshPaths
    <3>4. q.at = now
      BY <3>3
    <3> QED
      BY <3>2, <3>4, <1>c
  <2>4. echoed' = echoed
    BY <1>3, TxtStartFacts
  <2> QED
    BY <2>1, <2>2, <2>3, <2>4, <1>a DEF FreshPaths, PathsHaveMessages, PathsFresh, ReplyPathFresh
<1>4. CASE TxtAck
  <2>1. handler.pc = "ack" /\ handler'.pc = "idle" /\ tasks' = tasks \cup {NewTask}
        /\ UNCHANGED <<recent, paths, echoed>>
    BY <1>4, TxtAckFacts
  <2>2. NewTask.msg = handler.packet.msg /\ NewTask.at = handler.at
    BY DEF NewTask
  <2> QED
    BY <2>1, <2>2, <1>a DEF FreshPaths, PathsHaveMessages, PathsFresh, ReplyPathFresh
<1>5. ASSUME NEW t \in tasks, Reply(t) PROVE FreshPaths'
  <2>1. tasks' \subseteq tasks /\ UNCHANGED <<handler, paths, recent>>
        /\ echoed' = echoed \cup {[task |-> t, path |-> BestPath(t), when |-> now]}
    BY <1>5 DEF Reply, seen
  <2>2. BestPath(t).at >= t.at
    <3>1. CASE BestPath(t) \in paths /\ BestPath(t).msg = t.msg
      BY <3>1, <1>a
    <3>2. CASE BestPath(t) = [msg |-> t.msg, hops |-> t.hops, at |-> t.at]
      <4>1. BestPath(t).at = t.at
        BY <3>2
      <4> QED
        BY <4>1, <1>c
    <3> QED
      BY <3>1, <3>2, BestPathType
  <2> QED
    BY <2>1, <2>2, <1>a DEF FreshPaths, PathsHaveMessages, PathsFresh, ReplyPathFresh
<1>6. CASE Tick
  BY <1>6, <1>a DEF Tick, seen, FreshPaths, PathsHaveMessages, PathsFresh, ReplyPathFresh
<1> QED
  BY <1>1, <1>2, <1>3, <1>4, <1>5, <1>6, MessageSteps

\* The fresh paths are an invariant.
LEMMA FreshInvariant == Spec => []FreshPaths
<1>1. Init => FreshPaths
  BY DEF Init, FreshPaths, PathsHaveMessages, PathsFresh, ReplyPathFresh, Idle
<1>2. FreshPaths /\ (TypeOK /\ Once) /\ [Next]_vars => FreshPaths'
  BY NextFresh
<1> QED
  BY <1>1, <1>2, OnceInvariant, PTL DEF Spec

\* A reply never goes along a path recorded before its message arrived.
THEOREM RepliesGoFreshPaths == Spec => []ReplyPathFresh
<1>1. FreshPaths => ReplyPathFresh
  BY DEF FreshPaths
<1> QED
  BY <1>1, FreshInvariant, PTL

\* A task whose message has not expired, with the path that the start of a
\* further copy leaves it.
LEMMA PathOfTask ==
    ASSUME TypeOK, NEW k \in Packets, TxtStart(k), NEW u \in tasks, NEW q \in paths,
           [msg |-> u.msg, at |-> u.at] \in recent \ Expired, q.msg = u.msg, q.hops = u.longest
    PROVE  \E r \in paths' : r.msg = u.msg /\ r.hops = Bump(u, k).longest
<1>1. u \in Task /\ k.hops \in Nat /\ q \in Path
  BY InputType DEF TypeOK
<1>2. \A e \in Expired : e.msg # u.msg
  BY DEF TypeOK, Expired
<1>3. paths' = {r \in RememberPath(k) : \A e \in Expired : e.msg # r.msg}
  BY TxtStartFacts DEF DropPaths
<1>4. Bump(u, k).longest = IF u.msg = k.msg /\ u.longest < k.hops THEN k.hops ELSE u.longest
  BY <1>1, BumpFacts
<1>5. CASE u.msg # k.msg
  <2>1. q \in RememberPath(k)
    BY <1>5 DEF RememberPath
  <2> QED
    BY <1>2, <1>3, <1>4, <1>5, <2>1
<1>6. CASE u.msg = k.msg /\ u.longest < k.hops
  <2> DEFINE r == [msg |-> k.msg, hops |-> k.hops, at |-> now]
  <2>1. \A p \in paths : p.msg = k.msg => p = q
    BY <1>6 DEF TypeOK
  <2>2. ~(q.hops >= k.hops)
    BY <1>1, <1>6 DEF Task
  <2>3. r \in RememberPath(k)
    BY <2>1, <2>2 DEF RememberPath
  <2>4. r.msg = u.msg /\ r.hops = k.hops
    BY <1>6
  <2> QED
    BY <1>2, <1>3, <1>4, <1>6, <2>3, <2>4
<1>7. CASE u.msg = k.msg /\ ~(u.longest < k.hops)
  <2>1. q.hops >= k.hops
    BY <1>1, <1>7 DEF Task
  <2>2. q \in RememberPath(k)
    BY <1>7, <2>1 DEF RememberPath
  <2> QED
    BY <1>2, <1>3, <1>4, <1>7, <2>2
<1> QED
  BY <1>5, <1>6, <1>7

\* Every step keeps the longest path of a message that has not expired.
LEMMA NextLongest ==
    TypeOK /\ Once /\ FreshPaths /\ LongestKept /\ [Next]_vars => LongestKept'
<1> SUFFICES ASSUME TypeOK, Once, FreshPaths, LongestKept, [Next]_vars PROVE LongestKept'
  OBVIOUS
<1>a. /\ \A t \in tasks : (~t.again /\ now <= t.at + TTL) =>
            \E q \in paths : q.msg = t.msg /\ q.hops = t.longest
      /\ (handler.pc = "ack" /\ ~handler.again) =>
            \E q \in paths : q.msg = handler.packet.msg /\ q.hops = handler.packet.hops
  BY DEF LongestKept
<1>b. Idle.pc = "idle" /\ Down.pc = "down"
  BY DEF Idle, Down
<1>c. now \in Nat /\ TTL \in Nat /\ \A t \in tasks : t \in Task /\ t.at \in Nat
  BY InputType DEF TypeOK, Task
<1>1. CASE /\ UNCHANGED <<recent, paths, tasks, echoed, now>>
           /\ handler' = handler \/ handler' \in {Idle, Down}
  BY <1>1, <1>a, <1>b DEF LongestKept
<1>2. CASE Forget
  BY <1>2, <1>b DEF Forget, LongestKept
<1>3. ASSUME NEW k \in Packets, TxtStart(k) PROVE LongestKept'
  <2>0. now' = now /\ tasks' = {Bump(t, k) : t \in tasks}
    BY <1>3, TxtStartFacts
  <2>1. ASSUME NEW t \in tasks', ~t.again, now <= t.at + TTL
        PROVE  \E q \in paths' : q.msg = t.msg /\ q.hops = t.longest
    <3>1. PICK u \in tasks : t = Bump(u, k)
      BY <2>0
    <3>2. t.msg = u.msg /\ t.at = u.at /\ t.again = u.again /\ u.at \in Nat
      BY <3>1, <1>c, BumpFacts
    <3>3. ~(u.at + TTL < now)
      BY <2>1, <3>2, <1>c
    <3>4. [msg |-> u.msg, at |-> u.at] \in recent
      BY <3>3 DEF Once, MessagesRemembered, Spawned
    <3>5. [msg |-> u.msg, at |-> u.at] \in recent \ Expired
      BY <3>3, <3>4 DEF Expired
    <3>6. PICK q \in paths : q.msg = u.msg /\ q.hops = u.longest
      BY <1>a, <2>1, <3>2
    <3> QED
      BY <1>3, <3>1, <3>2, <3>5, <3>6, PathOfTask
  <2>2. ASSUME handler'.pc = "ack", ~handler'.again
        PROVE  \E q \in paths' : q.msg = handler'.packet.msg /\ q.hops = handler'.packet.hops
    <3>1. IsNew(k.msg) /\ handler'.packet = k /\ \A e \in Expired : e.msg # k.msg
      BY <1>3, <2>2, TxtStartFacts
    <3>2. \A e \in recent : e.msg # k.msg
      BY <3>1 DEF IsNew
    <3>3. \A q \in paths : q.msg # k.msg
      BY <3>2 DEF FreshPaths, PathsHaveMessages
    <3> DEFINE r == [msg |-> k.msg, hops |-> k.hops, at |-> now]
    <3>4. r \in RememberPath(k)
      BY <3>3 DEF RememberPath
    <3>5. r \in paths'
      BY <1>3, <3>1, <3>4, TxtStartFacts DEF DropPaths
    <3> QED
      BY <3>1, <3>5
  <2> QED
    BY <2>0, <2>1, <2>2 DEF LongestKept
<1>4. CASE TxtAck
  <2>1. handler.pc = "ack" /\ handler'.pc = "idle" /\ tasks' = tasks \cup {NewTask}
        /\ UNCHANGED <<paths, now>>
    BY <1>4, TxtAckFacts
  <2>2. NewTask.msg = handler.packet.msg /\ NewTask.longest = handler.packet.hops
        /\ NewTask.again = handler.again
    BY DEF NewTask
  <2> QED
    BY <2>1, <2>2, <1>a DEF LongestKept
<1>5. ASSUME NEW t \in tasks, Reply(t) PROVE LongestKept'
  BY <1>5, <1>a DEF Reply, seen, LongestKept
<1>6. CASE Tick
  <2>1. UNCHANGED <<handler, tasks, paths>> /\ now' = now + 1
    BY <1>6 DEF Tick, seen
  <2>2. \A t \in tasks : now' <= t.at + TTL => now <= t.at + TTL
    BY <2>1, <1>c
  <2> QED
    BY <2>1, <2>2, <1>a DEF LongestKept
<1> QED
  BY <1>1, <1>2, <1>3, <1>4, <1>5, <1>6, MessageSteps

\* A reply keeps to the longest path, and so does every earlier one.
LEMMA NextLongestUsed ==
    TypeOK /\ LongestKept /\ LongestPathUsed /\ [Next]_vars => LongestPathUsed'
<1> SUFFICES ASSUME TypeOK, LongestKept, LongestPathUsed, [Next]_vars PROVE LongestPathUsed'
  OBVIOUS
<1>1. CASE echoed' = echoed \/ echoed' = {}
  BY <1>1 DEF LongestPathUsed
<1>2. ASSUME NEW t \in tasks, Reply(t) PROVE LongestPathUsed'
  <2>1. echoed' = echoed \cup {[task |-> t, path |-> BestPath(t), when |-> now]}
    BY <1>2 DEF Reply
  <2>2. (~t.again /\ now <= t.at + TTL) => BestPath(t).hops = t.longest
    <3>1. SUFFICES ASSUME ~t.again, now <= t.at + TTL PROVE BestPath(t).hops = t.longest
      OBVIOUS
    <3>2. PICK q \in paths : q.msg = t.msg /\ q.hops = t.longest
      BY <3>1 DEF LongestKept
    <3>3. BestPath(t) \in paths /\ BestPath(t).msg = t.msg
      BY <3>2, BestPathType
    <3>4. BestPath(t) = q
      BY <3>2, <3>3 DEF TypeOK
    <3> QED
      BY <3>2, <3>4
  <2> QED
    BY <2>1, <2>2 DEF LongestPathUsed
<1>3. echoed' = echoed \/ echoed' = {} \/ \E t \in tasks : Reply(t)
  BY MessageSteps DEF Forget, TxtStart, TxtAck, Tick
<1> QED
  BY <1>1, <1>2, <1>3

\* A reply within the TTL uses the longest path of all copies handled before it,
\* unless the message had expired and come back.
THEOREM LongestPathIsUsed == Spec => []LongestPathUsed
<1>1. Init => LongestKept /\ LongestPathUsed
  BY DEF Init, LongestKept, LongestPathUsed, Idle
<1>2. (LongestKept /\ LongestPathUsed) /\ (TypeOK /\ Once) /\ FreshPaths /\ [Next]_vars
          => (LongestKept /\ LongestPathUsed)'
  BY NextLongest, NextLongestUsed
<1> QED
  BY <1>1, <1>2, OnceInvariant, FreshInvariant, PTL DEF Spec

-----------------------------------------------------------------------------
(* What is ACKed is echoed. *)

\* The steps, as far as ACKs and tasks are concerned.
LEMMA AckSteps ==
    ASSUME [Next]_vars
    PROVE  \/ /\ UNCHANGED <<acked, failed, recent, tasks, echoed>>
              /\ handler' = handler \/ (handler = Down /\ handler' = Idle)
           \/ Forget
           \/ \E k \in Packets : TxtStart(k)
           \/ TxtReack
           \/ TxtAck
           \/ HandlerFails
           \/ \E t \in tasks : Reply(t)
<1> DEFINE Quiet == /\ UNCHANGED <<acked, failed, recent, tasks, echoed>>
                    /\ handler' = handler \/ (handler = Down /\ handler' = Idle)
<1>1. (\E a \in Adverts : HandleAdvert(a) \/ SaveFails(a)) => Quiet
  BY DEF HandleAdvert, SaveFails, seen
<1>2. Crash \/ (\E a \in Adverts : CrashWhileSaving(a)) => Forget
  BY DEF Crash, CrashWhileSaving
<1>3. Restart \/ RestartDies \/ Tick \/ UNCHANGED vars => Quiet
  BY DEF Restart, RestartDies, Tick, vars, seen
<1> QED
  BY <1>1, <1>2, <1>3 DEF Next

\* Every step accounts for what was ACKed or is remembered.
LEMMA NextAcked == TypeOK /\ AckedOrHandled /\ [Next]_vars => AckedOrHandled'
<1> DEFINE Kept(m) == m \in failed \/ \E t \in Spawned : t.msg = m
           Kept2(m) == m \in failed' \/ \E t \in Spawned' : t.msg = m
           Goal == /\ \A m \in acked' : Kept2(m)
                   /\ \A e \in recent' :
                         Kept2(e.msg) \/ (handler'.pc = "ack" /\ handler'.packet.msg = e.msg)
                   /\ handler'.pc = "reack" => Kept2(handler'.packet.msg)
<1> SUFFICES ASSUME TypeOK, AckedOrHandled, [Next]_vars PROVE Goal
  BY DEF AckedOrHandled, Accounted
<1>a. /\ \A m \in acked : Kept(m)
      /\ \A e \in recent : Kept(e.msg) \/ (handler.pc = "ack" /\ handler.packet.msg = e.msg)
      /\ handler.pc = "reack" => Kept(handler.packet.msg)
  BY DEF AckedOrHandled, Accounted
<1>b. Idle.pc = "idle" /\ Down.pc = "down"
  BY DEF Idle, Down
<1>1. CASE /\ UNCHANGED <<acked, failed, recent, tasks, echoed>>
           /\ handler' = handler \/ (handler = Down /\ handler' = Idle)
  <2>1. Spawned' = Spawned
    BY <1>1 DEF Spawned
  <2> QED
    BY <1>1, <2>1, <1>a, <1>b
<1>2. CASE Forget
  BY <1>2, <1>b DEF Forget
<1>3. ASSUME NEW k \in Packets, TxtStart(k) PROVE Goal
  <2>1. \A m : Kept(m) => Kept2(m)
    <3>0. failed' = failed
      BY <1>3 DEF TxtStart
    <3>1. SUFFICES ASSUME NEW u \in Spawned PROVE \E t \in Spawned' : t.msg = u.msg
      BY <3>0
    <3>2. CASE u \in tasks
      <4>1. Bump(u, k) \in tasks' /\ Bump(u, k).msg = u.msg
        <5>1. u \in Task
          BY <3>2 DEF TypeOK
        <5>2. tasks' = {Bump(t, k) : t \in tasks}
          BY <1>3, TxtStartFacts
        <5> QED
          BY <3>2, <5>1, <5>2, BumpFacts
      <4> QED
        BY <4>1 DEF Spawned
    <3>3. CASE u \in {e.task : e \in echoed}
      BY <1>3, <3>3, TxtStartFacts DEF Spawned
    <3> QED
      BY <3>2, <3>3 DEF Spawned
  <2>2. handler.pc = "idle" /\ acked' = acked /\ handler'.packet = k
    BY <1>3, <1>b, TxtStartFacts DEF TxtStart
  <2>3. CASE IsNew(k.msg)
    <3>1. handler'.pc = "ack" /\ recent' = (recent \ Expired) \cup {[msg |-> k.msg, at |-> now]}
      BY <1>3, <2>3, TxtStartFacts
    <3>2. \A e \in recent' : e \in recent \/ e.msg = k.msg
      BY <3>1
    <3> QED
      BY <2>1, <2>2, <3>1, <3>2, <1>a
  <2>4. CASE ~IsNew(k.msg)
    <3>1. handler'.pc = "reack" /\ recent' \subseteq recent
      BY <1>3, <2>4, TxtStartFacts
    <3>2. \E e \in recent : e.msg = k.msg
      BY <2>4 DEF IsNew
    <3>3. Kept(k.msg)
      BY <2>2, <3>2, <1>a
    <3> QED
      BY <2>1, <2>2, <3>1, <3>3, <1>a
  <2> QED
    BY <2>3, <2>4
<1>4. CASE TxtReack
  <2>1. handler.pc = "reack" /\ acked' = acked \cup {handler.packet.msg} /\ handler'.pc = "idle"
        /\ recent' = recent /\ Spawned' = Spawned /\ failed' = failed
    BY <1>4, <1>b DEF TxtReack, Spawned, seen
  <2> QED
    BY <2>1, <1>a
<1>5. CASE TxtAck
  <2>1. acked' = acked \cup {handler.packet.msg} /\ handler'.pc = "idle" /\ recent' = recent
        /\ tasks' = tasks \cup {NewTask} /\ echoed' = echoed /\ failed' = failed
    BY <1>5, TxtAckFacts DEF TxtAck
  <2>2. Spawned \subseteq Spawned' /\ NewTask \in Spawned' /\ NewTask.msg = handler.packet.msg
    BY <2>1 DEF Spawned, NewTask
  <2> QED
    BY <2>1, <2>2, <1>a
<1>6. ASSUME NEW t \in tasks, Reply(t) PROVE Goal
  <2>1. /\ tasks' = tasks \ {t}
        /\ echoed' = echoed \cup {[task |-> t, path |-> BestPath(t), when |-> now]}
        /\ UNCHANGED <<handler, acked, failed, recent>>
    BY <1>6 DEF Reply, seen
  <2>2. Spawned \subseteq Spawned'
    BY <2>1 DEF Spawned
  <2> QED
    BY <2>1, <2>2, <1>a
<1>7. CASE HandlerFails
  <2>1. /\ acked' \subseteq acked \cup {handler.packet.msg}
        /\ failed' = failed \cup {handler.packet.msg}
        /\ handler'.pc = "idle" /\ recent' = recent
    BY <1>7, <1>b DEF HandlerFails, seen
  <2>2. Spawned' = Spawned
    BY <1>7 DEF HandlerFails, Spawned
  <2> QED
    BY <2>1, <2>2, <1>a
<1> QED
  BY <1>1, <1>2, <1>3, <1>4, <1>5, <1>6, <1>7, AckSteps

\* Every message that was ACKed is echoed or about to be, unless an exception
\* ended its own handling.
THEOREM AckedAreEchoed == Spec => []AckedIsEchoed
<1>1. Init => AckedOrHandled
  BY DEF Init, AckedOrHandled, Idle
<1>2. AckedOrHandled /\ TypeOK /\ [Next]_vars => AckedOrHandled'
  BY NextAcked
<1>3. AckedOrHandled => AckedIsEchoed
  BY DEF AckedOrHandled, Accounted, AckedIsEchoed, Spawned
<1> QED
  BY <1>1, <1>2, <1>3, TypeCorrect, PTL DEF Spec
=============================================================================
