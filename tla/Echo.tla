-------------------------------- MODULE Echo --------------------------------
(***************************************************************************)
(* The echo server (home_auto_client/echo_server.py): contacts learned     *)
(* from adverts and kept in a cache file, and direct messages that are     *)
(* acknowledged and, after a delay, echoed along the best path seen.       *)
(*                                                                         *)
(* An action is what runs between two awaits; the receive loop finishes    *)
(* one packet before it takes the next.  Delivery of the reply itself is   *)
(* the subject of EchoDelivery.                                            *)
(***************************************************************************)
EXTENDS Integers

CONSTANTS
    Senders,      \* nodes, identified by their public keys
    Adverts,      \* valid adverts of others: [sender, ts, name]
    Configured,   \* config.contact_pub_keys
    Packets,      \* copies of text messages that may arrive: [msg, hops]
    TTL,          \* config.recent_message_ttl_s
    Delay,        \* config.ack_reply_delay_s
    MaxNow,       \* bound: clock ticks
    MaxFaults,    \* bound: awaits and file writes that raise
    MaxCrashes    \* bound: process deaths

ASSUME EchoAssumption ==
    /\ Configured \subseteq Senders
    /\ \A a \in Adverts : a.sender \in Senders /\ a.ts \in Nat
    /\ \A k \in Packets : k.msg.sender \in Senders /\ k.hops \in Nat
    /\ {TTL, Delay, MaxNow, MaxFaults, MaxCrashes} \subseteq Nat

VARIABLES
    handler,   \* where the receive loop is suspended, with its locals
    contacts,  \* _contacts: the name of each known sender
    advertTs,  \* _advert_ts, NoTs where there is none
    cache,     \* the contact cache file
    unsaved,   \* history: the last write of the cache failed
    recent,    \* _recent_messages: [msg, at]
    paths,     \* _recent_paths: [msg, hops, at]; `at` is history
    tasks,     \* deliver_echo tasks that have not replied yet
    echoed,    \* history: the replies this process has made
    acked,     \* history: the messages it has ACKed
    failed,    \* history: the messages whose handling ended in an exception
    now,       \* time.monotonic()
    budget     \* how many faults and crashes have happened

book == <<contacts, advertTs, cache, unsaved>>
seen == <<recent, paths>>
vars == <<handler, book, seen, tasks, echoed, acked, failed, now, budget>>

Idle == [pc |-> "idle"]
Down == [pc |-> "down"]

Unknown    == "unknown"
NoContacts == [s \in Senders |-> Unknown]
NoTs       == -1

Missing  == [state |-> "missing"]
Torn     == [state |-> "torn"]
Saved(c) == [state |-> "ok", rows |-> c]

Fault == budget.faults < MaxFaults /\ budget' = [budget EXCEPT !.faults = @ + 1]
Death == budget.crashes < MaxCrashes /\ budget' = [budget EXCEPT !.crashes = @ + 1]

-----------------------------------------------------------------------------
(* Starting *)

\* A contact without a name is given one when it is loaded.
LoadedName(name) == IF name = "" THEN "cached-contact" ELSE name

\* load_contact_cache: a file that is missing or does not parse gives no contacts.
Loaded(file) == IF file.state = "ok" THEN [s \in Senders |-> LoadedName(file.rows[s])] ELSE NoContacts

\* run() adds the configured contacts to the cached ones, under a fixed name.
StartContacts(file) ==
    [s \in Senders |-> IF s \in Configured THEN "configured" ELSE Loaded(file)[s]]

\* ... and saves the cache if that has changed anything.
StartCache(file) == IF StartContacts(file) = Loaded(file) THEN file ELSE Saved(StartContacts(file))

Init ==
    /\ handler = Idle
    /\ contacts = StartContacts(Missing)
    /\ advertTs = [s \in Senders |-> NoTs]
    /\ cache = StartCache(Missing)
    /\ unsaved = FALSE
    /\ recent = {}
    /\ paths = {}
    /\ tasks = {}
    /\ echoed = {}
    /\ acked = {}
    /\ failed = {}
    /\ now = 0
    /\ budget = [faults |-> 0, crashes |-> 0]

Restart ==
    /\ handler = Down
    /\ handler' = Idle
    /\ contacts' = StartContacts(cache)
    /\ cache' = StartCache(cache)
    /\ unsaved' = FALSE
    /\ UNCHANGED <<advertTs, seen, tasks, echoed, acked, failed, now, budget>>

\* The process dies again, while it writes the cache.
RestartDies ==
    /\ handler = Down
    /\ StartCache(cache) # cache
    /\ Death
    /\ cache' = Torn
    /\ UNCHANGED <<handler, contacts, advertTs, unsaved, seen, tasks, echoed, acked, failed, now>>

-----------------------------------------------------------------------------
(* handle_advert *)

\* Mutant: no advert is ever too old.
NeverStale(a) == FALSE

Stale(a) == a.ts < advertTs[a.sender]

\* Mutant: a new name alone is no reason to save.
OnlyIfNew(a) == contacts[a.sender] = Unknown

\* add_contact tells whether anything changed.
Changes(a) == contacts[a.sender] # a.name

Accept(a) ==
    /\ handler = Idle
    /\ ~Stale(a)
    /\ advertTs' = [advertTs EXCEPT ![a.sender] = a.ts]
    /\ contacts' = [contacts EXCEPT ![a.sender] = a.name]

HandleAdvert(a) ==
    /\ Accept(a)
    /\ cache' = IF Changes(a) THEN Saved(contacts') ELSE cache
    /\ unsaved' = IF Changes(a) THEN FALSE ELSE unsaved
    /\ UNCHANGED <<handler, seen, tasks, echoed, acked, failed, now, budget>>

\* The file cannot be opened, or cannot be written once open() has emptied it.
\* The receive loop goes on, and the contact stays in memory.
SaveFails(a) ==
    /\ Accept(a)
    /\ Changes(a)
    /\ Fault
    /\ cache' \in {cache, Torn}
    /\ unsaved' = TRUE
    /\ UNCHANGED <<handler, seen, tasks, echoed, acked, failed, now>>

-----------------------------------------------------------------------------
(* handle_txt_msg *)

\* Mutant: the first path seen is kept.
KeepFirstPath(k) ==
    IF \E q \in paths : q.msg = k.msg THEN paths
    ELSE paths \cup {[msg |-> k.msg, hops |-> k.hops, at |-> now]}

\* remember_path: a path replaces the one of an earlier copy if it has more hops ...
RememberPath(k) ==
    IF \E q \in paths : q.msg = k.msg /\ q.hops >= k.hops THEN paths
    ELSE {q \in paths : q.msg # k.msg} \cup {[msg |-> k.msg, hops |-> k.hops, at |-> now]}

\* Mutant: an entry as old as the TTL is dropped.
ExpiredAtTTL == {e \in recent : e.at + TTL <= now}

\* ... and only then remember_message drops what is older than the TTL ...
Expired == {e \in recent : e.at + TTL < now}

\* Mutant: the paths of expired messages are forgotten about, not dropped.
KeepPaths(ps) == ps

\* ... with the paths, the one just remembered included if its message had expired.
DropPaths(ps) == {q \in ps : \A e \in Expired : e.msg # q.msg}

\* Mutant: any recent message of the sender counts.
IsNewSender(m) == \A e \in recent \ Expired : e.msg.sender # m.sender

IsNew(m) == \A e \in recent \ Expired : e.msg # m

\* The message decrypts with the key of a known contact.  The task's `longest`
\* is history: the most hops of any copy since the message was accepted.
TxtStart(k) ==
    /\ handler = Idle
    /\ contacts[k.msg.sender] # Unknown
    /\ paths' = DropPaths(RememberPath(k))
    /\ recent' = (recent \ Expired) \cup (IF IsNew(k.msg) THEN {[msg |-> k.msg, at |-> now]} ELSE {})
    /\ handler' = [pc |-> IF IsNew(k.msg) THEN "ack" ELSE "reack", packet |-> k, at |-> now,
                   again |-> \E e \in Expired : e.msg = k.msg]
    /\ tasks' = {IF t.msg = k.msg /\ t.longest < k.hops THEN [t EXCEPT !.longest = k.hops] ELSE t :
                    t \in tasks}
    /\ UNCHANGED <<book, echoed, acked, failed, now, budget>>

\* send_txt_ack for a repetition.
TxtReack ==
    /\ handler.pc = "reack"
    /\ acked' = acked \cup {handler.packet.msg}
    /\ handler' = Idle
    /\ UNCHANGED <<book, seen, tasks, echoed, failed, now, budget>>

\* send_txt_ack for a new message; then deliver_echo is spawned and sleeps.
TxtAck ==
    /\ handler.pc = "ack"
    /\ acked' = acked \cup {handler.packet.msg}
    /\ tasks' = tasks \cup {[msg |-> handler.packet.msg, hops |-> handler.packet.hops,
                             at |-> handler.at, wake |-> now + Delay,
                             longest |-> handler.packet.hops, again |-> handler.again]}
    /\ handler' = Idle
    /\ UNCHANGED <<book, seen, echoed, failed, now, budget>>

\* publish() raises, though the ACK may have left; the receive loop goes on.
HandlerFails ==
    /\ handler.pc \in {"ack", "reack"}
    /\ Fault
    /\ acked' \in {acked, acked \cup {handler.packet.msg}}
    /\ failed' = failed \cup {handler.packet.msg}
    /\ handler' = Idle
    /\ UNCHANGED <<book, seen, tasks, echoed, now>>

\* best_path_packet, with the packet that was handled to fall back on.
BestPath(t) ==
    IF \E q \in paths : q.msg = t.msg THEN CHOOSE q \in paths : q.msg = t.msg
    ELSE [msg |-> t.msg, hops |-> t.hops, at |-> t.at]

\* deliver_echo wakes up and chooses the path of its reply.
Reply(t) ==
    /\ handler # Down
    /\ t.wake <= now
    /\ tasks' = tasks \ {t}
    /\ echoed' = echoed \cup {[task |-> t, path |-> BestPath(t), when |-> now]}
    /\ UNCHANGED <<handler, book, seen, acked, failed, now, budget>>

-----------------------------------------------------------------------------
(* The process dies, maybe while it writes the cache. *)

Forget ==
    /\ handler' = Down
    /\ contacts' = NoContacts
    /\ advertTs' = [s \in Senders |-> NoTs]
    /\ recent' = {}
    /\ paths' = {}
    /\ tasks' = {}
    /\ echoed' = {}
    /\ acked' = {}
    /\ failed' = {}
    /\ UNCHANGED <<unsaved, now>>

Crash ==
    /\ handler # Down
    /\ Death
    /\ Forget
    /\ UNCHANGED cache

CrashWhileSaving(a) ==
    /\ handler = Idle
    /\ ~Stale(a)
    /\ Changes(a)
    /\ Death
    /\ Forget
    /\ cache' = Torn

Tick ==
    /\ now < MaxNow
    /\ now' = now + 1
    /\ UNCHANGED <<handler, book, seen, tasks, echoed, acked, failed, budget>>

Next ==
    \/ \E a \in Adverts : HandleAdvert(a) \/ SaveFails(a) \/ CrashWhileSaving(a)
    \/ \E k \in Packets : TxtStart(k)
    \/ TxtReack
    \/ TxtAck
    \/ HandlerFails
    \/ \E t \in tasks : Reply(t)
    \/ Crash
    \/ Restart
    \/ RestartDies
    \/ Tick

Spec == Init /\ [][Next]_vars
-----------------------------------------------------------------------------
(* Properties *)

Names == {a.name : a \in Adverts} \cup {"configured", "cached-contact"}
Texts == {k.msg : k \in Packets}

Task == [msg : Texts, hops : Nat, at : Nat, wake : Nat, longest : Nat, again : BOOLEAN]

Path == [msg : Texts, hops : Nat, at : Nat]

\* The variables have their types; a message has one entry and one path.
TypeOK ==
    /\ \/ handler \in {Idle, Down}
       \/ handler \in [pc : {"ack", "reack"}, packet : Packets, at : Nat, again : BOOLEAN]
    /\ contacts \in [Senders -> Names \cup {Unknown}]
    /\ advertTs \in [Senders -> Nat \cup {NoTs}]
    /\ cache \in {Missing, Torn} \cup {Saved(c) : c \in [Senders -> Names \cup {Unknown}]}
    /\ recent \subseteq [msg : Texts, at : Nat]
    /\ \A e, f \in recent : e.msg = f.msg => e = f
    /\ paths \subseteq Path
    /\ \A p, q \in paths : p.msg = q.msg => p = q
    /\ tasks \subseteq Task
    /\ echoed \subseteq [task : Task, path : Path, when : Nat]
    /\ acked \subseteq Texts
    /\ failed \subseteq Texts
    /\ unsaved \in BOOLEAN
    /\ now \in Nat
    /\ budget \in [faults : Nat, crashes : Nat]

\* A restart would know exactly the contacts that the server knows now, under
\* their names (or the substitute for none), unless the last write of the cache
\* has failed: one that succeeds, or a restart, makes them agree again.
CacheCurrent ==
    (handler # Down /\ ~unsaved) => \A s \in Senders : Loaded(cache)[s] = LoadedName(contacts[s])

\* While the server runs, an advert that is older than one already accepted
\* (a replay, or a copy that took the long way) never changes a contact's name.
NamesNeverRevert ==
    [][\A s \in Senders :
          (contacts'[s] # contacts[s] /\ advertTs[s] # NoTs /\ handler' # Down) =>
              \E a \in Adverts : /\ a.sender = s
                                 /\ a.name = contacts'[s]
                                 /\ a.ts >= advertTs[s]]_vars

\* A reply never goes along a path recorded before its message arrived, not
\* even when the same message had been here a TTL ago.
ReplyPathFresh == \A e \in echoed : e.path.at >= e.task.at

\* A reply that leaves within the TTL uses the longest path of all the copies
\* handled before it.  Only a message that had expired and come back is
\* different: the path of its first copy goes with the expired entry.
LongestPathUsed ==
    \A e \in echoed :
        (~e.task.again /\ e.when <= e.task.at + TTL) => e.path.hops = e.task.longest

\* Copies of one message are answered once per TTL.
EchoedOncePerTTL ==
    \A s, t \in tasks \cup {e.task : e \in echoed} :
        (s # t /\ s.msg = t.msg) => s.at + TTL < t.at \/ t.at + TTL < s.at

\* Every message that was ACKed is echoed, or about to be.  Only a message
\* whose own handling an exception ended may be ACKed and never echoed.
AckedIsEchoed ==
    handler = Idle =>
        \A m \in acked \ failed : \E t \in tasks \cup {e.task : e \in echoed} : t.msg = m
=============================================================================
