--------------------------- MODULE ObserverProof ---------------------------
(***************************************************************************)
(* Proofs about Observer, for every number of targets, every set of        *)
(* packets and every back-off.                                             *)
(***************************************************************************)
EXTENDS Observer, PacketProof

-----------------------------------------------------------------------------
(* The inductive invariant. *)

Pcs   == {"idle", "connecting", "announcing", "publishing", "done"}
Links == {"none", "up", "dead", "lost"}

TargetType == [client : BOOLEAN, pc : Pcs, backoff : 1..MaxBackoff, retry : 0..MaxBackoff]

\* TypeOK, with the domains of the functions.
Typed ==
    /\ loop \in {"off", "recv", "gather", "close"}
    /\ loop # "off" => boot = "up"
    /\ target \in [T -> TargetType]
    /\ link \in [T -> Links]
    /\ live \in [T -> BOOLEAN]
    /\ stale \in [T -> BOOLEAN]
    /\ left \in [T -> BOOLEAN]
    /\ copies \in [T -> Nat]
    /\ status \in [T -> {"none", "online", "offline"}]

\* The identity that a process uses is the operator's, or the one in a file
\* that is whole.  Nobody has seen another, and what is being written has not
\* been seen at all.
IdentitySound ==
    /\ boot \in {"down", "saving", "up", "failed"}
    /\ file \in [size : {"missing", "part", "whole"}, seed : Seeds \cup {"none"}]
    /\ file.size # "missing" => file.seed # "none"
    /\ env \in Envs
    /\ boot = "saving" => env = "unset" /\ file.size = "part" /\ ident = file.seed
    /\ env # "unset" => used \subseteq {env} /\ (boot = "up" => ident = env)
    /\ env = "unset" =>
        /\ used \subseteq {file.seed}
        /\ used # {} => file.size = "whole"
        /\ boot = "up" => file.size = "whole" /\ ident = file.seed

\* A target has a client exactly while it has a connection, which is up exactly
\* while the broker has its end; nothing is being connected that is connected,
\* and one that is connected has not been closed.
LinkSound(t) ==
    /\ link[t] = "none" <=> ~target[t].client
    /\ live[t] <=> link[t] = "up"
    /\ target[t].pc = "connecting" => ~target[t].client
    /\ link[t] # "none" => ~left[t]

\* While the loop waits, a target whose publish() has not ended has got nothing
\* of the event; one whose publish() has, got it once if it is connected.
CopySound(t) ==
    loop = "gather" =>
        /\ target[t].pc # "done" => copies[t] = 0
        /\ target[t].pc = "done" => copies[t] <= 1 /\ (live[t] => copies[t] = 1)

Online(t) == status[t] = "online" => live[t] \/ stale[t] \/ left[t]

\* The event is built from a packet.
EventSound ==
    event.raw # <<>> => event.raw \in Raws /\ event.hash = PacketHash(event.raw)

TargetsSound == \A t \in T : LinkSound(t) /\ CopySound(t) /\ Online(t)

IInv == Typed /\ IdentitySound /\ TargetsSound /\ EventSound

-----------------------------------------------------------------------------
(* Identity *)

\* Starting an observer, step by step and with every failure, keeps the
\* identity sound.
LEMMA BootSound == ASSUME IdentitySound, Id!Boot PROVE IdentitySound'
<1> USE DEF IdentitySound, Id!Missing
<1>1. CASE Id!FromEnvironment
  BY <1>1 DEF Id!FromEnvironment
<1>2. CASE Id!Load
  BY <1>2 DEF Id!Load
<1>3. CASE Id!Generate
  <2>1. Id!New(used) \in Seeds /\ Id!New(used) # "none"
    <3>1. used = {}
      BY <1>3 DEF Id!Generate
    <3> QED
      BY <3>1, SeedsAssumption DEF Id!New
  <2>2. used = {}
    BY <1>3 DEF Id!Generate
  <2> QED
    BY <1>3, <2>1, <2>2 DEF Id!Generate
<1>4. CASE Id!Saved
  BY <1>4 DEF Id!Saved
<1>5. CASE Id!SaveFails
  <2>1. used = {}
    BY <1>5 DEF Id!SaveFails
  <2> QED
    BY <1>5, <2>1 DEF Id!SaveFails
<1>6. ASSUME NEW repair \in BOOLEAN, Id!Restart(repair) PROVE IdentitySound'
  BY <1>6 DEF Id!Restart
<1> QED
  BY <1>1, <1>2, <1>3, <1>4, <1>5, <1>6 DEF Id!Boot

\* What the loops do leaves the identity as it is.
LEMMA IdentityKeptStep == ASSUME IdentitySound, UNCHANGED identity PROVE IdentitySound'
BY DEF IdentitySound, identity

\* The end of a process leaves what is on disk.
LEMMA DieSound == ASSUME IdentitySound, Id!Die PROVE IdentitySound'
BY DEF IdentitySound, Id!Die

\* An observer that begins shows the identity it has, and no other.
LEMMA ShowSound == ASSUME IdentitySound, boot = "up", Id!Show PROVE IdentitySound'
BY DEF IdentitySound, Id!Show

-----------------------------------------------------------------------------
(* run() *)

\* An observer that was never started is sound.
LEMMA InitSound == Init => IInv
<1> SUFFICES ASSUME Init PROVE IInv
  OBVIOUS
<1>1. IdentitySound
  BY DEF Init, Id!InitIdentity, Id!Missing, IdentitySound
<1>2. Typed
  <2>1. Fresh \in TargetType
    BY ObserverAssumption DEF Fresh, TargetType, Pcs
  <2> QED
    BY <2>1 DEF Init, Typed, Links
<1>3. TargetsSound
  BY DEF Init, TargetsSound, LinkSound, CopySound, Online, Fresh
<1>4. EventSound
  BY DEF Init, EventSound, NoEvent
<1> QED
  BY <1>1, <1>2, <1>3, <1>4 DEF IInv

\* resolve_identity, and the beginning of the loops.
LEMMA StartupSound == ASSUME IInv, Resolve \/ Begin PROVE IInv'
<1>a. Typed /\ IdentitySound /\ TargetsSound /\ EventSound
  BY DEF IInv
<1>1. CASE Resolve
  <2>1. IdentitySound'
    BY <1>1, <1>a, BootSound DEF Resolve
  <2> QED
    BY <1>1, <1>a, <2>1
    DEF Resolve, broker, IInv, Typed, TargetsSound, LinkSound, CopySound, Online, EventSound
<1>2. CASE Begin
  <2>1. IdentitySound'
    BY <1>2, <1>a, ShowSound DEF Begin
  <2>2. boot' = boot
    BY <1>2 DEF Begin, Id!Show
  <2> QED
    BY <1>2, <1>a, <2>1, <2>2
    DEF Begin, broker, IInv, Typed, TargetsSound, LinkSound, CopySound, Online, EventSound
<1> QED
  BY <1>1, <1>2

\* What publish() does first keeps a target's type, and connects only a target
\* that is not connected.
LEMMA StartsFacts ==
    ASSUME NEW t \in T, target[t] \in TargetType
    PROVE  /\ Starts(t) \in TargetType
           /\ Starts(t).client = target[t].client
           /\ Starts(t).pc = "connecting" => ~target[t].client
           /\ Starts(t).pc = "done" => ~target[t].client
<1> DEFINE r == target[t]
<1>1. /\ r.client \in BOOLEAN /\ r.pc \in Pcs
      /\ r.retry \in 0..MaxBackoff /\ r.backoff \in 1..MaxBackoff
  BY DEF TargetType
<1>2. r.backoff \in 0..MaxBackoff /\ (r.retry > 0 <=> r.retry # 0)
  BY <1>1, ObserverAssumption
<1> DEFINE pc    == IF r.client THEN "publishing" ELSE IF r.retry # 0 THEN "done" ELSE "connecting"
           retry == IF ~r.client /\ r.retry = 0 THEN r.backoff ELSE r.retry
<1>3. Starts(t) = [r EXCEPT !.pc = pc, !.retry = retry]
  BY <1>2 DEF Starts
<1>4. pc \in Pcs /\ retry \in 0..MaxBackoff
  BY <1>1, <1>2 DEF Pcs
<1> HIDE DEF pc, retry
<1>5. Starts(t) \in TargetType /\ Starts(t).client = r.client /\ Starts(t).pc = pc
  BY <1>3, <1>4 DEF TargetType
<1> QED
  BY <1>5 DEF pc

\* forward_loop takes a packet.
LEMMA TakeSound == ASSUME IInv, NEW raw \in Raws, Take(raw) PROVE IInv'
<1>a. Typed /\ IdentitySound /\ TargetsSound
  BY DEF IInv
<1>b. \A t \in T : target[t] \in TargetType
  BY <1>a DEF Typed
<1>1. IdentitySound'
  BY <1>a, IdentityKeptStep DEF Take
<1>2. Typed'
  <2>1. target' \in [T -> TargetType]
    BY <1>b, StartsFacts DEF Take
  <2> QED
    BY <1>a, <2>1 DEF Take, Typed, identity
<1>3. ASSUME NEW t \in T PROVE LinkSound(t)' /\ CopySound(t)' /\ Online(t)'
  <2>1. target'[t] = Starts(t) /\ copies'[t] = 0
    BY DEF Take
  <2>2. LinkSound(t) /\ Online(t)
    BY <1>a DEF TargetsSound
  <2>3. LinkSound(t)'
    BY <1>b, <2>1, <2>2, StartsFacts DEF Take, LinkSound
  <2>4. CopySound(t)'
    BY <1>b, <2>1, <2>2, StartsFacts DEF Take, LinkSound, CopySound
  <2> QED
    BY <2>2, <2>3, <2>4 DEF Take, Online
<1>4. EventSound'
  BY DEF Take, BuildEvent, EventSound
<1> QED
  BY <1>1, <1>2, <1>3, <1>4 DEF IInv, TargetsSound

\* The brokers keep what they hold, and the connections that are gone.
LEMMA LeftBehind ==
    ASSUME NEW gone, LeaveBehind(gone)
    PROVE  /\ stale' \in [T -> BOOLEAN]
           /\ \A t \in T : stale[t] \/ t \in gone => stale'[t]
<1>1. PICK half : stale' = [t \in T |-> stale[t] \/ t \in gone \cup half]
  BY DEF LeaveBehind
<1> QED
  BY <1>1

\* The loop goes on, loses the bus, or a moment passes: where each target is
\* changes, and no connection but those that are being made.
LEMMA LoopSound == ASSUME IInv, Gathered \/ BusLost \/ Tick PROVE IInv'
<1>a. Typed /\ IdentitySound /\ TargetsSound /\ EventSound
  BY DEF IInv
<1>1. IdentitySound'
  BY <1>a, IdentityKeptStep DEF Gathered, BusLost, Tick
<1>2. /\ \A t \in T : target'[t].client = target[t].client
      /\ \A t \in T : target'[t].pc \in {"idle", "done", target[t].pc}
      /\ target' \in [T -> TargetType]
  <2>1. \A t \in T : target[t] \in TargetType
    BY <1>a DEF Typed
  <2>2. CASE Gathered
    BY <2>1, <2>2 DEF Gathered, TargetType, Pcs
  <2>3. CASE BusLost
    BY <2>1, <2>3 DEF BusLost, TargetType, Pcs
  <2>4. CASE Tick
    BY <2>1, <2>4, ObserverAssumption DEF Tick, TargetType, Pcs
  <2> QED
    BY <2>2, <2>3, <2>4
<1>3. UNCHANGED <<link, live, status, left>>
  BY DEF Gathered, BusLost, Tick, broker
<1>4. stale' \in [T -> BOOLEAN] /\ \A t \in T : stale[t] => stale'[t]
  <2>1. CASE Gathered \/ Tick
    BY <1>a, <2>1 DEF Gathered, Tick, broker, Typed
  <2>2. CASE BusLost
    BY <2>2, LeftBehind DEF BusLost
  <2> QED
    BY <2>1, <2>2
<1>5. Typed'
  BY <1>a, <1>2, <1>3, <1>4 DEF Gathered, BusLost, Tick, broker, identity, Typed
<1>6. ASSUME NEW t \in T PROVE LinkSound(t)' /\ Online(t)'
  BY <1>a, <1>2, <1>3, <1>4 DEF TargetsSound, LinkSound, Online
<1>7. ASSUME NEW t \in T PROVE CopySound(t)'
  <2>1. CASE Tick
    <3>1. target'[t].pc = target[t].pc
      BY <1>a, <2>1 DEF Tick, Typed, TargetType
    <3> QED
      BY <1>a, <2>1, <3>1 DEF Tick, broker, TargetsSound, CopySound
  <2> QED
    BY <2>1 DEF Gathered, BusLost, CopySound
<1>8. EventSound'
  BY <1>a DEF Gathered, BusLost, Tick, EventSound, NoEvent
<1> QED
  BY <1>1, <1>5, <1>6, <1>7, <1>8 DEF IInv, TargetsSound

-----------------------------------------------------------------------------
(* One target *)

\* The variables of the targets have their types.
TargetsTyped ==
    /\ target \in [T -> TargetType]
    /\ link \in [T -> Links]
    /\ live \in [T -> BOOLEAN]
    /\ stale \in [T -> BOOLEAN]
    /\ left \in [T -> BOOLEAN]
    /\ copies \in [T -> Nat]
    /\ status \in [T -> {"none", "online", "offline"}]

OfTarget(u) == <<target[u], link[u], live[u], stale[u], left[u], status[u], copies[u]>>

\* A step of one target keeps the invariant if it keeps the types, leaves the
\* other targets alone, and the invariant holds for its own target.
LEMMA OneTargetSound ==
    ASSUME IInv, NEW t \in T,
           UNCHANGED <<identity, event>>,
           loop' = loop \/ (loop' = "close" /\ loop # "off"),
           TargetsTyped',
           \A u \in T \ {t} : UNCHANGED OfTarget(u),
           LinkSound(t)', CopySound(t)', Online(t)'
    PROVE  IInv'
<1>a. Typed /\ IdentitySound /\ TargetsSound /\ EventSound
  BY DEF IInv
<1>1. IdentitySound'
  BY <1>a, IdentityKeptStep
<1>2. Typed'
  <2>1. boot' = boot
    BY DEF identity
  <2> QED
    BY <1>a, <2>1 DEF Typed, TargetsTyped
<1>3. ASSUME NEW u \in T, u # t PROVE LinkSound(u)' /\ CopySound(u)' /\ Online(u)'
  <2>1. /\ target'[u] = target[u] /\ link'[u] = link[u] /\ live'[u] = live[u] /\ stale'[u] = stale[u]
        /\ left'[u] = left[u] /\ status'[u] = status[u] /\ copies'[u] = copies[u]
    BY <1>3 DEF OfTarget
  <2>2. LinkSound(u) /\ CopySound(u) /\ Online(u)
    BY <1>a DEF TargetsSound
  <2>3. loop' = "gather" => loop = "gather"
    OBVIOUS
  <2> QED
    BY <2>1, <2>2, <2>3 DEF LinkSound, CopySound, Online
<1>4. EventSound'
  BY <1>a DEF EventSound
<1> QED
  BY <1>1, <1>2, <1>3, <1>4 DEF IInv, TargetsSound

\* What the invariant says of one target.
LEMMA TargetFacts ==
    ASSUME IInv, NEW t \in T
    PROVE  /\ TargetsTyped
           /\ target[t].client \in BOOLEAN /\ target[t].pc \in Pcs
           /\ target[t].backoff \in 1..MaxBackoff /\ target[t].retry \in 0..MaxBackoff
           /\ LinkSound(t) /\ CopySound(t) /\ Online(t)
BY DEF IInv, Typed, TargetsSound, TargetsTyped, TargetType

\* _connect, which succeeds or fails.
LEMMA ConnectSound ==
    ASSUME IInv, NEW t \in T, ConnectSucceeds(t) \/ ConnectFails(t)
    PROVE  IInv'
<1>a. /\ TargetsTyped /\ LinkSound(t) /\ CopySound(t) /\ Online(t)
      /\ target[t].client \in BOOLEAN /\ target[t].pc \in Pcs
      /\ target[t].backoff \in 1..MaxBackoff /\ target[t].retry \in 0..MaxBackoff
  BY TargetFacts
<1>1. CASE ConnectSucceeds(t)
  <2> DEFINE r == [client |-> TRUE, pc |-> "announcing", backoff |-> 1, retry |-> 0]
  <2>1. r \in TargetType
    BY ObserverAssumption DEF TargetType, Pcs
  <2>2. target' = [target EXCEPT ![t] = r]
    BY <1>1 DEF ConnectSucceeds, Set
  <2>3. TargetsTyped'
    BY <1>1, <1>a, <2>1, <2>2 DEF ConnectSucceeds, TargetsTyped, Links
  <2>4. \A u \in T \ {t} : UNCHANGED OfTarget(u)
    BY <1>1, <1>a, <2>2 DEF ConnectSucceeds, TargetsTyped, OfTarget
  <2>5. target'[t] = r /\ link'[t] = "up" /\ live'[t] = TRUE /\ left'[t] = FALSE /\ copies' = copies
    BY <1>1, <1>a, <2>2 DEF ConnectSucceeds, TargetsTyped
  <2>6. LinkSound(t)' /\ Online(t)'
    BY <2>5 DEF LinkSound, Online
  <2>7. CopySound(t)'
    BY <1>1, <1>a, <2>5 DEF ConnectSucceeds, Running, CopySound
  <2> QED
    BY <1>1, <2>3, <2>4, <2>6, <2>7, OneTargetSound DEF ConnectSucceeds
<1>2. CASE ConnectFails(t)
  <2> DEFINE r == [target[t] EXCEPT !.pc = "done", !.backoff = Doubled(target[t].backoff)]
  <2>1. Doubled(target[t].backoff) \in 1..MaxBackoff
    BY <1>a, ObserverAssumption DEF Doubled
  <2>2. r \in TargetType /\ r.client = target[t].client /\ r.pc = "done"
    BY <1>a, <2>1 DEF TargetsTyped, TargetType, Pcs
  <2>3. target' = [target EXCEPT ![t] = r] /\ UNCHANGED <<link, live, left, status, copies>>
        /\ stale' \in {stale, [stale EXCEPT ![t] = TRUE]}
    BY <1>2 DEF ConnectFails, Set
  <2> HIDE DEF r
  <2>4. TargetsTyped'
    BY <1>a, <2>2, <2>3 DEF TargetsTyped
  <2>5. \A u \in T \ {t} : UNCHANGED OfTarget(u)
    BY <1>a, <2>3 DEF TargetsTyped, OfTarget
  <2>6. target'[t] = r
    BY <1>a, <2>3 DEF TargetsTyped
  <2>7. LinkSound(t)' /\ Online(t)'
    BY <1>a, <2>2, <2>3, <2>6 DEF LinkSound, Online, TargetsTyped
  <2>8. CopySound(t)'
    BY <1>2, <1>a, <2>2, <2>3, <2>6 DEF ConnectFails, Running, LinkSound, CopySound
  <2> QED
    BY <1>2, <2>4, <2>5, <2>7, <2>8, OneTargetSound DEF ConnectFails
<1> QED
  BY <1>1, <1>2

\* The announcement, and what ends a publish().
LEMMA PublishSound ==
    ASSUME IInv, NEW t \in T, Announce(t) \/ Publish(t) \/ TimesOut(t) \/ Raises(t)
    PROVE  IInv'
<1>a. /\ TargetsTyped /\ LinkSound(t) /\ CopySound(t) /\ Online(t)
      /\ target[t].client \in BOOLEAN /\ target[t].pc \in Pcs
  BY TargetFacts
<1>b. copies[t] \in Nat
  BY <1>a DEF TargetsTyped
<1>1. CASE Announce(t)
  <2>1. target' = [target EXCEPT ![t].pc = "publishing"]
    BY <1>1 DEF Announce, Set
  <2>2. TargetsTyped'
    BY <1>1, <1>a, <2>1 DEF Announce, TargetsTyped, TargetType, Pcs
  <2>3. \A u \in T \ {t} : UNCHANGED OfTarget(u)
    BY <1>1, <1>a, <2>1 DEF Announce, TargetsTyped, OfTarget
  <2>4. target'[t].pc = "publishing" /\ target'[t].client = target[t].client
    BY <1>a, <2>1 DEF TargetsTyped, TargetType
  <2>5. LinkSound(t)' /\ CopySound(t)'
    BY <1>1, <1>a, <2>4 DEF Announce, Running, LinkSound, CopySound
  <2>6. Online(t)'
    BY <1>1, <1>a DEF Announce, TargetsTyped, LinkSound, Online
  <2> QED
    BY <1>1, <2>2, <2>3, <2>5, <2>6, OneTargetSound DEF Announce
<1>2. CASE Publish(t)
  <2>1. target' = [target EXCEPT ![t].pc = "done"]
    BY <1>2 DEF Publish, Set
  <2>2. TargetsTyped'
    BY <1>2, <1>a, <1>b, <2>1 DEF Publish, Delivered, TargetsTyped, TargetType, Pcs
  <2>3. \A u \in T \ {t} : UNCHANGED OfTarget(u)
    BY <1>2, <1>a, <2>1 DEF Publish, Delivered, TargetsTyped, OfTarget
  <2>4. target'[t].pc = "done" /\ target'[t].client = target[t].client
    BY <1>a, <2>1 DEF TargetsTyped, TargetType
  <2>5. LinkSound(t)' /\ Online(t)'
    BY <1>2, <1>a, <2>4 DEF Publish, LinkSound, Online
  <2>6. CopySound(t)'
    BY <1>2, <1>a, <1>b, <2>4 DEF Publish, Running, Delivered, TargetsTyped, LinkSound, CopySound
  <2> QED
    BY <1>2, <2>2, <2>3, <2>5, <2>6, OneTargetSound DEF Publish
<1>3. CASE TimesOut(t)
  <2>1. target' = [target EXCEPT ![t].client = FALSE, ![t].pc = "done"]
    BY <1>3, <1>a DEF TimesOut, Set, TargetsTyped
  <2>2. TargetsTyped'
    <3>1. target' \in [T -> TargetType]
      BY <1>a, <2>1 DEF TargetsTyped, TargetType, Pcs
    <3>2. copies' \in [T -> Nat]
      BY <1>3, <1>a, <1>b DEF TimesOut, Delivered, TargetsTyped
    <3>3. link' \in [T -> Links] /\ live' \in [T -> BOOLEAN] /\ left' \in [T -> BOOLEAN]
      BY <1>3, <1>a DEF TimesOut, Disconnect, TargetsTyped, Links
    <3> QED
      BY <1>3, <1>a, <3>1, <3>2, <3>3 DEF TimesOut, Disconnect, TargetsTyped
  <2>3. \A u \in T \ {t} : UNCHANGED OfTarget(u)
    BY <1>3, <1>a, <2>1 DEF TimesOut, Disconnect, Delivered, TargetsTyped, OfTarget
  <2>4. target'[t].pc = "done" /\ target'[t].client = FALSE
    BY <1>a, <2>1 DEF TargetsTyped, TargetType
  <2>5. link'[t] = "none" /\ live'[t] = FALSE /\ left'[t] = live[t] /\ UNCHANGED <<stale, status>>
    BY <1>3, <1>a DEF TimesOut, Disconnect, TargetsTyped
  <2>6. LinkSound(t)'
    BY <1>a, <2>4, <2>5 DEF LinkSound, TargetsTyped
  <2>7. Online(t)'
    BY <1>3, <1>a, <2>5 DEF TimesOut, LinkSound, Online
  <2>8. CopySound(t)'
    BY <1>3, <1>a, <1>b, <2>4, <2>5 DEF TimesOut, Running, Delivered, TargetsTyped, CopySound
  <2> QED
    BY <1>3, <2>2, <2>3, <2>6, <2>7, <2>8, OneTargetSound DEF TimesOut
<1>4. CASE Raises(t)
  <2>1. target' = [target EXCEPT ![t].pc = "done"]
    BY <1>4 DEF Raises, Set
  <2>2. TargetsTyped'
    BY <1>4, <1>a, <2>1 DEF Raises, broker, TargetsTyped, TargetType, Pcs
  <2>3. \A u \in T \ {t} : UNCHANGED OfTarget(u)
    BY <1>4, <1>a, <2>1 DEF Raises, broker, TargetsTyped, OfTarget
  <2>4. target'[t].pc = "done" /\ target'[t].client = target[t].client
    BY <1>a, <2>1 DEF TargetsTyped, TargetType
  <2>5. LinkSound(t)' /\ CopySound(t)' /\ Online(t)'
    BY <1>4, <1>a, <2>4 DEF Raises, broker, LinkSound, CopySound, Online
  <2> QED
    BY <1>4, <2>2, <2>3, <2>5, OneTargetSound DEF Raises, Running
<1> QED
  BY <1>1, <1>2, <1>3, <1>4

\* The finally clause closes a target.
LEMMA CloseSound == ASSUME IInv, NEW t \in T, Close(t) PROVE IInv'
<1>a. /\ TargetsTyped /\ LinkSound(t) /\ CopySound(t) /\ Online(t)
      /\ target[t].client \in BOOLEAN /\ target[t].pc \in Pcs
  BY TargetFacts
<1>1. CASE target[t].client
  <2>1. target' = [target EXCEPT ![t].client = FALSE] /\ Disconnect(t) /\ copies' = copies
    BY <1>1 DEF Close, Set
  <2>2. TargetsTyped'
    <3>1. target' \in [T -> TargetType]
      BY <1>a, <2>1 DEF TargetsTyped, TargetType, Pcs
    <3>2. link' \in [T -> Links] /\ live' \in [T -> BOOLEAN] /\ left' \in [T -> BOOLEAN]
      BY <1>a, <2>1 DEF Disconnect, TargetsTyped, Links
    <3> QED
      BY <1>a, <2>1, <3>1, <3>2 DEF Disconnect, TargetsTyped
  <2>3. \A u \in T \ {t} : UNCHANGED OfTarget(u)
    BY <1>a, <2>1 DEF Disconnect, TargetsTyped, OfTarget
  <2>4. target'[t].client = FALSE
    BY <1>a, <2>1 DEF TargetsTyped, TargetType
  <2>5. link'[t] = "none" /\ live'[t] = FALSE /\ left'[t] = live[t] /\ UNCHANGED <<stale, status>>
    BY <1>a, <2>1 DEF Disconnect, TargetsTyped
  <2>6. LinkSound(t)' /\ Online(t)'
    BY <1>1, <1>a, <2>4, <2>5 DEF LinkSound, Online
  <2>7. CopySound(t)'
    BY DEF Close, CopySound
  <2> QED
    BY <2>2, <2>3, <2>6, <2>7, OneTargetSound DEF Close
<1>2. CASE ~target[t].client
  <2>1. UNCHANGED <<target, link, live, stale, left, status, copies, loop>>
    BY <1>2 DEF Close
  <2> QED
    BY <1>a, <2>1, OneTargetSound DEF Close, TargetsTyped, OfTarget, LinkSound, CopySound, Online
<1> QED
  BY <1>a, <1>1, <1>2

\* Connections die, and either side notices.
LEMMA BrokerSound ==
    ASSUME IInv, NEW t \in T, Sever(t) \/ ClientNotices(t) \/ BrokerNotices(t)
    PROVE  IInv'
<1>a. TargetsTyped /\ LinkSound(t) /\ CopySound(t) /\ Online(t)
  BY TargetFacts
<1>1. TargetsTyped'
  BY <1>a DEF Sever, ClientNotices, BrokerNotices, broker, Will, TargetsTyped, Links
<1>2. \A u \in T \ {t} : UNCHANGED OfTarget(u)
  BY <1>a DEF Sever, ClientNotices, BrokerNotices, broker, TargetsTyped, OfTarget
<1>3. LinkSound(t)'
  BY <1>a DEF Sever, ClientNotices, BrokerNotices, broker, TargetsTyped, LinkSound
<1>4. CopySound(t)'
  BY <1>a DEF Sever, ClientNotices, BrokerNotices, broker, TargetsTyped, CopySound
<1>5. Online(t)'
  BY <1>a DEF Sever, ClientNotices, BrokerNotices, broker, Will, TargetsTyped, Online
<1> QED
  BY <1>1, <1>2, <1>3, <1>4, <1>5, OneTargetSound DEF Sever, ClientNotices, BrokerNotices

\* A process that is gone has nothing, and leaves its connections to the brokers.
LEMMA AbandonSound == ASSUME IInv, Abandon PROVE IInv'
<1>a. Typed /\ IdentitySound /\ TargetsSound
  BY DEF IInv
<1>1. IdentitySound'
  BY <1>a, DieSound DEF Abandon
<1>2. Typed'
  <2>1. Fresh \in TargetType
    BY ObserverAssumption DEF Fresh, TargetType, Pcs
  <2>2. stale' \in [T -> BOOLEAN]
    BY LeftBehind DEF Abandon
  <2> QED
    BY <1>a, <2>1, <2>2 DEF Abandon, Typed, Links
<1>3. TargetsSound'
  <2>1. \A t \in T : stale[t] \/ live[t] => stale'[t]
    BY LeftBehind DEF Abandon
  <2> QED
    BY <1>a, <2>1 DEF Abandon, Fresh, TargetsSound, LinkSound, CopySound, Online
<1>4. EventSound'
  BY DEF Abandon, EventSound, NoEvent
<1> QED
  BY <1>1, <1>2, <1>3, <1>4 DEF IInv

\* Every step keeps the invariant.
LEMMA NextSound == IInv /\ [Next]_vars => IInv'
<1> SUFFICES ASSUME IInv, [Next]_vars PROVE IInv'
  OBVIOUS
<1>1. CASE UNCHANGED vars
  BY <1>1 DEF vars, identity, broker, IInv, Typed, IdentitySound, EventSound,
              TargetsSound, LinkSound, CopySound, Online
<1>2. ASSUME NEW t \in T, Task(t) PROVE IInv'
  BY <1>2, ConnectSound, PublishSound DEF Task
<1>3. CASE Exit \/ Kill
  BY <1>3, AbandonSound DEF Exit, Kill
<1> QED
  BY <1>1, <1>2, <1>3, StartupSound, TakeSound, LoopSound, CloseSound, BrokerSound DEF Next

\* The invariant holds.
LEMMA Invariance == Spec => []IInv
BY InitSound, NextSound, PTL DEF Spec

-----------------------------------------------------------------------------
(* Theorems *)

\* The variables keep their types; a target has a client exactly while it has a
\* connection, and a back-off within its bounds.
THEOREM TypeCorrect == Spec => []TypeOK
<1>1. IInv => TypeOK
  <2> SUFFICES ASSUME IInv PROVE TypeOK
    OBVIOUS
  <2>1. Id!IdentityTypeOK
    <3>1. IdentitySound
      BY DEF IInv
    <3>2. boot = "up" => ident # "none"
      BY <3>1, SeedsAssumption DEF IdentitySound
    <3> QED
      BY <3>1, <3>2 DEF IdentitySound, Id!IdentityTypeOK
  <2>2. \A t \in T : /\ target[t].backoff \in 1..MaxBackoff
                     /\ target[t].retry \in 0..MaxBackoff
                     /\ LinkSound(t)
    BY TargetFacts
  <2> QED
    BY <2>1, <2>2 DEF IInv, Typed, LinkSound, TypeOK
<1> QED
  BY <1>1, Invariance, PTL

\* An observer shows one identity for good, whatever fails or dies while the
\* identity file is written.
THEOREM OneOrigin == Spec => []OriginKept
<1>1. IInv => OriginKept
  BY DEF IInv, IdentitySound, OriginKept, Id!IdentityKept
<1> QED
  BY <1>1, Invariance, PTL

\* A retained "online" has a connection behind it, or one whose will is still to
\* come, or an observer that said goodbye.
THEOREM StatusIsTrue == Spec => []OnlineIsTrue
<1>1. IInv => OnlineIsTrue
  BY DEF IInv, TargetsSound, Online, OnlineIsTrue
<1> QED
  BY <1>1, Invariance, PTL

\* When the loop goes on, every connected target has got the event once, and no
\* broker has got it twice.
THEOREM EveryTargetGetsEvery == Spec => ConnectedGetEvery
<1>1. ASSUME IInv, Next
      PROVE  loop = "gather" /\ loop' = "recv" =>
                 \A t \in T : copies[t] <= 1 /\ (live[t] => copies[t] = 1)
  <2> SUFFICES ASSUME loop = "gather", loop' = "recv", NEW t \in T
               PROVE  copies[t] <= 1 /\ (live[t] => copies[t] = 1)
    OBVIOUS
  <2>1. Gathered
    BY <1>1 DEF Next, Resolve, Begin, Take, Task, ConnectSucceeds, ConnectFails, Announce, Publish,
                TimesOut, Raises, Close, BusLost, Exit, Kill, Abandon, Tick, Sever, ClientNotices,
                BrokerNotices
  <2> QED
    BY <1>1, <2>1 DEF Gathered, IInv, TargetsSound, CopySound
<1> QED
  BY <1>1, Invariance, PTL DEF ConnectedGetEvery, Spec

-----------------------------------------------------------------------------
(* The hash *)

\* A type, a middle and a payload: what the hash is taken of.
Hashed(type, middle, payload) == <<type>> \o middle \o payload

TypeFirst(h, x, middle, s) ==
    /\ Len(h) = 1 + Len(middle) + Len(s)
    /\ h[1] = x
    /\ middle = <<>> => \A i \in 1..Len(s) : h[1 + i] = s[i]

\* The type comes first, and then, with nothing in between, the payload.
LEMMA HashedFirst ==
    ASSUME NEW x \in Nat, NEW middle \in Seq(Nat), NEW s \in Seq(Nat)
    PROVE  TypeFirst(Hashed(x, middle, s), x, middle, s)
<1> DEFINE a == <<x>> \o middle
           h == a \o s
<1>0. Len(middle) \in Nat /\ Len(s) \in Nat
  BY LenProperties
<1>1. <<x>> \in Seq(Nat) /\ Len(<<x>>) = 1 /\ <<x>>[1] = x
  OBVIOUS
<1>2. a \in Seq(Nat) /\ Len(a) = 1 + Len(middle) /\ a[1] = x
  BY <1>0, <1>1, Concat
<1>3. middle = <<>> => Len(middle) = 0
  OBVIOUS
<1> HIDE DEF a
<1>4. /\ h \in Seq(Nat) /\ Len(h) = Len(a) + Len(s)
      /\ \A i \in 1..Len(a) : h[i] = a[i]
      /\ \A i \in 1..Len(s) : h[Len(a) + i] = s[i]
  <2>1. a \in Seq(Nat)
    BY <1>2
  <2> QED
    BY <2>1, Concat
<1>5. Hashed(x, middle, s) = h
  BY DEF Hashed, a
<1> HIDE DEF h
<1>6. h[1] = x
  <2>1. 1 \in 1..Len(a)
    BY <1>0, <1>2
  <2> QED
    BY <1>2, <1>4, <2>1
<1>7. Len(h) = 1 + Len(middle) + Len(s)
  BY <1>2, <1>4
<1>8. ASSUME middle = <<>> PROVE \A i \in 1..Len(s) : h[1 + i] = s[i]
  <2>1. Len(a) = 1
    BY <1>2, <1>3, <1>8
  <2> QED
    BY <1>4, <2>1
<1> QED
  BY <1>5, <1>6, <1>7, <1>8 DEF TypeFirst

\* Of packets that have no middle, type and payload are told apart.
LEMMA HashedDiffers ==
    ASSUME NEW x \in Nat, NEW y \in Nat, NEW middle \in Seq(Nat), NEW s \in Seq(Nat), NEW t \in Seq(Nat),
           Hashed(x, <<>>, s) = Hashed(y, middle, t)
    PROVE  x = y /\ (middle = <<>> => s = t)
<1>0. <<>> \in Seq(Nat) /\ Len(<<>>) = 0
  BY EmptySeq
<1> DEFINE h == Hashed(x, <<>>, s)
<1>1. h[1] = x /\ Len(h) = 1 + Len(<<>>) + Len(s) /\ \A i \in 1..Len(s) : h[1 + i] = s[i]
  <2>1. TypeFirst(h, x, <<>>, s)
    BY <1>0, HashedFirst
  <2> HIDE DEF h
  <2> QED
    BY <2>1 DEF TypeFirst
<1>2. h[1] = y /\ Len(h) = 1 + Len(middle) + Len(t) /\ (middle = <<>> => \A i \in 1..Len(t) : h[1 + i] = t[i])
  <2>1. TypeFirst(Hashed(y, middle, t), y, middle, t)
    BY HashedFirst
  <2>2. h = Hashed(y, middle, t)
    OBVIOUS
  <2> HIDE DEF h
  <2>3. TypeFirst(h, y, middle, t)
    BY <2>1, <2>2
  <2> QED
    BY <2>3 DEF TypeFirst
<1> HIDE DEF h
<1>3. ASSUME middle = <<>> PROVE s = t
  <2>1. Len(s) = Len(t)
    <3>1. Len(s) \in Nat /\ Len(t) \in Nat
      BY LenProperties
    <3>2. Len(middle) = 0
      BY <1>0, <1>3
    <3> QED
      BY <1>0, <1>1, <1>2, <3>1, <3>2
  <2>2. \A i \in 1..Len(s) : s[i] = t[i]
    BY <1>1, <1>2, <1>3, <2>1
  <2> QED
    BY <2>1, <2>2, SeqEqual
<1> QED
  BY <1>1, <1>2, <1>3

Middle(raw) == IF PayloadTypeOf(raw) = TRACE THEN <<raw[PathLenAt(raw)], 0>> ELSE <<>>

\* calculate_packet_hash finds the type and the payload that decode_packet
\* finds, though it parses the packet by itself.
LEMMA HashOfDecodable ==
    ASSUME NEW raw \in Raws, Decodable(raw)
    PROVE  /\ PacketHash(raw) = Hashed(DecodePacket(raw).type, Middle(raw), DecodePacket(raw).payload)
           /\ DecodePacket(raw).type = PayloadTypeOf(raw)
           /\ DecodePacket(raw).type \in Nat /\ Middle(raw) \in Seq(Nat) /\ DecodePacket(raw).payload \in Seq(Nat)
<1>1. raw \in Seq(Byte)
  BY RawsAssumption DEF Byte
<1> DEFINE at == PathLenAt(raw)
           b  == raw[at]
<1>2. Len(raw) \in Nat /\ raw # <<>> /\ at \in {2, 6} /\ at <= Len(raw)
  BY <1>1, LenProperties DEF Decodable, PathLenAt
<1>3. raw[1] \in Byte /\ b \in Byte
  <2>1. 1 \in 1..Len(raw) /\ at \in 1..Len(raw)
    BY <1>2
  <2> QED
    BY <1>1, <2>1, ElementOfSeq
<1>4. /\ Len(raw) \in Nat /\ PathBytes(raw) \in Nat /\ at + PathBytes(raw) <= Len(raw)
  BY <1>1, <1>3, DecodableFacts
<1>5. /\ DecodePacket(raw).payload = From(raw, at + PathBytes(raw) + 1)
      /\ DecodePacket(raw).payload \in Seq(Byte)
  BY <1>1, <1>3, DecodedFacts
<1>6. DecodePacket(raw).type = PayloadTypeOf(raw)
  BY DEF DecodePacket, PayloadTypeOf
<1>7. PacketHash(raw) = Hashed(PayloadTypeOf(raw), Middle(raw), From(raw, at + PathBytes(raw) + 1))
  <2>1. ~(Len(raw) < at) /\ ~(at + PathBytes(raw) > Len(raw))
    BY <1>2, <1>4
  <2> QED
    BY <2>1 DEF PacketHash, Hashed, Middle
<1>8. PayloadTypeOf(raw) \in Nat
  <2>1. (raw[1] \div 4) % 16 \in Nat
    BY <1>3 DEF Byte
  <2> QED
    BY <2>1 DEF PayloadTypeOf, DecodeHeader
<1>9. Middle(raw) \in Seq(Nat)
  <2>1. b \in Nat
    BY <1>3 DEF Byte
  <2> QED
    BY <2>1 DEF Middle
<1>10. DecodePacket(raw).payload \in Seq(Nat)
  <2>1. Byte \subseteq Nat
    BY DEF Byte
  <2> QED
    BY <1>5, <2>1, SeqMonotonic
<1> QED
  BY <1>5, <1>6, <1>7, <1>8, <1>9, <1>10

\* Copies of a packet are reported under one hash and other packets under
\* others, whatever comes over the bus.
THEOREM HashTellsPackets == Spec => []HashIdentifiesPacket
<1>1. ASSUME IInv PROVE HashIdentifiesPacket
  <2> SUFFICES ASSUME event.raw # <<>>, Decodable(event.raw)
               PROVE  /\ event.hash # NoHash
                      /\ \A raw \in Raws \ {<<>>} :
                          LET p == DecodePacket(event.raw)  q == DecodePacket(raw)
                          IN  Decodable(raw) /\ p.type # TRACE =>
                                  (BuildEvent(raw).hash = event.hash <=> p.type = q.type /\ p.payload = q.payload)
    BY DEF HashIdentifiesPacket
  <2> DEFINE e == event.raw
             x == DecodePacket(e).type
             s == DecodePacket(e).payload
  <2>1. e \in Raws /\ event.hash = PacketHash(e)
    BY <1>1 DEF IInv, EventSound
  <2>2. /\ event.hash = Hashed(x, Middle(e), s)
        /\ x = PayloadTypeOf(e) /\ x \in Nat /\ Middle(e) \in Seq(Nat) /\ s \in Seq(Nat)
    BY <2>1, HashOfDecodable
  <2> HIDE DEF e, x, s
  <2>3. event.hash # NoHash
    <3> DEFINE h == Hashed(x, Middle(e), s)
    <3>1. Len(h) = 1 + Len(Middle(e)) + Len(s) /\ Len(Middle(e)) \in Nat /\ Len(s) \in Nat
      BY <2>2, HashedFirst, LenProperties DEF TypeFirst
    <3>2. event.hash = h
      BY <2>2
    <3> HIDE DEF h
    <3>3. Len(h) # 0
      BY <3>1
    <3>4. h # <<>>
      BY <3>3
    <3> QED
      BY <3>2, <3>4 DEF NoHash
  <2>4. ASSUME NEW raw \in Raws, Decodable(raw), x # TRACE
        PROVE  BuildEvent(raw).hash = event.hash <=>
                   x = DecodePacket(raw).type /\ s = DecodePacket(raw).payload
    <3> DEFINE y == DecodePacket(raw).type
               t == DecodePacket(raw).payload
    <3>1. /\ PacketHash(raw) = Hashed(y, Middle(raw), t)
          /\ y = PayloadTypeOf(raw) /\ y \in Nat /\ Middle(raw) \in Seq(Nat) /\ t \in Seq(Nat)
      BY <2>4, HashOfDecodable
    <3>2. BuildEvent(raw).hash = PacketHash(raw)
      BY DEF BuildEvent
    <3>3. Middle(e) = <<>>
      BY <2>2, <2>4 DEF Middle
    <3>4. y # TRACE => Middle(raw) = <<>>
      BY <3>1 DEF Middle
    <3> HIDE DEF y, t
    <3>5. event.hash = Hashed(x, <<>>, s)
      BY <2>2, <3>3
    <3>6. ASSUME Hashed(x, <<>>, s) = Hashed(y, Middle(raw), t) PROVE x = y /\ s = t
      <4>1. x = y /\ (Middle(raw) = <<>> => s = t)
        BY <2>2, <3>1, <3>6, HashedDiffers
      <4> QED
        BY <2>4, <3>4, <4>1
    <3>7. x = y /\ s = t => Hashed(x, <<>>, s) = Hashed(y, Middle(raw), t)
      BY <2>4, <3>4
    <3> QED
      BY <3>1, <3>2, <3>5, <3>6, <3>7 DEF y, t
  <2> QED
    BY <2>3, <2>4 DEF e, x, s
<1> QED
  BY <1>1, Invariance, PTL
=============================================================================
