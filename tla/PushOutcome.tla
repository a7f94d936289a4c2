---------------------------- MODULE PushOutcome ----------------------------
(***************************************************************************)
(* What pushing stored posts to room clients promises, with nothing of how *)
(* it is done: a push task begins, the client may or may not receive the   *)
(* post, and the task ends with one of three outcomes.  The only promise   *)
(* is that "acked" is never reported for a client that does not have the   *)
(* post.  RoomPush implements this specification, and Room uses it in the  *)
(* place of the retransmission protocol.                                   *)
(***************************************************************************)
CONSTANTS
    Clients,    \* clients, identified by their public keys
    Contents,   \* what a push carries: (post_ts, author, text)
    Pushes,     \* push tasks (one per call of push_post)
    Dest,       \* Dest[p]: the client that task p pushes to
    Content     \* Content[p]: what task p pushes

VARIABLES
    state,      \* state[p]: idle, pushing, or the outcome of task p
    received    \* <<c, x>>: client c has received content x

vars == <<state, received>>

Outcomes == {"acked", "unacked", "failed"}

Init ==
    /\ state = [p \in Pushes |-> "idle"]
    /\ received = {}

Begin(p) ==
    /\ state[p] = "idle"
    /\ state' = [state EXCEPT ![p] = "pushing"]
    /\ UNCHANGED received

\* The task ends before it could try anything.
Refuse(p) ==
    /\ state[p] = "idle"
    /\ state' = [state EXCEPT ![p] = "failed"]
    /\ UNCHANGED received

\* A post reaches a client only if some task has begun to push it there.
Receive(c, x) ==
    /\ \E p \in Pushes : state[p] # "idle" /\ Dest[p] = c /\ Content[p] = x
    /\ received' = received \cup {<<c, x>>}
    /\ UNCHANGED state

End(p, outcome) ==
    /\ state[p] = "pushing"
    /\ outcome = "acked" => <<Dest[p], Content[p]>> \in received
    /\ state' = [state EXCEPT ![p] = outcome]
    /\ UNCHANGED received

\* The server process dies: every running task ends without an outcome.
Crash ==
    /\ state' = [p \in Pushes |-> IF state[p] = "pushing" THEN "failed" ELSE state[p]]
    /\ UNCHANGED received

Next ==
    \/ \E p \in Pushes : Begin(p) \/ Refuse(p)
    \/ \E c \in Clients, x \in Contents : Receive(c, x)
    \/ \E p \in Pushes, outcome \in Outcomes : End(p, outcome)
    \/ Crash

Spec == Init /\ [][Next]_vars
============================================================================
