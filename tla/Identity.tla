------------------------------ MODULE Identity ------------------------------
(***************************************************************************)
(* How a service comes by its identity (softmesh_stack/identity.py): from  *)
(* its environment, from the identity file, or generated and saved.        *)
(*                                                                         *)
(* save() writes the file in place: seed, public key, name.  The process   *)
(* may die, or the write raise, with part of it written.                   *)
(***************************************************************************)
EXTENDS Naturals

CONSTANTS
    Seeds,   \* seeds that may be generated
    Envs     \* what the environment may hold: "unset", "malformed" or a seed

VARIABLES
    env,     \* the seed in the environment, as the operator set it up
    file,    \* the identity file: how much of it there is, and of which seed
    ident,   \* the seed that the process uses
    boot,    \* where the process is: "down", "saving", "up" or "failed"
    used     \* history: seeds with which a service has begun to work

identity == <<env, file, ident, boot, used>>

\* A file that holds less than a seed and a public key is "part" of one.  It
\* is "whole" with or without the name behind them, which load() can do without.
Missing == [size |-> "missing", seed |-> "none"]

InitIdentity ==
    /\ env \in Envs
    /\ file = Missing
    /\ ident = "none"
    /\ boot = "down"
    /\ used = {}

\* Identity.from_seed; a malformed seed raises.
FromEnvironment ==
    /\ boot = "down" /\ env # "unset"
    /\ \/ env = "malformed" /\ boot' = "failed" /\ UNCHANGED ident
       \/ env # "malformed" /\ boot' = "up" /\ ident' = env
    /\ UNCHANGED <<env, file, used>>

\* Identity.load: a file that is too short, or whose key does not belong to its
\* seed, raises; a missing name does not.
Load ==
    /\ boot = "down" /\ env = "unset" /\ file # Missing
    /\ IF file.size = "whole"
       THEN boot' = "up" /\ ident' = file.seed
       ELSE boot' = "failed" /\ UNCHANGED ident
    /\ UNCHANGED <<env, file, used>>

\* Key pairs do not repeat.
New(old) == CHOOSE s \in Seeds : s \notin old

\* Identity.generate, then save(), which creates the file.
Generate ==
    /\ boot = "down" /\ env = "unset" /\ file = Missing
    /\ ident' = New(used)
    /\ file' = [size |-> "part", seed |-> New(used)]
    /\ boot' = "saving"
    /\ UNCHANGED <<env, used>>

Saved ==
    /\ boot = "saving"
    /\ file' = [file EXCEPT !.size = "whole"]
    /\ boot' = "up"
    /\ UNCHANGED <<env, ident, used>>

\* Mutant: a failed save is logged, and the identity used.
SaveFailsQuietly ==
    /\ boot = "saving"
    /\ boot' = "up"
    /\ UNCHANGED <<env, file, ident, used>>

\* save() raises, or the process dies in it: nothing, some or all was written.
SaveFails ==
    /\ boot = "saving"
    /\ file' \in {Missing, file, [file EXCEPT !.size = "whole"]}
    /\ boot' = "failed"
    /\ UNCHANGED <<env, ident, used>>

\* The supervisor starts the service again, the operator having removed the
\* file if it cannot be loaded.
Restart(repair) ==
    /\ boot = "failed"
    /\ repair => file.size = "part"
    /\ file' = IF repair THEN Missing ELSE file
    /\ boot' = "down"
    /\ ident' = "none"
    /\ UNCHANGED <<env, used>>

Boot ==
    \/ FromEnvironment
    \/ Load
    \/ Generate
    \/ Saved
    \/ SaveFails
    \/ \E repair \in BOOLEAN : Restart(repair)

\* The service begins to work under its identity.
Show ==
    /\ used' = used \cup {ident}
    /\ UNCHANGED <<env, file, ident, boot>>

\* The process ends, or is killed.
Die ==
    /\ boot' = "down"
    /\ ident' = "none"
    /\ UNCHANGED <<env, file, used>>

-----------------------------------------------------------------------------
(* Properties *)

IdentityTypeOK ==
    /\ file.size \in {"missing", "part", "whole"}
    /\ boot \in {"down", "saving", "up", "failed"}
    /\ boot = "up" => ident # "none"

\* A service has one identity for good: whatever fails or dies while the file
\* is written, nobody who has seen the service ever sees it under another key.
IdentityKept == \A s, t \in used : s = t
=============================================================================
