---------------------------- MODULE MCRoomPush ----------------------------
(***************************************************************************)
(* Small instances of RoomPush.                                            *)
(***************************************************************************)
EXTENDS RoomPush, TLC

CONSTANTS c1, c2, x, p1, p2, p3

\* Two tasks push the same post to c1 (the fan-out and a login sync, or two
\* syncs of a login that was flooded twice), one pushes it to c2.
TwinDest    == p1 :> c1 @@ p2 :> c1 @@ p3 :> c2
TwinContent == p1 :> x @@ p2 :> x @@ p3 :> x

\* One task, whose client moves between two places while it is pushed to.
OneDest    == p1 :> c1
OneContent == p1 :> x

\* A route of two repeaters is not its own reverse.
TwinRoutes == c1 :> {<<"a", "b">>} @@ c2 :> {<<>>}
OneRoutes  == c1 :> {<<"a", "b">>, <<"a">>}
MCHops     == {"a", "b"}

Twins == Permutations({p1, p2})
============================================================================
