------------------------------ MODULE MCRoom ------------------------------
(***************************************************************************)
(* Small instances of Room.                                                *)
(***************************************************************************)
EXTENDS Room

CONSTANTS alice, bob

Post(who, ts, text) == [author |-> who, ts |-> ts, text |-> text, attempt |-> 0, plain |-> TRUE]

OnePost == {Post(alice, 1, "x")}

\* Two posts of alice, whose clock may go back from one to the other.
TwoPosts == {Post(alice, 2, "x"), Post(alice, 1, "y")}

\* With a message that is acknowledged but not a post.
PostsAndNot == TwoPosts \cup {[Post(alice, 1, "z") EXCEPT !.plain = FALSE]}
============================================================================
