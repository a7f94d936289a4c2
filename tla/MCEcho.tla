------------------------------- MODULE MCEcho -------------------------------
(***************************************************************************)
(* Small instances of Echo.                                                *)
(***************************************************************************)
EXTENDS Echo

CONSTANT s1

\* A contact that changes its name.
NameChanges == {[sender |-> s1, ts |-> 0, name |-> ""], [sender |-> s1, ts |-> 1, name |-> "new"]}

Text(x) == [sender |-> s1, text |-> x]

\* One message in copies that came over no repeater or one, and another.
Copies == {[msg |-> Text("x"), hops |-> h] : h \in 0..1} \cup {[msg |-> Text("y"), hops |-> 0]}
=============================================================================
