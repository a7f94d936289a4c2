--------------------------- MODULE MCEchoDelivery ---------------------------
(***************************************************************************)
(* Small instances of EchoDelivery.                                        *)
(***************************************************************************)
EXTENDS EchoDelivery, TLC

CONSTANTS n1, n2, p1, p2

TwoDest == p1 :> n1 @@ p2 :> n2

\* Two nodes have sent the same text and were heard over the same path ...
SameText == p1 :> "x" @@ p2 :> "x"

\* ... and the second reply begins a second later, so that its first attempt has
\* the ACK hash of the fifth attempt of the first.
LaterStamp == p1 :> 0 @@ p2 :> 1
=============================================================================
