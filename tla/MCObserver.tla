----------------------------- MODULE MCObserver -----------------------------
(***************************************************************************)
(* An instance of Observer.                                                *)
(***************************************************************************)
EXTENDS Observer

TwoTargets == <<"cornmeister", "radar">>

\* A flood that came over no hop, and over one; another packet.
SomeRaws == {
    <<EncodeHeader(FLOOD, TXT_MSG, 0), EncodePathLen(0, 1), 7, 8>>,
    <<EncodeHeader(TRANSPORT_FLOOD, TXT_MSG, 0), 1, 2, 3, 4, EncodePathLen(1, 2), 8, 9, 7, 8>>,
    <<EncodeHeader(DIRECT, ACK, 0), EncodePathLen(1, 1), 7, 8>>,
    <<EncodeHeader(FLOOD, TXT_MSG, 0), EncodePathLen(3, 1), 7>>}
=============================================================================
