------------------------------- MODULE MCKiss -------------------------------
(***************************************************************************)
(* An instance of GatewayRx.                                               *)
(***************************************************************************)
EXTENDS GatewayRx

\* The bytes that framing treats specially, and one that it does not.
Interesting == {FEND, FESC, TFEND, 1}

\* What a modem sends: data and SetHardware frames on port 0.
GatewayFrames ==
    [port : {0}, command : {0, 6}, data : BoundedSeq(Interesting, 2)]
        \cup {[port |-> 0, command |-> RETURN, data |-> <<>>]}

\* Nothing, the end of an earlier frame, or the middle of a cut one.
SomeTails == {<<>>, <<1, FEND>>, <<FESC, TFEND, 1, FEND>>, <<1, FESC>>}
=============================================================================
