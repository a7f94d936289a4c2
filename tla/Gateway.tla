------------------------------ MODULE Gateway ------------------------------
(***************************************************************************)
(* The mesh gateway (mesh_gateway/gateway.py): it opens the serial modem,  *)
(* keeps an MQTT connection, and transmits what the broker sends it within *)
(* a duty-cycle budget.                                                    *)
(*                                                                         *)
(* Time is kept as ages and remaining waits, which Tick moves on, so that  *)
(* no clock runs away.  A message is represented by its airtime.           *)
(***************************************************************************)
EXTENDS Naturals, Sequences

CONSTANTS
    Window,      \* window_s, in ticks
    Budget,      \* budget_s: the airtime allowed per window
    Airtimes,    \* airtimes of the messages that may arrive
    MaxBackoff   \* the cap of both back-offs, in ticks; they start at one tick

ASSUME GatewayAssumption ==
    /\ Window \in Nat \ {0}
    /\ Budget \in Nat
    /\ Airtimes \subseteq Nat \ {0}
    /\ MaxBackoff \in Nat \ {0}

VARIABLES
    pc,        \* where run() is
    backoff,   \* serial_backoff, then backoff
    wait,      \* what is left of run()'s sleep
    status,    \* the retained message on the status topic
    reading,   \* whether serial_to_mqtt is running
    tx,        \* mqtt_to_serial: where it is, its queued message, what is left of its sleep
    usage,     \* usage: what this connection has transmitted, oldest first
    used,      \* used: the airtime in usage
    onAir,     \* history: the transmissions of this connection younger than the window
    earlier    \* history: those of earlier connections

main  == <<pc, backoff, wait, status, reading>>
past  == <<onAir, earlier>>
meter == <<usage, used, past>>
vars  == <<main, tx, meter>>

TxOff  == [pc |-> "off", air |-> 0, wait |-> 0]
TxRecv == [pc |-> "recv", air |-> 0, wait |-> 0]

Doubled(b) == IF 2 * b < MaxBackoff THEN 2 * b ELSE MaxBackoff

\* The airtime of the first n entries, for every n, and of all of them.
Running(entries) ==
    LET sum[n \in 0..Len(entries)] == IF n = 0 THEN 0 ELSE sum[n - 1] + entries[n].air
    IN  sum

Airtime(entries) == Running(entries)[Len(entries)]

-----------------------------------------------------------------------------
(* run() *)

Init ==
    /\ pc = "serial"
    /\ backoff = 1
    /\ wait = 0
    /\ status = "none"
    /\ reading = FALSE
    /\ tx = TxOff
    /\ usage = <<>>
    /\ used = 0
    /\ onAir = <<>>
    /\ earlier = <<>>

\* The modem cannot be opened: sleep, twice as long the next time.
SerialFails ==
    /\ pc = "serial"
    /\ wait = 0
    /\ wait' = backoff
    /\ backoff' = Doubled(backoff)
    /\ UNCHANGED <<pc, status, reading, tx, meter>>

SerialOpens ==
    /\ pc = "serial"
    /\ wait = 0
    /\ pc' = "connect"
    /\ backoff' = 1
    /\ UNCHANGED <<wait, status, reading, tx, meter>>

\* The two bridge tasks end, and with mqtt_to_serial its queue and its count
\* of the airtime used.
StopBridge ==
    /\ reading' = FALSE
    /\ tx' = TxOff
    /\ usage' = <<>>
    /\ used' = 0
    /\ onAir' = <<>>
    /\ earlier' = earlier \o onAir

\* MqttError from connecting, from announcing, or from the loss of the broker
\* (the "down" that run() then tries to publish goes nowhere): sleep, and
\* connect again.
MqttFails ==
    /\ \/ pc = "connect" /\ wait = 0
       \/ pc \in {"announce", "serving"}
    /\ pc' = "connect"
    /\ wait' = backoff
    /\ backoff' = Doubled(backoff)
    /\ StopBridge
    /\ UNCHANGED status

\* Connected: the back-off starts over and the modem is configured.
Connects ==
    /\ pc = "connect"
    /\ wait = 0
    /\ pc' = "announce"
    /\ backoff' = 1
    /\ UNCHANGED <<wait, status, reading, tx, meter>>

\* drain() raises while the modem is configured: that is no MqttError, so run()
\* ends before anything is published; the supervisor starts it again.
ConfigureFails ==
    /\ pc = "announce"
    /\ pc' = "serial"
    /\ backoff' = 1
    /\ wait' = 1
    /\ UNCHANGED <<status, reading, tx, meter>>

\* The status is published and the bridge tasks start.
Announce ==
    /\ pc = "announce"
    /\ status' = "up"
    /\ pc' = "serving"
    /\ reading' = TRUE
    /\ tx' = TxRecv
    /\ UNCHANGED <<backoff, wait, meter>>

\* A publish or subscribe fails on a live connection, or the modem while it is
\* read or written: the task group raises an ExceptionGroup, which `except
\* MqttError` does not catch.  "down" is published and run() ends; the
\* supervisor starts it again.
OperationFails ==
    /\ pc = "serving"
    /\ status' = "down"
    /\ pc' = "serial"
    /\ backoff' = 1
    /\ wait' = 1
    /\ StopBridge

\* The modem's stream ends: serial_to_mqtt returns, the task group goes on.
SerialEOF ==
    /\ reading
    /\ reading' = FALSE
    /\ UNCHANGED <<pc, backoff, wait, status, tx, meter>>

-----------------------------------------------------------------------------
(* mqtt_to_serial.  flush() empties the queue before the next message is *)
(* taken, so there is never more than one in it.                         *)

Receive(a) ==
    /\ tx.pc = "recv"
    /\ tx' = [tx EXCEPT !.pc = "flush", !.air = a]
    /\ UNCHANGED <<main, meter>>

\* Entries leave the count when they are as old as the window, oldest first:
\* so many, until the first that is younger.
Expired(entries) ==
    CHOOSE n \in 0..Len(entries) :
        /\ \A i \in 1..n : entries[i].age >= Window
        /\ n < Len(entries) => entries[n + 1].age < Window

Young(entries) == SubSeq(entries, Expired(entries) + 1, Len(entries))

Evicted == SubSeq(usage, 1, Expired(usage))
Kept    == Young(usage)

\* Mutant: an entry leaves the list but not the sum.
UsedNeverReduced == used

UsedNow == IF used > Airtime(Evicted) THEN used - Airtime(Evicted) ELSE 0

\* Mutant: the message itself is not counted in.
FitsBefore(a) == UsedNow < Budget

Fits(a) == UsedNow + a <= Budget

\* Over budget: sleep until the oldest entry leaves the window.
FlushWaits ==
    /\ tx.pc = "flush"
    /\ ~Fits(tx.air)
    /\ tx' = [tx EXCEPT !.pc = "sleep",
                        !.wait = IF Kept # <<>> THEN Window - Kept[1].age ELSE Window]
    /\ usage' = Kept
    /\ used' = UsedNow
    /\ UNCHANGED <<main, past>>

FlushWakes ==
    /\ tx.pc = "sleep"
    /\ tx.wait = 0
    /\ tx' = [tx EXCEPT !.pc = "flush"]
    /\ UNCHANGED <<main, meter>>

\* Within budget: the frame is written to the modem.
FlushWrites ==
    /\ tx.pc = "flush"
    /\ Fits(tx.air)
    /\ tx' = [tx EXCEPT !.pc = "drain"]
    /\ usage' = Kept
    /\ used' = UsedNow
    /\ onAir' = Append(onAir, [age |-> 0, air |-> tx.air])
    /\ UNCHANGED <<main, earlier>>

\* drain() returns, maybe later, and only now is the airtime counted.
FlushCounts ==
    /\ tx.pc = "drain"
    /\ tx' = TxRecv
    /\ usage' = Append(usage, [age |-> 0, air |-> tx.air])
    /\ used' = used + tx.air
    /\ UNCHANGED <<main, past>>

-----------------------------------------------------------------------------
Older(entries) == [i \in DOMAIN entries |->
                      [entries[i] EXCEPT !.age = IF @ < Window THEN @ + 1 ELSE @]]

Less(n) == IF n > 0 THEN n - 1 ELSE 0

Tick ==
    /\ wait' = Less(wait)
    /\ tx' = [tx EXCEPT !.wait = Less(@)]
    /\ usage' = Older(usage)
    /\ onAir' = Young(Older(onAir))
    /\ earlier' = Young(Older(earlier))
    /\ UNCHANGED <<pc, backoff, status, reading, used>>

TxStep == FlushWaits \/ FlushWakes \/ FlushWrites \/ FlushCounts

Next ==
    \/ SerialFails
    \/ SerialOpens
    \/ MqttFails
    \/ Connects
    \/ ConfigureFails
    \/ Announce
    \/ OperationFails
    \/ SerialEOF
    \/ \E a \in Airtimes : Receive(a)
    \/ TxStep
    \/ Tick

Spec == Init /\ [][Next]_vars

\* Time passes and the event loop runs mqtt_to_serial when it is ready.
Fairness == WF_vars(Tick) /\ WF_vars(TxStep)

FairSpec == Spec /\ Fairness
-----------------------------------------------------------------------------
(* Properties *)

\* The variables have their types; the back-off stays within its cap.
TypeOK ==
    /\ pc \in {"serial", "connect", "announce", "serving"}
    /\ backoff \in 1..MaxBackoff
    /\ wait \in 0..MaxBackoff
    /\ status \in {"none", "up", "down"}
    /\ reading \in BOOLEAN
    /\ tx \in [pc : {"off", "recv", "flush", "sleep", "drain"}, air : Airtimes \cup {0},
               wait : 0..Window]
    /\ usage \in Seq([age : 0..Window, air : Airtimes])
    /\ used \in 0..Budget
    /\ onAir \in Seq([age : 0..(Window - 1), air : Airtimes])
    /\ earlier \in Seq([age : 0..(Window - 1), air : Airtimes])

\* In every window, what one connection puts on the air stays within the
\* budget, although an entry is counted only after drain() and leaves the
\* count at the very end of its window.
DutyCyclePerConnection == Airtime(onAir) <= Budget

\* "caps transmit airtime as a fraction of each 60-second window": the cap
\* holds for the gateway, whatever happens to its connection.
DutyCycle == Airtime(earlier \o onAir) <= Budget

\* A message that fits the budget at all is transmitted in the end, unless the
\* connection is lost while it waits for its turn.
MessageTransmitted ==
    \A a \in Airtimes :
        (a <= Budget /\ tx.pc = "flush" /\ tx.air = a) ~> (tx.pc \in {"recv", "off"})
============================================================================
