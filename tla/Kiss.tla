-------------------------------- MODULE Kiss --------------------------------
(***************************************************************************)
(* KISS framing of the serial line between a gateway and its modem         *)
(* (softmesh_stack/kiss.py): encode() and the streaming KissDecoder.       *)
(*                                                                         *)
(* feed() treats the bytes of a chunk one by one and keeps its state       *)
(* between chunks, so a step here is one byte.  The line may start in the  *)
(* middle of a frame and may lose bytes.  Who reads it is in GatewayRx.    *)
(***************************************************************************)
EXTENDS Naturals, Sequences, SequencesExt

CONSTANTS
    Frames,     \* frames that may be sent: [port, command, data]
    Tails,      \* what the decoder may first hear: ends of an earlier frame
    MaxFrames,  \* bound: frames sent
    MaxLost     \* bound: bytes lost on the line

FEND  == 192
FESC  == 219
TFEND == 220
TFESC == 221

RETURN == 255

\* The port in the upper nibble, the command in the lower; RETURN is the
\* whole byte 0xFF.
TypeByte(f) == IF f.command = RETURN THEN 255 ELSE f.port * 16 + f.command

Bytes == 0..255

\* The type byte is not escaped, so it must not look like a delimiter, an
\* escape or RETURN, which has neither port nor data.
ASSUME FramesAssumption ==
    \A f \in Frames :
        /\ f \in [port : 0..15, command : (0..15) \cup {RETURN}, data : Seq(Bytes)]
        /\ IF f.command = RETURN THEN f.port = 0 /\ f.data = <<>>
                                 ELSE TypeByte(f) \notin {FEND, FESC, 255}

\* What is left of an earlier frame has no delimiter but its last byte.
ASSUME TailsAssumption ==
    \A t \in Tails : t \in Seq(Bytes) /\ \A i \in 1..(Len(t) - 1) : t[i] # FEND

ASSUME BoundsAssumption == MaxFrames \in Nat /\ MaxLost \in Nat

VARIABLES
    line,      \* bytes on the way to the decoder
    buf,       \* _buf
    escaped,   \* _escaped
    inFrame,   \* _in_frame
    sent,      \* history: the frames encoded
    emitted,   \* history: the frames feed() has returned
    lost       \* number of bytes lost, and of decoders lost with their process

decoder == <<buf, escaped, inFrame>>
serial  == <<line, decoder, sent, emitted, lost>>

-----------------------------------------------------------------------------
(* encode *)

\* Data bytes are escaped; the type byte is not.
Escape(b) ==
    CASE b = FEND -> <<FESC, TFEND>>
      [] b = FESC -> <<FESC, TFESC>>
      [] OTHER    -> <<b>>

Encode(f) ==
    <<FEND, TypeByte(f)>> \o FlattenSeq([i \in DOMAIN f.data |-> Escape(f.data[i])]) \o <<FEND>>

-----------------------------------------------------------------------------
(* KissDecoder *)

NewDecoder ==
    /\ buf' = <<>>
    /\ escaped' = FALSE
    /\ inFrame' = FALSE

\* _build_frame
BuildFrame(bytes) ==
    IF bytes[1] = 255
    THEN [port |-> 0, command |-> RETURN, data |-> <<>>]
    ELSE [port |-> bytes[1] \div 16, command |-> bytes[1] % 16, data |-> Tail(bytes)]

\* A delimiter ends the frame before it, if there is one, and begins another.
Delimiter ==
    /\ emitted' = IF inFrame /\ buf # <<>> THEN Append(emitted, BuildFrame(buf)) ELSE emitted
    /\ buf' = <<>>
    /\ escaped' = FALSE
    /\ inFrame' = TRUE

\* The byte after an escape: the literal it stands for, or nothing.
Unescaped(b) ==
    CASE b = TFEND -> <<FEND>>
      [] b = TFESC -> <<FESC>>
      [] OTHER     -> <<>>

\* Any other byte: noise before the first delimiter, an escape, or data.
Content(b) ==
    /\ \/ ~inFrame /\ UNCHANGED <<buf, escaped>>
       \/ inFrame /\ escaped /\ buf' = buf \o Unescaped(b) /\ escaped' = FALSE
       \/ inFrame /\ ~escaped /\ b = FESC /\ escaped' = TRUE /\ UNCHANGED buf
       \/ inFrame /\ ~escaped /\ b # FESC /\ buf' = Append(buf, b) /\ UNCHANGED escaped
    /\ UNCHANGED <<inFrame, emitted>>

Feed ==
    /\ line # <<>>
    /\ line' = Tail(line)
    /\ IF Head(line) = FEND THEN Delimiter ELSE Content(Head(line))
    /\ UNCHANGED <<sent, lost>>

-----------------------------------------------------------------------------
(* The line *)

InitLine ==
    /\ line \in Tails
    /\ buf = <<>>
    /\ escaped = FALSE
    /\ inFrame = FALSE
    /\ sent = <<>>
    /\ emitted = <<>>
    /\ lost = 0

Send(f) ==
    /\ Len(sent) < MaxFrames
    /\ line' = line \o Encode(f)
    /\ sent' = Append(sent, f)
    /\ UNCHANGED <<decoder, emitted, lost>>

Lose ==
    /\ line # <<>>
    /\ lost < MaxLost
    /\ line' = Tail(line)
    /\ lost' = lost + 1
    /\ UNCHANGED <<decoder, sent, emitted>>

-----------------------------------------------------------------------------
(* Properties *)

\* The line and the decoder's buffer hold bytes, and every frame that feed()
\* returns could have been encoded again.
KissTypeOK ==
    /\ line \in Seq(Bytes)
    /\ buf \in Seq(Bytes)
    /\ escaped \in BOOLEAN
    /\ inFrame \in BOOLEAN
    /\ sent \in Seq(Frames)
    /\ lost \in 0..MaxLost
    /\ \A i \in DOMAIN emitted : TypeByte(emitted[i]) \in Bytes /\ emitted[i].data \in Seq(Bytes)
=============================================================================
