---------------------------- MODULE FrameReceiver ----------------------------
(***************************************************************************)
(* What a receiver of Fusain frames promises, without the state machine,   *)
(* the two arrays and the counters of the implementation: it collects the  *)
(* unescaped bytes since the last START byte, and when they are as many as *)
(* their LENGTH byte announces, the next byte decides.  A frame is         *)
(* delivered if that byte is END, the CRC covers exactly the bytes between *)
(* START and the CRC, and the payload begins with a message header.        *)
(*                                                                         *)
(* Decoder implements this module (Decoder!Refinement).                    *)
(***************************************************************************)
EXTENDS Wire

CONSTANT RxBytes

VARIABLES
  hunting,    \* no frame has been started: bytes are dropped
  escaped,    \* the next byte is the second half of an escape pair
  frame,      \* the unescaped bytes since START
  verdict,    \* the answer to the last byte
  delivered   \* the message that the last byte completed, or NoMessage

rcvVars == <<hunting, escaped, frame, verdict, delivered>>

NoMessage == [none |-> TRUE]

Init ==
  /\ hunting = TRUE /\ escaped = FALSE
  /\ frame = <<>>
  /\ verdict = "INCOMPLETE" /\ delivered = NoMessage

-----------------------------------------------------------------------------
\* The parts of a frame.
Size(f) == HeaderSize + f[1] + 2

Covered(f) == SubSeq(f, 1, HeaderSize + f[1])
Checksum(f) == f[Len(f) - 1] * Radix + f[Len(f)]
AddressOf(f) == [i \in 0 .. ADDR_BYTES - 1 |-> f[i + 2]]
PayloadOf(f) == [i \in 0 .. f[1] - 1 |-> f[HeaderSize + 1 + i]]

Message(f) ==
  [length   |-> f[1],
   address  |-> AddressOf(f),
   msg_type |-> HeaderType(PayloadOf(f), f[1]),
   payload  |-> PayloadOf(f)]

\* What the byte after a complete frame makes of it.
Judgement(f, rx) ==
  CASE rx # END_BYTE -> "INVALID_START"
    [] rx = END_BYTE /\ Checksum(f) # Crc(Covered(f)) -> "INVALID_CRC"
    [] rx = END_BYTE /\ Checksum(f) = Crc(Covered(f)) ->
         IF HeaderOK(PayloadOf(f), f[1]) THEN "OK" ELSE "INVALID_START"

-----------------------------------------------------------------------------
\* Only an unescaped START or ESC byte has a meaning of its own.
Begin(rx) ==
  /\ rx = START_BYTE /\ ~escaped
  /\ hunting' = FALSE /\ frame' = <<>>
  /\ verdict' = "INCOMPLETE" /\ delivered' = NoMessage
  /\ UNCHANGED escaped

Mark(rx) ==
  /\ rx = ESC_BYTE /\ ~escaped
  /\ escaped' = TRUE
  /\ verdict' = "INCOMPLETE" /\ delivered' = NoMessage
  /\ UNCHANGED <<hunting, frame>>

\* The value of rx as data.
Data(rx) == IF escaped THEN Flip(rx) ELSE rx

IsData(rx) == escaped \/ rx \notin {START_BYTE, ESC_BYTE}

Drop(rx) ==
  /\ IsData(rx) /\ hunting
  /\ escaped' = FALSE
  /\ verdict' = "INCOMPLETE" /\ delivered' = NoMessage
  /\ UNCHANGED <<hunting, frame>>

Collect(rx) ==
  /\ IsData(rx) /\ ~hunting
  /\ \/ frame = <<>> /\ Data(rx) <= MAX_PAYLOAD_SIZE
     \/ frame # <<>> /\ Len(frame) < Size(frame)
  /\ frame' = Append(frame, Data(rx))
  /\ escaped' = FALSE
  /\ verdict' = "INCOMPLETE" /\ delivered' = NoMessage
  /\ UNCHANGED hunting

TooLong(rx) ==
  /\ IsData(rx) /\ ~hunting
  /\ frame = <<>> /\ Data(rx) > MAX_PAYLOAD_SIZE
  /\ hunting' = TRUE /\ escaped' = FALSE
  /\ verdict' = "INVALID_LENGTH" /\ delivered' = NoMessage
  /\ UNCHANGED frame

Judge(rx) ==
  /\ IsData(rx) /\ ~hunting
  /\ frame # <<>> /\ Len(frame) = Size(frame)
  /\ verdict' = Judgement(frame, rx)
  /\ delivered' = IF verdict' = "OK" THEN Message(frame) ELSE NoMessage
  /\ hunting' = TRUE /\ escaped' = FALSE /\ frame' = <<>>

\* The owner gives up whatever has been collected.
Reset ==
  /\ hunting' = TRUE /\ escaped' = FALSE /\ frame' = <<>>
  /\ UNCHANGED <<verdict, delivered>>

Hear(rx) ==
  Begin(rx) \/ Mark(rx) \/ Drop(rx) \/ Collect(rx) \/ TooLong(rx) \/ Judge(rx)

Next == Reset \/ \E rx \in RxBytes : Hear(rx)

Spec == Init /\ [][Next]_rcvVars
=============================================================================
