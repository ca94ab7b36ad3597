-------------------------------- MODULE Line ---------------------------------
(***************************************************************************)
(* A serial line with the decoder at its end.  Frames are put on the line  *)
(* (EncodedFrame is what Encoder produces), the line carries the bytes in  *)
(* order and may, at most MaxFaults times, lose a byte, corrupt one,       *)
(* deliver one twice or insert one, and the receiver may restart; the      *)
(* receiving application runs the loop of the README (Decoding Example)    *)
(* and of the tests, with one packet for the connection as in the tests:   *)
(* one call of fusain_decode_byte for a byte, and after an error possibly  *)
(* a reset of the decoder.                                                 *)
(*                                                                         *)
(* The decoder has no clock, so a frame is put on the line when the line   *)
(* is empty: what is still to be sent waits in the sender.  Link and       *)
(* Session say who sends what.                                             *)
(***************************************************************************)
EXTENDS Decoder, Frame

CONSTANTS
  MaxFaults,  \* bound: faults of the line, restarts included
  Noise       \* the bytes that a fault may put on the line

ASSUME LineAssumption ==
  MaxFaults \in Nat /\ Noise \subseteq Byte /\ Byte \subseteq RxBytes

\* LENGTH goes out as it is: no length is a flag (src/fusain.c:192).
ASSUME LengthAssumption == \A b \in FlagBytes : b > MAX_PAYLOAD_SIZE

VARIABLES
  line,       \* the bytes in flight
  faults,     \* the faults so far
  received    \* the packets the application got with FUSAIN_DECODE_OK

lineVars == <<vars, line, faults, received>>

LineInit == Init /\ line = <<>> /\ faults = 0 /\ received = <<>>

-----------------------------------------------------------------------------
\* uart_send of a frame.
PutOnLine(frame) ==
  /\ line = <<>>
  /\ line' = frame
  /\ UNCHANGED <<vars, faults, received>>

\* The receiving application: a byte is decoded, a complete packet processed.
Receive ==
  /\ line # <<>>
  /\ DecodeByte(Head(line))
  /\ line' = Tail(line)
  /\ received' = IF result' = "OK" THEN Append(received, DeliveredPacket')
                                   ELSE received
  /\ UNCHANGED faults

\* else if (result != FUSAIN_DECODE_INCOMPLETE) fusain_reset_decoder(...)
ResetAfterError ==
  /\ result \notin {"OK", "INCOMPLETE"}
  /\ ResetDecoder
  /\ UNCHANGED <<line, faults, received>>

Fault == faults < MaxFaults /\ faults' = faults + 1 /\ UNCHANGED received

LoseByte ==
  /\ Fault /\ line # <<>>
  /\ line' = Tail(line)
  /\ UNCHANGED vars

CorruptByte ==
  /\ Fault /\ line # <<>>
  /\ \E b \in Noise \ {Head(line)} : line' = <<b>> \o Tail(line)
  /\ UNCHANGED vars

DuplicateByte ==
  /\ Fault /\ line # <<>>
  /\ line' = <<Head(line)>> \o line
  /\ UNCHANGED vars

\* Noise arrives between two bytes, or while the line is idle.
InsertByte ==
  /\ Fault
  /\ \E b \in Noise : line' = <<b>> \o line
  /\ UNCHANGED vars

\* The receiver restarts and forgets the frame it was in.
Restart ==
  /\ Fault
  /\ ResetDecoder
  /\ UNCHANGED line

LineStep ==
  \/ Receive \/ ResetAfterError
  \/ LoseByte \/ CorruptByte \/ DuplicateByte \/ InsertByte \/ Restart

\* A packet with the message header that the receiver asks for.
Sendable(p) == Encodable(p) /\ HeaderOK(p.payload, p.length)

\* Packet p as the application should get it.
AsDelivered(p) ==
  LET payload == [k \in 0 .. p.length - 1 |-> p.payload[k]]
  IN  [length |-> p.length, address |-> p.address,
       msg_type |-> HeaderType(payload, p.length), payload |-> payload]

\* What the application may get with FUSAIN_DECODE_OK: exactly the bytes of the
\* payload that the length announces, with a message header, and its type.
Complete(d) ==
  /\ d.length \in 0 .. MAX_PAYLOAD_SIZE /\ d.address \in Address
  /\ d.payload \in [0 .. d.length - 1 -> Byte]
  /\ HeaderOK(d.payload, d.length)
  /\ d.msg_type = HeaderType(d.payload, d.length)
=============================================================================
