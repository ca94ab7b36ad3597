------------------------------ MODULE Encoder -------------------------------
(***************************************************************************)
(* fusain_encode_packet (src/fusain.c): a step is the entry of a call, one *)
(* call of stuff_byte, one of the two bytes written directly, or the       *)
(* return.  The caller calls it again and again with packets of Packets    *)
(* and output buffers of Sizes bytes; what a buffer held before the call   *)
(* is unknown, so it is a function on the indices written.                 *)
(***************************************************************************)
EXTENDS Frame

CONSTANTS
  Packets,   \* the packets that callers encode
  Sizes      \* the sizes of their output buffers

\* "never needs escaping: 0-114 range, escape bytes are 125-127": the comment
\* on the LENGTH byte (fusain.c:192) is an assumption on the constants.
ASSUME EncoderAssumption ==
  /\ Packets \subseteq PacketType
  /\ Sizes \subseteq Nat
  /\ MIN_PACKET_SIZE >= 2
  /\ \A b \in FlagBytes : b > MAX_PAYLOAD_SIZE
  /\ \A p \in Packets :
       p.length <= MAX_PAYLOAD_SIZE => Crc(CrcData(p)) \in 0 .. Radix * Radix - 1

VARIABLES
  packet, buffer_size,  \* the arguments of the call in progress
  stage,                \* what is to be written next
  i,                    \* the loop variable of the ADDRESS and PAYLOAD loops
  buffer, index,        \* the output, and the bytes of it in use
  ret                   \* the result of the last call

vars == <<packet, buffer_size, stage, i, buffer, index, ret>>

Stages ==
  {"RETURNED", "LENGTH", "ADDRESS", "PAYLOAD", "CRC_HIGH", "CRC_LOW", "END"}

Init ==
  /\ packet \in Packets /\ buffer_size \in Sizes
  /\ stage = "RETURNED" /\ i = 0
  /\ buffer = NoBytes /\ index = 0
  /\ ret = -1

-----------------------------------------------------------------------------
\* The entry of the call.  isNull: packet or buffer is a null pointer.
CallRejected(p, size, isNull) ==
  /\ stage = "RETURNED"
  /\ \/ /\ isNull \/ size < MIN_PACKET_SIZE
        /\ ret' = -1
     \/ /\ ~isNull /\ size >= MIN_PACKET_SIZE
        /\ p.length > MAX_PAYLOAD_SIZE
        /\ ret' = -2
  /\ packet' = p /\ buffer_size' = size
  /\ buffer' = NoBytes /\ index' = 0 /\ i' = 0
  /\ UNCHANGED stage

CallAccepted(p, size) ==
  /\ stage = "RETURNED"
  /\ size >= MIN_PACKET_SIZE /\ p.length <= MAX_PAYLOAD_SIZE
  /\ packet' = p /\ buffer_size' = size
  /\ buffer' = Put(NoBytes, 0, START_BYTE) /\ index' = 1
  /\ i' = 0 /\ ret' = 0
  /\ stage' = "LENGTH"

\* LENGTH is written without a test for room: MIN_PACKET_SIZE leaves it.
PutLength ==
  /\ stage = "LENGTH"
  /\ buffer' = Put(buffer, index, packet.length)
  /\ index' = index + 1
  /\ stage' = "ADDRESS"
  /\ UNCHANGED <<packet, buffer_size, i, ret>>

Fail(code) ==
  /\ stage' = "RETURNED" /\ ret' = code
  /\ UNCHANGED <<packet, buffer_size, i, buffer, index>>

\* Mutant of Stuffs: room for one byte is taken to be enough for a pair.
StuffsOverEnd(byte) ==
  /\ index + 1 <= buffer_size
  /\ \/ /\ byte \in FlagBytes
        /\ buffer' = Put(Put(buffer, index, ESC_BYTE), index + 1, Flip(byte))
        /\ index' = index + 2
     \/ /\ byte \notin FlagBytes
        /\ buffer' = Put(buffer, index, byte) /\ index' = index + 1

\* Mutant of Stuffs: the byte behind ESC is not flipped.
StuffsUnflipped(byte) ==
  \/ /\ byte \in FlagBytes /\ index + 2 <= buffer_size
     /\ buffer' = Put(Put(buffer, index, ESC_BYTE), index + 1, byte)
     /\ index' = index + 2
  \/ /\ byte \notin FlagBytes /\ index + 1 <= buffer_size
     /\ buffer' = Put(buffer, index, byte) /\ index' = index + 1

\* stuff_byte: a flag takes two bytes or none.
Stuffs(byte) ==
  \/ /\ byte \in FlagBytes
     /\ index + 2 <= buffer_size
     /\ buffer' = Put(Put(buffer, index, ESC_BYTE), index + 1, Flip(byte))
     /\ index' = index + 2
  \/ /\ byte \notin FlagBytes
     /\ index + 1 <= buffer_size
     /\ buffer' = Put(buffer, index, byte)
     /\ index' = index + 1

\* Mutant of Overflows: every byte is given the room of a pair, off by one.
OverflowsEarly(byte) == index + 2 >= buffer_size

\* Mutant of Overflows: the bound is the size of a packet, not of the buffer.
OverflowsPacket(byte) ==
  index + 2 > BUFFER_SIZE \/ index + 2 > buffer_size

Overflows(byte) ==
  IF byte \in FlagBytes THEN index + 2 > buffer_size
                        ELSE index + 1 > buffer_size

\* Mutant of Turn: one turn too many.
TurnLate(count, next) ==
  IF i < count
    THEN i' = i + 1 /\ UNCHANGED stage
    ELSE i' = 0 /\ stage' = next

\* One turn of a loop of `count' turns: the loop variable, and the stage.
Turn(count, next) ==
  IF i + 1 < count
    THEN i' = i + 1 /\ UNCHANGED stage
    ELSE i' = 0 /\ stage' = next

\* Mutant of AfterAddress: the loop over an empty payload is entered.
AfterAddressAlwaysPayload == "PAYLOAD"

AfterAddress == IF packet.length = 0 THEN "CRC_HIGH" ELSE "PAYLOAD"

PutAddressByte ==
  /\ stage = "ADDRESS"
  /\ \/ /\ Stuffs(packet.address[i])
        /\ Turn(ADDR_BYTES, AfterAddress)
        /\ UNCHANGED <<packet, buffer_size, ret>>
     \/ Overflows(packet.address[i]) /\ Fail(-4)

PutPayloadByte ==
  /\ stage = "PAYLOAD"
  /\ \/ /\ Stuffs(packet.payload[i])
        /\ Turn(packet.length, "CRC_HIGH")
        /\ UNCHANGED <<packet, buffer_size, ret>>
     \/ Overflows(packet.payload[i]) /\ Fail(-6)

PutCrcHigh ==
  /\ stage = "CRC_HIGH"
  /\ \/ /\ Stuffs(FrameCrcHigh(packet))
        /\ stage' = "CRC_LOW"
        /\ UNCHANGED <<packet, buffer_size, i, ret>>
     \/ Overflows(FrameCrcHigh(packet)) /\ Fail(-7)

PutCrcLow ==
  /\ stage = "CRC_LOW"
  /\ \/ /\ Stuffs(FrameCrcLow(packet))
        /\ stage' = "END"
        /\ UNCHANGED <<packet, buffer_size, i, ret>>
     \/ Overflows(FrameCrcLow(packet)) /\ Fail(-8)

PutEnd ==
  /\ stage = "END"
  /\ \/ /\ index < buffer_size
        /\ buffer' = Put(buffer, index, END_BYTE)
        /\ index' = index + 1
        /\ stage' = "RETURNED" /\ ret' = index + 1
        /\ UNCHANGED <<packet, buffer_size, i>>
     \/ index >= buffer_size /\ Fail(-9)

Next ==
  \/ \E p \in Packets, size \in Sizes :
       \/ \E isNull \in BOOLEAN : CallRejected(p, size, isNull)
       \/ CallAccepted(p, size)
  \/ PutLength \/ PutAddressByte \/ PutPayloadByte
  \/ PutCrcHigh \/ PutCrcLow \/ PutEnd

Spec == Init /\ [][Next]_vars

-----------------------------------------------------------------------------
(***************************************************************************)
(* Properties.                                                             *)
(***************************************************************************)

\* Type invariant: the packet and the output buffer hold bytes, the loop
\* variable stays inside the array its loop reads.
TypeOK ==
  /\ packet \in Packets /\ buffer_size \in Sizes
  /\ stage \in Stages
  /\ index \in Nat /\ i \in Nat
  /\ \A j \in DOMAIN buffer : buffer[j] \in Byte
  /\ stage # "RETURNED" => packet.length <= MAX_PAYLOAD_SIZE
  /\ stage = "ADDRESS" => i < ADDR_BYTES
  /\ stage = "PAYLOAD" => i < packet.length
  /\ ret \in Int

\* Whatever the packet and wherever the output buffer ends (between the two
\* bytes of an escape pair, before END, before LENGTH), nothing is written
\* behind it.
WritesInBounds ==
  /\ DOMAIN buffer = 0 .. index - 1
  /\ index <= buffer_size \/ index = 0

\* The receiver resynchronizes on START and recognizes the end of a frame by
\* END: neither occurs inside a frame, whatever the address, the payload and
\* the CRC are, not even as the second half of an escape pair.
NoFlagInside ==
  \A j \in DOMAIN buffer :
    buffer[j] \in {START_BYTE, END_BYTE} =>
      \/ j = 0 /\ buffer[j] = START_BYTE
      \/ stage = "RETURNED" /\ j = ret - 1 /\ buffer[j] = END_BYTE

\* When a call succeeds, the buffer holds the frame of the packet: no bytes of
\* it are missing, none are added, and the count returned is its length.  A
\* truncated frame is never reported.
ExactResult ==
  stage = "RETURNED" /\ ret > 0 =>
    Prefix(buffer, ret) = EncodedFrame(packet)

\* An error code of the stuffing or of END (-4 to -9) is returned only for a
\* frame that does not fit.  This says nothing of -1: a buffer of less than
\* FUSAIN_MIN_PACKET_SIZE bytes is refused beforehand, also for a packet without
\* payload, whose frame of 13 bytes would fit into 13.
FailsOnlyIfTooBig ==
  stage = "RETURNED" /\ ret <= -4 => Len(EncodedFrame(packet)) > buffer_size

\* A buffer of twice the bytes between LENGTH and END, and the three bytes
\* that are never stuffed, is always enough: the tests and the README allocate
\* FUSAIN_MAX_PACKET_SIZE * 2 = 256 >= 251 bytes.
WorstCase == 2 * (ADDR_BYTES + MAX_PAYLOAD_SIZE + 2) + 3

WorstCaseSuffices ==
  stage = "RETURNED" /\ buffer_size >= WorstCase => ret > -3
=============================================================================
