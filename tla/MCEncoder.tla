------------------------------ MODULE MCEncoder ------------------------------
(***************************************************************************)
(* The encoder on the scaled down wire: every address, every payload of    *)
(* every legal length with bytes of MCBytes (two plain bytes and the three *)
(* flags), one packet with an illegal length, and every buffer size from   *)
(* none to one more than the longest frame needs.  As in the code, the     *)
(* least buffer accepted is one byte larger than the frame without a       *)
(* payload.                                                                *)
(***************************************************************************)
EXTENDS Encoder, ScaledWire

MCBytes == {0, 1, START_BYTE, END_BYTE, ESC_BYTE}

\* A payload array of which the bytes in use vary.
MCPayloads(length) ==
  {[k \in 0 .. MAX_PAYLOAD_SIZE - 1 |-> IF k < length THEN f[k] ELSE 0] :
     f \in [0 .. length - 1 -> MCBytes]}

MCPackets ==
  UNION {[length : {length}, address : [0 .. ADDR_BYTES - 1 -> MCBytes],
          payload : MCPayloads(length)] : length \in 0 .. MAX_PAYLOAD_SIZE}
  \cup [length : {MAX_PAYLOAD_SIZE + 1}, address : {ZeroAddress},
        payload : MCPayloads(0)]

MCSizes == 0 .. WorstCase + 1
=============================================================================
