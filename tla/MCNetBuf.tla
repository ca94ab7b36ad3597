------------------------------ MODULE MCNetBuf -------------------------------
(***************************************************************************)
(* A pool of two net_bufs behind a decoder on the scaled down wire.  With  *)
(* the constants of the cfg there are two valid frames, of different       *)
(* addresses (3 and 7), headers and payloads, so that a packet in the      *)
(* wrong net_buf shows.                                                    *)
(***************************************************************************)
EXTENDS NetBuf, ScaledWire, TLC

\* What other functions leave in the slot of the packet: a length that ends a
\* frame early, or one that no LENGTH byte may have, and zeros.
Leftovers ==
  {[length |-> n, address |-> ZeroAddress, msg_type |-> 0,
    payload |-> [k \in 0 .. MAX_PAYLOAD_SIZE - 1 |-> 0],
    crc |-> 0] : n \in {0, BYTE_MAX}}

\* No step and no property prefers one net_buf of the pool to the other.
BufferSymmetry == Permutations(Buffers)
=============================================================================
