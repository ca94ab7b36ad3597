----------------------------- MODULE MCSession ------------------------------
(***************************************************************************)
(* A session with the constants of the code.  The sender's functions have  *)
(* the short and the long header, nil, a bool, a float, negative numbers   *)
(* and optional members, and one that fails for an index of 128.           *)
(***************************************************************************)
EXTENDS Session, Crc16

\* C's | on bytes: what is set in both is counted once.
MCOr(a, b) == (a + b + XorByte(a, b)) \div 2

MCBytes == 0 .. 255

\* A number with ordinary bytes and every flag among its bytes.
MCFloats == {<<64, 9, 126, 125, 127, 68, 45, 24>>}

\* An address with every flag among its bytes, and no byte twice.
MCAddressBytes ==
  [address \in {1} |-> [i \in 0 .. ADDR_BYTES - 1 |->
                         <<126, 1, 125, 0, 127, 255, 94, 200>>[i + 1]]]

MCNegative == {-127}
=============================================================================
