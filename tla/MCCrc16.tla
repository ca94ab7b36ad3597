------------------------------- MODULE MCCrc16 -------------------------------
(***************************************************************************)
(* Every first byte, and behind it the bytes that carry least and most.    *)
(***************************************************************************)
EXTENDS CrcDivision

MCNextBytes == {0, 1, 126, 255}
=============================================================================
