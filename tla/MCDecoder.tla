------------------------------ MODULE MCDecoder ------------------------------
(***************************************************************************)
(* The decoder on the scaled down wire, with START, END and ESC on the     *)
(* line (MCDecoder.cfg) and with a plain byte besides, on a shorter frame  *)
(* (MCDecoderReady.cfg).  With the escapes of the flags the data bytes 0,  *)
(* 2, 3 and 7 (and with the plain byte also 1 and 5) reach the state       *)
(* machine: a length of zero, legal lengths and an illegal one, both       *)
(* headers, a wrong header and a raw END inside the data all occur.        *)
(***************************************************************************)
EXTENDS Decoder, ScaledWire
=============================================================================
