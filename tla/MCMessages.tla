----------------------------- MODULE MCMessages -----------------------------
(***************************************************************************)
(* Every function with the values at the boundaries of its parameters.     *)
(* TLC computes with 32 bits, so the maxima of the wide types are scaled   *)
(* down by the cfg: int32_t to 28 bits, uint32_t to 29 and uint64_t to 31. *)
(* They stay in the size classes of CBOR (above 65535, and above           *)
(* UINT32_MAX) that they have in the code.                                 *)
(***************************************************************************)
EXTENDS Messages

MCAddresses == {23, UINT64_MAX}
MCUint8s == {0, 127, 128}
MCInt32s == {-INT32_MAX - 1, 0, 256}
MCUint32s == {0, 255, UINT32_MAX}

\* The enumerators, and a number that is none and that no uint8 member holds.
MCModes == fusain_mode_t \cup {256}
MCStateValues == fusain_state_t \cup {256}
MCTempCommands == fusain_temp_cmd_type_t \cup {256}
MCPumpEvents == fusain_pump_event_t \cup {256}
MCInvalidCmdErrors == fusain_invalid_cmd_error_t \cup {256}
=============================================================================
