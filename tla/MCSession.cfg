SPECIFICATION SessionSpec
CONSTANTS
  BYTE_MAX = 255
  START_BYTE = 126
  END_BYTE = 127
  ESC_BYTE = 125
  ESC_XOR = 32
  MAX_PAYLOAD_SIZE = 114
  MIN_PACKET_SIZE = 14
  ADDR_BYTES = 8
  BUFFER_SIZE = 128
  CBOR_ARRAY_2 = 130
  CBOR_UINT8_PREFIX = 24
  IMMEDIATE_MAX = 23
  Crc <- CrcOf
  BitOr <- MCOr
  RxBytes <- MCBytes
  Garbage = {255}
  INT32_MAX = 134217727
  UINT32_MAX = 268435455
  UINT64_MAX = 2147483647
  Floats <- MCFloats
  MapOverhead = 2
  Addresses = {1}
  AddressBytes <- MCAddressBytes
  Uint8s = {0, 128}
  Int32s <- MCNegative
  Uint32s = {268435455}
  Bools = {TRUE}
  Modes = {2}
  StateValues = {8}
  TempCommands = {4}
  PumpEvents = {5}
  InvalidCmdErrors = {1}
  Reused = {}
  Functions = {"telemetry_config", "ping_request", "temp_command", "motor_command"}
  MaxCalls = 3
  MaxFaults = 1
  Noise = {125}
INVARIANTS SessionTypeOK ToldWhatWasMeant MeantIsTold
\* The system stops when everything has been sent and received.
CHECK_DEADLOCK FALSE
