SPECIFICATION Spec
CONSTANTS
  CBOR_ARRAY_2 = 130
  CBOR_UINT8_PREFIX = 24
  IMMEDIATE_MAX = 23
  MAX_PAYLOAD_SIZE = 114
  INT32_MAX = 134217727
  UINT32_MAX = 268435455
  UINT64_MAX = 2147483647
  Floats = {nan, pi}
  MapOverhead = 2
  Addresses <- MCAddresses
  Uint8s <- MCUint8s
  Int32s <- MCInt32s
  Uint32s <- MCUint32s
  Bools = {TRUE, FALSE}
  Modes <- MCModes
  StateValues <- MCStateValues
  TempCommands <- MCTempCommands
  PumpEvents <- MCPumpEvents
  InvalidCmdErrors <- MCInvalidCmdErrors
  Reused = {"motor_command", "ping_request"}
INVARIANTS TypeOK RoundTrip FailsOnlyOutOfRange
