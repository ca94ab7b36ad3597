SPECIFICATION NetBufSpec
CONSTANTS
  BYTE_MAX = 7
  START_BYTE = 6
  END_BYTE = 7
  ESC_BYTE = 4
  ESC_XOR = 4
  MAX_PAYLOAD_SIZE = 3
  MIN_PACKET_SIZE = 7
  ADDR_BYTES = 1
  BUFFER_SIZE = 5
  CBOR_ARRAY_2 = 7
  CBOR_UINT8_PREFIX = 3
  IMMEDIATE_MAX = 0
  Crc <- ScaledCrc
  BitOr <- ScaledOr
  RxBytes = {0, 3, 6, 7}
  Garbage = {7}
  Buffers = {b1, b2}
  Null = null
  StackPackets <- Leftovers
INVARIANT CompleteFrameReturned
\* After an overrun the program may do anything: the model ends with it.
CHECK_DEADLOCK FALSE
SYMMETRY BufferSymmetry
