SPECIFICATION Spec
CONSTANTS
  BYTE_MAX = 7
  START_BYTE = 6
  END_BYTE = 7
  ESC_BYTE = 4
  ESC_XOR = 4
  MAX_PAYLOAD_SIZE = 2
  MIN_PACKET_SIZE = 7
  ADDR_BYTES = 1
  BUFFER_SIZE = 8
  CBOR_ARRAY_2 = 2
  CBOR_UINT8_PREFIX = 1
  IMMEDIATE_MAX = 0
  Crc <- ScaledCrc
  BitOr <- ScaledOr
  Packets <- MCPackets
  Sizes <- MCSizes
INVARIANTS TypeOK WritesInBounds NoFlagInside ExactResult FailsOnlyIfTooBig
  WorstCaseSuffices
