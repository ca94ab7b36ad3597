SPECIFICATION Spec
CONSTANTS
  BYTE_MAX = 7
  START_BYTE = 6
  END_BYTE = 7
  ESC_BYTE = 4
  ESC_XOR = 4
  MAX_PAYLOAD_SIZE = 3
  MIN_PACKET_SIZE = 8
  ADDR_BYTES = 2
  BUFFER_SIZE = 6
  CBOR_ARRAY_2 = 2
  CBOR_UINT8_PREFIX = 3
  IMMEDIATE_MAX = 0
  Crc <- ScaledCrc
  BitOr <- ScaledOr
  RxBytes = {4, 6, 7}
  Garbage = {7}
INVARIANTS TypeOK StoresInBounds CrcCoversFrame PacketMatchesBuffer
PROPERTY Refinement
