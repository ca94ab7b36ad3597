SPECIFICATION LinkSpec
CONSTANTS
  BYTE_MAX = 255
  START_BYTE = 126
  END_BYTE = 127
  ESC_BYTE = 125
  ESC_XOR = 32
  MAX_PAYLOAD_SIZE = 114
  MIN_PACKET_SIZE = 14
  ADDR_BYTES = 2
  BUFFER_SIZE = 128
  CBOR_ARRAY_2 = 130
  CBOR_UINT8_PREFIX = 24
  IMMEDIATE_MAX = 23
  Crc <- CrcOf
  BitOr <- MCOr
  RxBytes <- MCBytes
  Garbage = {255}
  Messages <- MCMessages
  Noise <- MCNoise
  MaxFaults = 2
INVARIANTS LinkTypeOK OnlySentInOrder LossBound
PROPERTY EventuallyDelivered
\* The system stops when everything has been sent and received.
CHECK_DEADLOCK FALSE
