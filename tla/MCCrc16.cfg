SPECIFICATION CrcSpec
CONSTANTS
  NextBytes <- MCNextBytes
  MaxData = 3
  MaxBits = 1000
INVARIANTS IsRemainder FrameIsMultiple DetectsTwoBits DetectsOddBits
\* Both walks end at their bounds.
CHECK_DEADLOCK FALSE
