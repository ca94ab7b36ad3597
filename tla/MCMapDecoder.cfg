SPECIFICATION Spec
CONSTANTS
  INT32_MAX = 134217727
  UINT32_MAX = 268435455
  UINT64_MAX = 2147483647
  Floats = {nan}
  MapOverhead = 2
  Expected <- MCExpected
  Written <- MCWritten
  Inputs <- MCInputs
  Leftover = leftover
INVARIANTS TypeOK AcceptsWhatIsEncoded StructSaysMap AnswerIsDecoded
\* A behaviour is one call.
CHECK_DEADLOCK FALSE
