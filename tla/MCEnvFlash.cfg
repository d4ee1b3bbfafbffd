\* The runs end when the commands and the power failures are used up.
CHECK_DEADLOCK FALSE
SPECIFICATION Spec
CONSTANTS
  v1 = v1
  v2 = v2
  long = long
  None = None
  Name <- Names
  Value <- Values
  Refused <- BadMac
  TooLong <- LongOnes
  stdenvtab <- Defaults
  NVAR = 2
  Room = 3
  Sets = 4
  Failures = 2
INVARIANTS UpdatesReadFormatted Durable MemoryAgrees
PROPERTY Boots
