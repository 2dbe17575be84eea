SPECIFICATION Spec
CONSTANTS
  Calls <- MCCalls
  Malformed = {"?"}
  HeldValues <- MCHeldValues
  MaxEntries = 4
  Unit = 2
  NumberValue <- MCNumberValue
  MaxDepth = 6
  StringLength <- MCStringLength
  Formats <- MCFormats
INVARIANTS TypeOK BuiltAsAsked
CHECK_DEADLOCK FALSE
