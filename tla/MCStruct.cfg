SPECIFICATION Spec
CONSTANTS
  GoType <- MCGoType
  StructType = "Movie"
  VariableCount = 2
  InitialMemories <- MCInitialMemories
  Documents <- MCDocuments
  Patched <- MCPatched
  MaxCalls = 2
  NumberText <- MCNumberText
  Int64 <- MCInt64
  Uint64 <- MCUint64
  NumberValue <- MCNumberValue
  MaxDepth = 6
  Unit = 10
  SortedKeys <- MCSortedKeys
  Spelling <- MCSpelling
  MaxIndex = 3
  Schema = "none"
  Root = "none"
INVARIANTS TypeOK OnlyMentionedFields InputIsLeftAlone FilledInOrder TypedPatchRoundTrip
PROPERTIES SlicesAreFrozen
CHECK_DEADLOCK FALSE
