SPECIFICATION Spec
CONSTANTS
  NumberValue <- MCNumberValue
  MaxDepth = 6
  Schema <- MCSchema
  Root = "root"
  MaxNodes = 1
  MaxIndex = 3
  Documents <- MCTrees
  Spelling <- MCSpelling
  SortedKeys <- MCSortedKeys
INVARIANT DiffTransforms
CHECK_DEADLOCK FALSE
