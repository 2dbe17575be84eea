SPECIFICATION Spec
CONSTANTS
  NumberValue <- MCNumberValue
  MaxDepth = 12
  Schema <- MCSchema
  Root = "root"
  MaxNodes = 12
  Documents <- MCTrees
  Argument <- MCArgument
  Scalars <- MCScalars
  Pointers <- MCPointers
  MaxIndex = 3
  MaxOps = 2
VIEW CanonicalView
INVARIANTS TypeOK Isolation DraftIsTree SchemaAtTheEnd
PROPERTIES CallerUntouched ImplementsPatchSpec
CHECK_DEADLOCK FALSE
