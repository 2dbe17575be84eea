SPECIFICATION Spec
CONSTANTS
  NumberValue <- MCNumberValue
  MaxDepth = 3
  Schema <- MCSchema
  Root = "root"
  MaxNodes = 3
  Handles = {h1, h2}
  Keys = {"id", "list"}
  Scalars <- MCScalars
  MaxItems = 1
  MaxLoose = 2
VIEW CanonicalView
INVARIANTS TypeOK NoHiddenSlots CanonicalOrder AlwaysValid GovernedThroughout RevalidationOnlyAdds
PROPERTIES StoresCopies SchemaIsForLife
