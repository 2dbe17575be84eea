SPECIFICATION Spec
CONSTANTS
  NumberValue <- MCNumberValue
  MaxDepth = 6
  SchemaTexts <- MCSchemaTexts
  Documents <- MCDocuments
  Unit = 2
  StringLength <- MCStringLength
  Formats <- MCFormats
INVARIANT DefaultsAreInserted
