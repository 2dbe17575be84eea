SPECIFICATION Spec
CONSTANTS
  Programs <- MCPrograms
  SchemaTexts <- MCSchemaTexts
  Configs <- MCConfigs
  TypeNames = {"", "pet", "2nd"}
  Exported <- MCExported
  Singular <- MCSingular
  Identifiers <- MCIdentifiers
  FormatGoTypes <- MCFormatGoTypes
  ForeignTypes <- MCForeignTypes
  Unit = 2
  NumberValue <- MCNumberValue
  MaxDepth = 6
  StringLength <- MCStringLength
  Formats <- MCFormats
INVARIANTS DerivedSchemaAgrees SuggestionIsFaithful
CHECK_DEADLOCK FALSE
