--------------------------- MODULE MCStructSchemas ---------------------------
(***************************************************************************)
(* Programs with every kind of field, one at a time where it is refused;   *)
(* schemas whose names collide once they are Go names, with nested objects *)
(* and arrays, nullable and required fields, defaults and kinds no Go type *)
(* stands for.                                                             *)
(***************************************************************************)
EXTENDS StructSchemas

MCNumberValue  == ("1" :> 2)
MCStringLength == ("" :> 0) @@ ("x" :> 1)
MCFormats      == [format \in {"date", "Time", "Ref"} |-> {"x"}]

\* Go fields: with a tag, with omitempty, without a tag.
Tagged(go, tag, type)   == [go |-> go, exported |-> TRUE, tag |-> tag,
                            omitempty |-> FALSE, type |-> type]
Omitting(go, tag, type) == [Tagged(go, tag, type) EXCEPT !.omitempty = TRUE]
Untagged(go, type)      == Tagged(go, "", type)
Private(go, type)       == [Untagged(go, type) EXCEPT !.exported = FALSE]

\* One format stands for a struct type, one for a pointer to a named string.
MCFormatGoTypes ==
  ("Time" :> Struct("time.Time"))
  @@ ("Ref" :> Of("pointer", [kind |-> "string", name |-> "DirectRef"]))
MCForeignTypes ==
  (JSONValueType.name :> <<>>) @@ ("time.Time" :> <<Private("wall", GoType("number"))>>)

String    == GoType("string")
Float     == GoType("number")
Anything  == GoType("interface")
StringMap == GoType("map")

Program(root, fields) ==
  [root |-> root,
   types |-> (root :> fields)
             @@ ("Pet" :> <<Tagged("Name", "a", String), Omitting("Age", "b", Float),
                            Private("chip", Anything)>>)
             @@ ("Decimal" :> <<Private("digits", Of("slice", Float))>>)
             @@ MCForeignTypes]

MCPrograms ==
  {Program("Order", <<Tagged("Pet", "pet", Of("pointer", Struct("Pet"))),
                      Tagged("Pets", "pets", Of("slice", Of("pointer", Struct("Pet")))),
                      Tagged("Grid", "a", Of("slice", Of("slice", Float))),
                      Tagged("Skipped", "-", Anything),
                      Omitting("Dash", "-", GoType("boolean"))>>),
   Program("Order", <<Tagged("Total", "a", Struct("Decimal")), Tagged("At", "b", Struct("time.Time")),
                      Tagged("N", "n", JSONNumber)>>),
   Program("Order", <<Untagged("Pets", Of("slice", Struct("Pet"))),
                      Tagged("Meta", "a", StringMap)>>),
   Program("Order", <<Tagged("B", "b", Float), Tagged("A", "a", String)>>),
   Program("Order", <<Tagged("A", "a", Float), Omitting("B", "a", String)>>),
   Program("Node",  <<Tagged("Next", "next", Of("pointer", Struct("Node")))>>),
   Program("Order", <<Tagged("Items", "pets", Of("slice", Anything))>>)}

Default == [requireExplicitJSONTags |-> TRUE, requiredFromNonOmit |-> FALSE,
            allowMapObjects |-> FALSE, numberTypes |-> {}, formatTypes |-> <<>>]
MCConfigs ==
  {Default,
   [Default EXCEPT !.requiredFromNonOmit = TRUE],
   [Default EXCEPT !.requireExplicitJSONTags = FALSE, !.allowMapObjects = TRUE],
   [Default EXCEPT !.numberTypes = {"Decimal"}, !.formatTypes = ("time.Time" :> "Time")],
   [Default EXCEPT !.formatTypes = ("time.Time" :> "tel")]}

Entry(kind, more)        == <<Field("kind", Str(kind))>> \o more
Plain(name, kind)        == Object(<<Field("name", Str(name))>> \o Entry(kind, <<>>))
Named(name, kind, more)  == Object(<<Field("name", Str(name))>> \o Entry(kind, more))
Flag(key)                == Field(key, True)
Formatted(name, format, more) ==
  Named(name, "string", <<Field("format", Str(format))>> \o more)
Children(cs)             == <<Field("children", Array(cs))>>
Root(cs)                 == Object(Entry("object", Children(cs)))
ItemsOf(entry)           == <<Field("items", Object(entry))>>

AB == <<Plain("a", "string"), Named("b", "number", <<Flag("required")>>)>>

MCSchemaTexts ==
  {Root(AB), Root(<<Plain("b", "number"), Plain("a", "string")>>), Root(<<>>),
   Root(<<Named("pet", "object", Children(AB)),
          Named("pets", "array", ItemsOf(Entry("object", Children(AB))))>>),
   Root(<<Named("pet", "object", Children(<<Named("pet", "object", Children(AB))>>)),
          Named("a", "object", <<>>)>>),
   \* Two fields, and then two types, with one Go name.
   Root(<<Plain("a", "string"), Plain("A", "string")>>),
   Root(<<Named("pet2", "object", <<>>),
          Named("pet", "object", Children(<<Named("pet", "object", <<>>)>>))>>),
   Root(<<Named("a", "string", <<Flag("nullable"), Flag("required"), Field("format", Str("date"))>>),
          Named("b", "boolean", <<Field("default", True)>>),
          Named("n", "number", <<Flag("nullable"), Field("default", Null)>>)>>),
   Root(<<Plain("pets", "array"), Named("a", "array", ItemsOf(Entry("array",
                                    ItemsOf(Entry("object", Children(AB))))))>>),
   Root(<<Formatted("a", "Time", <<>>), Formatted("b", "Ref", <<Flag("required")>>),
          Named("pets", "array", ItemsOf(Entry("string", <<Field("format", Str("Time"))>>)))>>),
   Root(<<Formatted("n", "Time", <<Flag("nullable")>>), Formatted("a", "Ref", <<>>),
          Named("pet", "object", Children(<<Formatted("b", "Time", <<Flag("required")>>)>>))>>),
   Root(<<Plain("a", "null"), Named("b", "array", ItemsOf(Entry("null", <<>>)))>>),
   Root(<<Named("-", "string", <<Flag("required")>>), Plain("a", "string")>>),
   Root(<<Plain("-", "string"), Named("pets", "array", ItemsOf(Entry("string", <<Flag("nullable")>>)))>>),
   Object(Entry("array", ItemsOf(Entry("object", Children(AB))))),
   Root(<<Plain("a", "colour")>>)}

MCExported == ("a" :> "A") @@ ("A" :> "A") @@ ("b" :> "B") @@ ("n" :> "N") @@ ("-" :> "Field")
              @@ ("pet" :> "Pet") @@ ("pet2" :> "Pet2") @@ ("pets" :> "Pets")
              @@ ("next" :> "Next") @@ ("Pets" :> "Pets")
              @@ ("Generated" :> "Generated") @@ ("2nd" :> "2nd")
MCSingular == ("Pets" :> "Pet") @@ ("A" :> "AItem") @@ ("AItem" :> "AItemItem")

MCIdentifiers == {"A", "B", "N", "Field", "Pet", "Pets", "Pet2", "Pet3", "A2", "AItem",
                  "AItemItem", "Next", "Generated", "JSONValue"}
=============================================================================
