--------------------------- MODULE SchemaVocabulary ---------------------------
(***************************************************************************)
(* The fields a schema entry may have and the kinds it may be of           *)
(* (schema.go); one description stands for all.                            *)
(***************************************************************************)
EXTENDS TLC

SchemaFields == {"kind", "name", "children", "default", "required", "nullable",
                 "min", "max", "integer", "enum", "min_length", "max_length",
                 "format", "items", "custom", "description-en"}

Kinds == {"object", "array", "string", "number", "boolean", "null"}

\* Which kind of entry a field is for, and the kind its value must have.
OnlyFor == [children |-> "object", items |-> "array", min |-> "number",
            max |-> "number", integer |-> "number", enum |-> "string",
            min_length |-> "string", max_length |-> "string", format |-> "string"]
MustBe  == [required |-> "boolean", nullable |-> "boolean", children |-> "array",
            items |-> "object", min |-> "number", max |-> "number",
            integer |-> "boolean", enum |-> "array", min_length |-> "number",
            max_length |-> "number", format |-> "string"] @@ ("description-en" :> "string")
=============================================================================
