------------------------------ MODULE MCBuilder ------------------------------
(***************************************************************************)
(* Builders of up to MaxEntries entries, with options that agree, that     *)
(* contradict each other, that are refused and then given again, and that  *)
(* get lost because they are not UTF-8; defaults of every kind, one a      *)
(* value the caller changes while it builds.                               *)
(***************************************************************************)
EXTENDS SchemaBuilder

\* Numbers in halves.
MCNumberValue  == ("0" :> 0) @@ ("1" :> 2) @@ ("1.5" :> 3) @@ ("2" :> 4)
MCStringLength == ("" :> 0) @@ ("x" :> 1) @@ ("x@y" :> 3)
MCFormats      == ("email" :> {"x@y"})

Option(key, arg) == [key |-> key, arg |-> arg]
Flag(key)        == Option(key, True)

Call(name, kind, opts) == [name |-> name, kind |-> kind, opts |-> opts]

MCCalls ==
  {Call("a", "object", <<Option("custom", Held)>>),
   Call("b", "object", <<Option("default", Held), Flag("required")>>),
   Call("b", "array", <<Option("default", Null), Flag("nullable"), Option("default", Held)>>),
   Call("a", "string", <<Option("description-en", Str("x")), Option("default", Str("x"))>>),
   Call("", "string", <<Option("min_length", Num("1")), Option("max_length", Num("0"))>>),
   Call("b", "string", <<Option("enum", Array(<<Str("?"), Str("x@y")>>)), Option("default", Str("?"))>>),
   Call("?", "string", <<Option("format", Str("email")), Option("default", Str("x"))>>),
   Call("a", "number", <<Option("min", Num("?")), Option("min", Num("1"))>>),
   Call("b", "number", <<Option("max", Num("1")), Option("max", Num("2")), Option("default", Num("2"))>>),
   Call("a", "boolean", <<Option("default", Null), Flag("nullable"), Flag("required")>>)}

MCHeldValues == {Object(<<Field("a", Str("x"))>>), Array(<<Num("2")>>)}
=============================================================================
