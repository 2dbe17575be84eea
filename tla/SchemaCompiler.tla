---------------------------- MODULE SchemaCompiler ----------------------------
(***************************************************************************)
(* CompileSchemaBytes, and documents read with the compiled schema         *)
(* (schema.go, ReadStringWithSchema in schema_apply.go).                   *)
(*                                                                         *)
(* Two pieces of code decide whether a value suits an entry: the compiler  *)
(* asks validateValueAgainstSchemaEntry about a default, and reading a     *)
(* document asks normalizeValueForSchema.                                  *)
(***************************************************************************)
EXTENDS SchemaEntries

CONSTANTS
  SchemaTexts,  \* the schema texts a client compiles
  Documents     \* the documents it reads

VARIABLES
  compiled,  \* what the compiler returned: ok, and the entries by id
  document,  \* the document read last
  result     \* what reading it returned

vars == <<compiled, document, result>>

Rules == INSTANCE SchemaRules WITH Schema <- compiled.entries, Root <- RootId

-----------------------------------------------------------------------------
Init == compiled = Rejected /\ document = Void /\ result = Rules!Failure

\* Until a text compiles there is no schema to read with.
CompileSchema(text) ==
  /\ ~compiled.ok
  /\ compiled' = CompileSchemaJSON(text)
  /\ UNCHANGED <<document, result>>

ReadWithSchema(d) ==
  /\ compiled.ok
  /\ document' = d
  /\ result' = Rules!normalizeValueForSchema(d, RootId)
  /\ UNCHANGED compiled

\* A client writes the document it got and reads it again.
ReadAgain ==
  /\ result.ok
  /\ document' = result.value
  /\ result' = Rules!normalizeValueForSchema(result.value, RootId)
  /\ UNCHANGED compiled

Next == \/ \E t \in SchemaTexts : CompileSchema(t)
        \/ \E d \in Documents : ReadWithSchema(d)
        \/ ReadAgain

Spec == Init /\ [][Next]_vars

-----------------------------------------------------------------------------
(* Correctness.                                                            *)

Entries == compiled.entries

\* A compiled schema is closed: the entries named below an entry exist, and
\* no two children of an object have one name.
TypeOK ==
  /\ compiled.ok => RootId \in DOMAIN Entries
  /\ \A id \in DOMAIN Entries :
       LET e == Entries[id]
       IN  /\ e.kind \in Kinds
           /\ e.items \in DOMAIN Entries \cup {"no entry"}
           /\ \A i \in DOMAIN e.children :
                /\ e.children[i] \in DOMAIN Entries
                /\ \A j \in DOMAIN e.children :
                     Entries[e.children[i]].name = Entries[e.children[j]].name => i = j

\* Does an object of the value lack a field that is required and has no
\* default, or whose default cannot be inserted?
RECURSIVE Lacking(_, _)
Lacking(value, id) ==
  id # "no entry" /\
  LET e == Entries[id] IN
  CASE value.kind = "object" /\ e.kind = "object" ->
         \E j \in DOMAIN e.children :
           LET child == Entries[e.children[j]]
               there == GetField(value.fields, child.name)
           IN  CASE ~IsVoid(there)         -> Lacking(there, e.children[j])
                 [] ~IsVoid(child.default) -> Lacking(child.default, e.children[j])
                 [] OTHER                  -> child.required
    [] value.kind = "array" /\ e.kind = "array" ->
         \E i \in DOMAIN value.items : Lacking(value.items[i], e.items)
    [] OTHER -> FALSE

\* The two validators agree: reading a document fails exactly when the value
\* could not be a default of the root or something in it is missing.  A value
\* the compiler lets pass as a default is not rejected later for what it holds.
ValidatorsAgree ==
  compiled.ok /\ ~IsVoid(document) =>
    (result.ok <=> /\ validateValueAgainstSchemaEntry(document, Entries[RootId], Entries)
                   /\ ~Lacking(document, RootId))

\* What was read is in normal form: a document that is written and read again
\* with its schema comes back as it was.
ReadingIsIdempotent ==
  compiled.ok /\ result.ok =>
    Rules!normalizeValueForSchema(result.value, RootId) = result

\* A default in use is one the schema accepts: where reading fails, it fails
\* for what the document holds or lacks, not for a value of the schema itself,
\* unless that default leaves out a required field (DefaultsAreInserted).
DefaultsAccepted ==
  \A id \in DOMAIN Entries :
    LET default == Entries[id].default
    IN  ~IsVoid(default) /\ ~Lacking(default, id) =>
          Rules!normalizeValueForSchema(default, id).ok

\* concepts.md:108: "missing fields with defaults are inserted": where nothing
\* is required without a default, an empty object can be read.
DefaultsAreInserted ==
  \A id \in DOMAIN Entries :
    LET e == Entries[id]
    IN  e.kind = "object"
        /\ (\A i \in DOMAIN e.children :
              LET c == Entries[e.children[i]] IN c.required => ~IsVoid(c.default))
          => Rules!normalizeValueForSchema(Object(<<>>), id).ok
=============================================================================
