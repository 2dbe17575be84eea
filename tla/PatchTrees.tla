----------------------------- MODULE PatchTrees -----------------------------
(***************************************************************************)
(* RFC 6902 operations as functions from values to values.  A location is  *)
(* a sequence of tokens; values are immutable trees, so each operation     *)
(* rebuilds the path to its target.                                        *)
(***************************************************************************)
EXTENDS SchemaRules, PatchTokens

Invalid == Scalar("invalid", "")  \* the outcome of an operation that fails

\* The child of a value that a token names (Void if there is none).
ChildAt(value, token) ==
  CASE value.kind = "object" -> GetField(value.fields, token)
    [] value.kind = "array" /\ parseArrayIndex(token) + 1 \in DOMAIN value.items ->
         value.items[parseArrayIndex(token) + 1]
    [] OTHER -> Void

ReplaceChild(value, token, child) ==
  IF value.kind = "object"
    THEN Object(setField(value.fields, token, child))
    ELSE Array([value.items EXCEPT ![parseArrayIndex(token) + 1] = child])

\* What stands at the first n tokens of a location, Void if nothing does.
Along(value, path) ==
  LET along[n \in Nat] == IF n = 0 THEN value ELSE ChildAt(along[n - 1], path[n])
  IN  along

ValueAt(value, path) ==
  LET there == Along(value, path)[Len(path)]
  IN  IF path # <<>> /\ IsVoid(there) THEN Invalid ELSE there

\* The value with what stands at an existing location replaced: the last n
\* tokens lead to it from the value that is rebuilt.
PutAt(value, path, new) ==
  LET above(n) == Len(path) - n
      put[n \in 0..Len(path)] ==
        IF n = 0 THEN new
        ELSE ReplaceChild(Along(value, path)[above(n)], path[above(n) + 1], put[n - 1])
  IN  put[Len(path)]

\* The value with the parent of the location replaced.
PutParent(value, path, parent) ==
  IF parent = Invalid THEN Invalid ELSE PutAt(value, Front(path), parent)

ParentAt(value, path) == ValueAt(value, Front(path))

Inserted(parent, token, new) ==
  CASE parent.kind = "object" -> Object(setField(parent.fields, token, new))
    [] parent.kind = "array" /\ token = "-" -> Array(Append(parent.items, new))
    [] parent.kind = "array" /\ parseArrayIndex(token) \in 0..Len(parent.items) ->
         Array(InsertAt(parent.items, parseArrayIndex(token) + 1, new))
    [] OTHER -> Invalid

SpecAdd(value, path, new) ==
  IF new.kind \in {"void", "invalid"} THEN Invalid
  ELSE IF path = <<>> THEN new
  ELSE PutParent(value, path, Inserted(ParentAt(value, path), Last(path), new))

Deleted(parent, token) ==
  IF IsVoid(ChildAt(parent, token)) THEN Invalid
  ELSE IF parent.kind = "object" THEN Object(removeField(parent.fields, token))
  ELSE Array(RemoveAt(parent.items, parseArrayIndex(token) + 1))

SpecRemove(value, path) ==
  IF path = <<>> THEN Void
  ELSE PutParent(value, path, Deleted(ParentAt(value, path), Last(path)))

Replaced(parent, token, new) ==
  IF IsVoid(ChildAt(parent, token)) THEN Invalid ELSE ReplaceChild(parent, token, new)

SpecReplace(value, path, new) ==
  IF IsVoid(new) THEN Invalid
  ELSE IF path = <<>> THEN new
  ELSE PutParent(value, path, Replaced(ParentAt(value, path), Last(path), new))

SpecTest(value, path, expected) ==
  LET there == ValueAt(value, path)
  IN  IF ~IsVoid(expected) /\ there # Invalid /\ valuesEqual(there, expected)
        THEN value ELSE Invalid

SpecMove(value, from, path) ==
  LET rest == SpecRemove(value, from)
  IN  IF IsStrictPrefix(from, path) \/ rest = Invalid THEN Invalid
      ELSE SpecAdd(rest, path, ValueAt(value, from))

SpecOp(value, op) ==
  CASE op.op = "add"     -> SpecAdd(value, op.path, op.value)
    [] op.op = "remove"  -> SpecRemove(value, op.path)
    [] op.op = "replace" -> SpecReplace(value, op.path, op.value)
    [] op.op = "test"    -> SpecTest(value, op.path, op.value)
    [] op.op = "move"    -> SpecMove(value, op.from, op.path)
    [] op.op = "copy"    -> SpecAdd(value, op.path, ValueAt(value, op.from))
=============================================================================
