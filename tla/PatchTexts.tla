------------------------------ MODULE PatchTexts ------------------------------
(***************************************************************************)
(* Patches as they are written down: JSON pointers (patch_pointer.go) and  *)
(* patch documents (patch.go, patch_ops.go).  A pointer is a text, here    *)
(* the sequence of its characters, because escaping is about characters;   *)
(* the tokens it is made of are names and indexes.                         *)
(***************************************************************************)
EXTENDS JSONValues, TLC

CONSTANT Spelling  \* [token -> its characters]

Slash == "/"
Tilde == "~"
NoToken == "no such token"

\* Does it stand in the text, behind the first n characters?
StandsAt(old, text, n) ==
  n + Len(old) <= Len(text) /\ \A i \in DOMAIN old : text[n + i] = old[i]

\* strings.ReplaceAll: what becomes of the last n characters.
Replacing(text, old, new) ==
  LET replaced[n \in 0..Len(text)] ==
        IF n = 0 THEN <<>>
        ELSE IF StandsAt(old, text, Len(text) - n)
          THEN new \o replaced[n - Len(old)]
          ELSE <<text[Len(text) - n + 1]>> \o replaced[n - 1]
  IN  replaced[Len(text)]

escapeJSONPointerSegment(text) ==
  LET escaped == Replacing(text, <<Tilde>>, <<Tilde, "0">>)
  IN  Replacing(escaped, <<Slash>>, <<Tilde, "1">>)

\* Mutant: the tilde first, which then may begin an escape of its own.
unescapeTildeFirst(text) ==
  LET unescaped == Replacing(text, <<Tilde, "0">>, <<Tilde>>)
  IN  Replacing(unescaped, <<Tilde, "1">>, <<Slash>>)

unescapeJSONPointerSegment(text) ==
  LET unescaped == Replacing(text, <<Tilde, "1">>, <<Slash>>)
  IN  Replacing(unescaped, <<Tilde, "0">>, <<Tilde>>)

joinPointer(base, token) == base \o <<Slash>> \o escapeJSONPointerSegment(Spelling[token])

\* strings.Split, at slashes: the pieces of the last n characters.
Split(text) ==
  LET pieces[n \in 0..Len(text)] ==
        IF n = 0 THEN <<<<>>>>
        ELSE LET c == text[Len(text) - n + 1]
             IN  IF c = Slash THEN <<<<>>>> \o pieces[n - 1]
                 ELSE <<<<c>> \o Head(pieces[n - 1])>> \o Tail(pieces[n - 1])
  IN  pieces[Len(text)]

IsPointer(text) == text = <<>> \/ Head(text) = Slash

Token(text) ==
  IF \E t \in DOMAIN Spelling : Spelling[t] = text
    THEN CHOOSE t \in DOMAIN Spelling : Spelling[t] = text ELSE NoToken

ParseJSONPointer(pointer) ==
  IF pointer = <<>> THEN <<>>
  ELSE LET raw == Split(Tail(pointer))
       IN  [i \in DOMAIN raw |-> Token(unescapeJSONPointerSegment(raw[i]))]

-----------------------------------------------------------------------------
(* Patch documents.                                                        *)

\* PatchOp.toJSONValue
toJSONValue(op) ==
  LET named == <<Field("op", Str(op.op)), Field("path", Str(op.path))>>
  IN  Object(CASE op.op \in {"add", "replace", "test"} ->
                    Append(named, Field("value", op.value))
               [] op.op \in {"move", "copy"} -> Append(named, Field("from", Str(op.from)))
               [] op.op = "remove" -> named)

\* Patch.ToJSONValue
PatchDocument(ops) == Array([i \in DOMAIN ops |-> toJSONValue(ops[i])])

NeedsFrom(op)  == op.text \in {"move", "copy"}
NeedsValue(op) == op.text \in {"add", "replace", "test"}

\* What patchOpFromJSONValue accepts.
IsPatchOp(value) ==
  LET Get(k)  == GetField(value.fields, k)
      present == nonVoidObjectFields(value.fields)
  IN  /\ value.kind = "object"
      /\ KeysOf(present) \subseteq {"op", "path", "from", "value"}
      /\ \A i, j \in DOMAIN present : present[i].key = present[j].key => i = j
      /\ Get("op").kind = "string"
      /\ Get("path").kind = "string" /\ IsPointer(Get("path").text)
      /\ NeedsValue(Get("op")) \/ NeedsFrom(Get("op")) \/ Get("op").text = "remove"
      /\ HasField(value.fields, "value") <=> NeedsValue(Get("op"))
      /\ HasField(value.fields, "from")  <=> NeedsFrom(Get("op"))
      /\ NeedsFrom(Get("op")) => Get("from").kind = "string" /\ IsPointer(Get("from").text)

\* patchOpFromJSONValue
PatchOpOf(value) ==
  LET Get(k) == GetField(value.fields, k)
      name   == Get("op").text
      path   == Get("path").text
  IN  CASE NeedsValue(Get("op")) -> [op |-> name, path |-> path, value |-> Get("value")]
        [] NeedsFrom(Get("op"))  -> [op |-> name, path |-> path, from |-> Get("from").text]
        [] OTHER                 -> [op |-> name, path |-> path]

\* PatchFromJSONValue
IsPatch(document) ==
  document.kind = "array" /\ \A i \in DOMAIN document.items : IsPatchOp(document.items[i])

PatchFromJSON(document) == [i \in DOMAIN document.items |-> PatchOpOf(document.items[i])]
=============================================================================
