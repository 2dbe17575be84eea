------------------------------ MODULE JSONValues -----------------------------
(***************************************************************************)
(* JSON values, and the operations on the ordered fields of an object that *)
(* the whole library is built from (value.go, object.go, patch_equal.go).  *)
(*                                                                         *)
(* A scalar is a kind and a text.  The fields of an object are a sequence, *)
(* because ojson keeps them ordered.  The field operations look only at    *)
(* keys and at the kind of a value, so that they serve both for trees      *)
(* (module SchemaRules) and for the node heap (module NodeHeap), where the *)
(* value of a field may be a reference.                                    *)
(***************************************************************************)
EXTENDS Integers, Sequences, SequencesExt

Scalar(kind, text) == [kind |-> kind, text |-> text]
Void               == Scalar("void", "")
Null               == Scalar("null", "null")
Str(text)          == Scalar("string", text)
Num(text)          == Scalar("number", text)
Object(fields)     == [kind |-> "object", fields |-> fields]
Array(items)       == [kind |-> "array", items |-> items]
Field(key, value)  == [key |-> key, value |-> value]

\* The fields with such keys and values.
FieldsOf(keys, values) == [key : keys, value : values]

IsVoid(value)      == value.kind = "void"
IsContainer(value) == value.kind \in {"object", "array"}

\* What stands at these places of a sequence: SelectSeq for proofs.
Those(s, places) ==
  LET those[n \in 0..Len(s)] ==
        IF n = 0 THEN <<>>
        ELSE IF n \in places THEN Append(those[n - 1], s[n]) ELSE those[n - 1]
  IN  those[Len(s)]

-----------------------------------------------------------------------------
(* Ordered fields.                                                         *)

KeysOf(fields) == {fields[i].key : i \in DOMAIN fields}

FieldIndex(fields, key) == SelectInSeq(fields, LAMBDA f : f.key = key)

\* Void stands for a field that is absent or holds Void.
GetField(fields, key) ==
  LET i == FieldIndex(fields, key) IN IF i = 0 THEN Void ELSE fields[i].value

HasField(fields, key) == ~IsVoid(GetField(fields, key))

\* Mutant: always adds at the end.
setFieldAppends(fields, key, value) == Append(fields, Field(key, value))

\* Overwrites the field where it stands, or adds it at the end.
setField(fields, key, value) ==
  LET i == FieldIndex(fields, key)
  IN  IF i = 0 THEN Append(fields, Field(key, value))
               ELSE [fields EXCEPT ![i].value = value]

removeField(fields, key) ==
  LET i == FieldIndex(fields, key)
  IN  IF i = 0 THEN fields ELSE RemoveAt(fields, i)

nonVoidObjectFields(fields) == Those(fields, {i \in DOMAIN fields : ~IsVoid(fields[i].value)})
=============================================================================
