-------------------------------- MODULE Diff --------------------------------
(***************************************************************************)
(* Diff, and the life of the patch it returns (patch_diff.go): a caller    *)
(* diffs two documents and applies the patch to the first one, with the    *)
(* schema it diffed with; between the two the patch may be written down    *)
(* and read back.                                                          *)
(***************************************************************************)
EXTENDS PatchTrees, PatchTexts

CONSTANTS
  Documents,   \* the documents that are diffed
  SortedKeys   \* their field names, as sort.Strings orders them

VARIABLES
  before, after,  \* the caller's documents
  useSchema,      \* is there a schema
  ops,            \* the patch
  document,       \* what it was written as, Void if it was not
  draft,          \* what ApplyPatch has made of `before`
  applied,        \* number of operations applied
  status          \* "diffing", "applying", "written", "done", "failed" or "rejected"

vars == <<before, after, useSchema, ops, document, draft, applied, status>>

\* The token of an item.
Item(i) == ToString(i - 1)

\* Names are told apart by their spelling, indexes by their token.
ASSUME TokensAssumption ==
  /\ \A t \in DOMAIN Spelling : Spelling[t] \in Seq(STRING)
  /\ \A t, u \in DOMAIN Spelling : Spelling[t] = Spelling[u] => t = u
  /\ SortedKeys \in Seq(STRING) /\ Range(SortedKeys) \subseteq DOMAIN Spelling
  /\ \A i, j \in DOMAIN SortedKeys : SortedKeys[i] = SortedKeys[j] => i = j
  /\ MaxIndex \in Nat
  /\ \A i \in 1..MaxIndex + 1 :
       /\ Item(i) \in DOMAIN Spelling \ {"-"}
       /\ \A j \in 1..MaxIndex + 1 : Item(i) = Item(j) => i = j

\* Values as a client can have them, within the bounds: no part of them is Void,
\* no key occurs twice (NoHiddenSlots of Documents).
Diffable[depth \in 0..MaxDepth] ==
  LET scalars == {s \in ScalarValues : /\ ~IsVoid(s)
                                       /\ s.kind = "number" => s.text \in DOMAIN NumberValue}
      objects == {o \in ObjectsOf(Diffable[depth - 1]) :
                    /\ KeysOf(o.fields) \subseteq Range(SortedKeys)
                    /\ \A i, j \in DOMAIN o.fields : o.fields[i].key = o.fields[j].key => i = j}
      arrays  == {a \in ArraysOf(Diffable[depth - 1]) : Len(a.items) <= MaxIndex + 1}
  IN  IF depth = 0 THEN scalars ELSE scalars \cup objects \cup arrays

\* The bounds hold for normal forms too.  The range of a number is checked by its
\* value (validateNumberValueAgainstSchema).
ASSUME DiffAssumption ==
  \A d \in Documents :
    /\ d \in {Void} \cup Diffable[MaxDepth]
    /\ normalizeValueForSchema(d, Root).ok =>
         normalizeValueForSchema(d, Root).value \in Diffable[MaxDepth]

ASSUME NumbersAssumption ==
  \A e \in DOMAIN Schema : Schema[e].kind = "number" =>
    \A s, t \in DOMAIN NumberValue :
      NumberValue[s] = NumberValue[t] => (s \in Schema[e].accepts <=> t \in Schema[e].accepts)

Add(path, value)     == [op |-> "add", path |-> path, value |-> value]
Replace(path, value) == [op |-> "replace", path |-> path, value |-> value]
Delete(path)         == [op |-> "remove", path |-> path]

\* The operations on a part, as operations on the value it is a part of.
Beneath(token, partOps) ==
  [i \in DOMAIN partOps |-> [partOps[i] EXCEPT !.path = joinPointer(<<>>, token) \o @]]

\* Each of these is given the operations between parts.

\* Mutant: fields present on both sides are replaced, changed or not.
objectDiffOpsReplaceAll(left, right, nested) ==
  LET fields == nonVoidObjectFields(right)
      gone   == Those(SortedKeys, {i \in DOMAIN SortedKeys :
                        HasField(left, SortedKeys[i]) /\ ~HasField(right, SortedKeys[i])})
  IN  [i \in DOMAIN fields |-> Add(joinPointer(<<>>, fields[i].key), fields[i].value)]
        \o [i \in DOMAIN gone |-> Delete(joinPointer(<<>>, gone[i]))]

\* Added and changed fields in the order of `after`, then removals by name.
objectDiffOps(left, right, nested) ==
  LET fields == nonVoidObjectFields(right)
      FieldOps(f) ==
        IF HasField(left, f.key)
          THEN Beneath(f.key, nested[GetField(left, f.key)][f.value])
          ELSE <<Add(joinPointer(<<>>, f.key), f.value)>>
      gone == Those(SortedKeys, {i \in DOMAIN SortedKeys :
                      HasField(left, SortedKeys[i]) /\ ~HasField(right, SortedKeys[i])})
  IN  FlattenSeq([i \in DOMAIN fields |-> FieldOps(fields[i])])
        \o [i \in DOMAIN gone |-> Delete(joinPointer(<<>>, gone[i]))]

\* Mutant: the tail is removed from the front, under indexes that shift.
arrayDiffOpsForwards(left, right, nested) ==
  LET l == Len(left)
      r == Len(right)
      shared == IF l < r THEN l ELSE r
  IN  FlattenSeq([i \in 1..shared |-> Beneath(Item(i), nested[left[i]][right[i]])])
        \o [i \in 1..l - shared |-> Delete(joinPointer(<<>>, Item(shared + i)))]
        \o [i \in 1..r - shared |-> Add(joinPointer(<<>>, Item(shared + i)), right[shared + i])]

\* Items present on both sides, then the tail: removed from the end, or added.
arrayDiffOps(left, right, nested) ==
  LET l == Len(left)
      r == Len(right)
      shared == IF l < r THEN l ELSE r
  IN  FlattenSeq([i \in 1..shared |-> Beneath(Item(i), nested[left[i]][right[i]])])
        \o [i \in 1..l - shared |-> Delete(joinPointer(<<>>, Item(l + 1 - i)))]
        \o [i \in 1..r - shared |-> Add(joinPointer(<<>>, Item(shared + i)), right[shared + i])]

\* Mutant: numbers are compared by their text.
appendDiffOpsByText(left, right, nested) ==
  IF left = right THEN <<>>
  ELSE IF IsVoid(left)  THEN <<Add(<<>>, right)>>
  ELSE IF IsVoid(right) THEN <<Delete(<<>>)>>
  ELSE IF left.kind # right.kind THEN <<Replace(<<>>, right)>>
  ELSE CASE left.kind = "object" -> objectDiffOps(left.fields, right.fields, nested)
         [] left.kind = "array"  -> arrayDiffOps(left.items, right.items, nested)
         [] OTHER                -> <<Replace(<<>>, right)>>

appendDiffOps(left, right, nested) ==
  IF valuesEqual(left, right) THEN <<>>
  ELSE IF IsVoid(left)  THEN <<Add(<<>>, right)>>
  ELSE IF IsVoid(right) THEN <<Delete(<<>>)>>
  ELSE IF left.kind # right.kind THEN <<Replace(<<>>, right)>>
  ELSE CASE left.kind = "object" -> objectDiffOps(left.fields, right.fields, nested)
         [] left.kind = "array"  -> arrayDiffOps(left.items, right.items, nested)
         [] OTHER                -> <<Replace(<<>>, right)>>

\* Of values with so many containers around a scalar.
opsBetween[depth \in 0..MaxDepth] ==
  [left \in Trees |-> [right \in Trees |->
     appendDiffOps(left, right, IF depth = 0 THEN <<>> ELSE opsBetween[depth - 1])]]

diffOps(left, right) == opsBetween[MaxDepth][left][right]

-----------------------------------------------------------------------------
\* What Diff compares: the documents, or their normal forms.
Side(value) ==
  IF useSchema THEN normalizeValueForSchema(value, Root) ELSE Normal(value)

Init ==
  /\ before \in Documents /\ after \in Documents /\ useSchema \in BOOLEAN
  /\ ops = <<>> /\ document = Void /\ draft = before /\ applied = 0 /\ status = "diffing"

DiffCall ==
  /\ status = "diffing"
  /\ IF Side(before).ok /\ Side(after).ok
       THEN /\ ops' = diffOps(Side(before).value, Side(after).value)
            /\ status' = "applying"
       ELSE UNCHANGED ops /\ status' = "rejected"
  /\ UNCHANGED <<before, after, useSchema, document, draft, applied>>

\* Patch.ToJSONValue: of the patch there is only the document now.
Write ==
  /\ status = "applying" /\ applied = 0 /\ IsVoid(document)
  /\ document' = PatchDocument(ops)
  /\ ops' = <<>>
  /\ status' = "written"
  /\ UNCHANGED <<before, after, useSchema, draft, applied>>

\* PatchFromJSONValue
Read ==
  /\ status = "written"
  /\ IF IsPatch(document)
       THEN ops' = PatchFromJSON(document) /\ status' = "applying"
       ELSE UNCHANGED ops /\ status' = "failed"
  /\ UNCHANGED <<before, after, useSchema, document, draft, applied>>

\* The operation with its pointer resolved.
Resolved(op) == [op EXCEPT !.path = ParseJSONPointer(@)]

\* ApplyPatch runs the operations on the document as it is.
ApplyOp ==
  /\ status = "applying" /\ applied < Len(ops)
  /\ LET new == SpecOp(draft, Resolved(ops[applied + 1]))
     IN  IF new = Invalid THEN status' = "failed" /\ draft' = Void
                          ELSE status' = status   /\ draft' = new
  /\ applied' = applied + 1
  /\ UNCHANGED <<before, after, useSchema, ops, document>>

Finish ==
  /\ status = "applying" /\ applied = Len(ops)
  /\ status' = (IF Side(draft).ok THEN "done" ELSE "failed")
  /\ draft' = Side(draft).value
  /\ UNCHANGED <<before, after, useSchema, ops, document, applied>>

Next == DiffCall \/ Write \/ Read \/ ApplyOp \/ Finish

Spec == Init /\ [][Next]_vars

-----------------------------------------------------------------------------
(* Correctness.                                                            *)

\* The documents the patch leads from: when there is a schema, only documents
\* that are already in normal form (DiffTransforms says what the comment of
\* Diff claims of all documents).
Normalized(value) == Side(value) = Normal(value)

\* Every operation of the patch finds its target, through its pointer and
\* whether the patch was written down in between or not, and in the end the
\* document equals `after`.
RoundTrip ==
  Normalized(before) =>
    /\ status # "failed"
    /\ status = "done" => valuesEqual(draft, Side(after).value)

\* patch_diff.go:11: documents that are equal up to number spelling, field
\* order and defaults, and only they, have an empty patch.
EmptyIffEquivalent ==
  status = "applying" =>
    (ops = <<>> <=> valuesEqual(Side(before).value, Side(after).value))

\* No operation is there for nothing or undone by a later one: what is left of
\* the patch is, at each moment, the patch from the draft to `after`.
RemainderIsDiff ==
  status = "applying" /\ Normalized(before) =>
    SubSeq(ops, applied + 1, Len(ops)) = diffOps(draft, Side(after).value)

\* patch_diff.go:8: "Diff produces an RFC6902 patch that transforms before
\* into after."
DiffTransforms ==
  /\ status # "failed"
  /\ status = "done" => valuesEqual(draft, Side(after).value)
=============================================================================
