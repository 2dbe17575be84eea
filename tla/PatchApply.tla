----------------------------- MODULE PatchApply -----------------------------
(***************************************************************************)
(* ApplyPatch on the node heap (patch.go, patch_ops.go, patch_pointer.go,  *)
(* patch_apply.go): the document is cloned, each operation resolves its    *)
(* pointer in the clone and edits the nodes in place, and at the end the   *)
(* clone is normalised when there is a schema.  A failure drops it.        *)
(*                                                                         *)
(* The operations of the patch are revealed one by one.  Their values are  *)
(* scalars, or the container the patch built from the caller's argument:   *)
(* the document, the argument and the patch stay with the caller, who may  *)
(* mutate or reuse them at any time.                                       *)
(***************************************************************************)
EXTENDS NodeHeap, PatchTokens

CONSTANTS
  Documents,   \* the trees of the caller's documents
  Argument,    \* the tree of the container it builds operations from
  Scalars,     \* the scalars it builds operations from
  Pointers,    \* parsed JSON pointers: sequences of tokens
  MaxOps       \* bound: operations in a patch

ASSUME PatchAssumption ==
  /\ Documents \subseteq Trees /\ Argument \in Trees /\ Scalars \subseteq ScalarValues
  /\ Pointers \subseteq Seq(STRING) /\ MaxIndex \in Nat /\ MaxOps \in Nat

VARIABLES
  heap,        \* [address -> node]
  doc,         \* the caller's document
  argument,    \* the caller's container
  patchValue,  \* what the operations of the patch keep of it
  cfg,         \* patchConfig: is there a schema
  working,     \* the clone, and in the end the result
  status,      \* "applying", "done" or "failed"
  applied      \* number of operations applied

vars == <<heap, doc, argument, patchValue, cfg, working, status, applied>>

-----------------------------------------------------------------------------
(* resolvePointerTarget: the node that holds the target, the place in it   *)
(* (a field name, or a position counted from 0), and what is there.        *)

NoTarget == [ok |-> FALSE]
Target(parent, place, value) ==
  [ok |-> TRUE, parent |-> parent, place |-> place, value |-> value]
Exists(target) == ~IsVoid(target.value)

\* What stands in a node at a token, Void if nothing does.
Child(h, current, segment) ==
  IF IsObject(h, current) THEN GetField(h[current.ref].fields, segment)
  ELSE IF ~IsArray(h, current) THEN Void
  ELSE LET items == h[current.ref].items
           index == parseArrayIndex(segment)
       IN  IF index + 1 \in DOMAIN items THEN items[index + 1] ELSE Void

TargetIn(h, current, segment, allowAppend) ==
  IF IsObject(h, current)
    THEN Target(current.ref, segment, GetField(h[current.ref].fields, segment))
  ELSE IF ~IsArray(h, current) THEN NoTarget
  ELSE LET items == h[current.ref].items
           index == IF segment = "-" THEN Len(items) ELSE parseArrayIndex(segment)
       IN  IF index + 1 \in DOMAIN items THEN Target(current.ref, index, items[index + 1])
           ELSE IF index = Len(items) /\ allowAppend THEN Target(current.ref, index, Void)
           ELSE NoTarget

\* The loop over the segments; nothing stands below what is not there.
Walk(h, slot, segments) ==
  LET current[n \in Nat] ==
        IF n = 0 THEN slot ELSE Child(h, current[n - 1], segments[n])
  IN  current

resolvePointerTarget(h, slot, segments, allowAppend) ==
  LET last == Len(segments)
  IN  IF last = 0 THEN NoTarget
      ELSE TargetIn(h, Walk(h, slot, segments)[last - 1], segments[last], allowAppend)

-----------------------------------------------------------------------------
(* The operations.  Each takes a heap and a document slot and returns what *)
(* becomes of them; `removed` is what a move goes on with.                 *)

Broken           == [ok |-> FALSE]
Result(h, slot)  == [ok |-> TRUE, heap |-> h, slot |-> slot]
Removal(h, slot, removed) == [ok |-> TRUE, heap |-> h, slot |-> slot, removed |-> removed]

EditFields(h, r, fields) == [h EXCEPT ![r].fields = fields]
EditItems(h, r, items)   == [h EXCEPT ![r].items = items]

\* The value `copy.slot`, placed in the heap `copy.heap`, goes to the target.
AddAtTarget(copy, target, slot) ==
  LET node == copy.heap[target.parent]
  IN  IF node.kind = "array"
        THEN Result(EditItems(copy.heap, target.parent,
                              InsertAt(node.items, target.place + 1, copy.slot)), slot)
        ELSE Result(EditFields(copy.heap, target.parent,
                               setField(node.fields, target.place, copy.slot)), slot)

AddResolved(copy, target, slot, path) ==
  IF path = <<>> THEN Result(copy.heap, copy.slot)
  ELSE IF target.ok THEN AddAtTarget(copy, target, slot) ELSE Broken

\* Mutant: the value itself goes into the draft.
applyAddWithoutClone(h, slot, path, value) ==
  IF IsVoid(value) THEN Broken
  ELSE AddResolved([heap |-> h, slot |-> value],
                   resolvePointerTarget(h, slot, path, TRUE), slot, path)

applyAdd(h, slot, path, value) ==
  IF IsVoid(value) THEN Broken
  ELSE AddResolved(cloneJSONValue(h, value),
                   resolvePointerTarget(h, slot, path, TRUE), slot, path)

\* An array hands over the removed item itself, an object a clone of the field.
RemoveItem(h, slot, target) ==
  Removal(EditItems(h, target.parent, RemoveAt(h[target.parent].items, target.place + 1)),
          slot, target.value)

RemoveField(copy, slot, target) ==
  Removal(EditFields(copy.heap, target.parent,
                     removeField(copy.heap[target.parent].fields, target.place)),
          slot, copy.slot)

RemoveResolved(h, slot, target) ==
  IF ~target.ok \/ ~Exists(target) THEN Broken
  ELSE IF h[target.parent].kind = "array"
    THEN RemoveItem(h, slot, target)
    ELSE RemoveField(cloneJSONValue(h, target.value), slot, target)

RemoveRoot(copy) == Removal(copy.heap, Void, copy.slot)

applyRemove(h, slot, path) ==
  IF path = <<>>
    THEN RemoveRoot(cloneJSONValue(h, slot))
    ELSE RemoveResolved(h, slot, resolvePointerTarget(h, slot, path, FALSE))

PutAtTarget(copy, target, slot) ==
  LET node == copy.heap[target.parent]
  IN  IF node.kind = "array"
        THEN Result(EditItems(copy.heap, target.parent,
                              [node.items EXCEPT ![target.place + 1] = copy.slot]), slot)
        ELSE Result(EditFields(copy.heap, target.parent,
                               setField(node.fields, target.place, copy.slot)), slot)

ReplaceResolved(copy, target, slot, path) ==
  IF path = <<>> THEN Result(copy.heap, copy.slot)
  ELSE IF target.ok /\ Exists(target) THEN PutAtTarget(copy, target, slot)
  ELSE Broken

applyReplace(h, slot, path, value) ==
  IF IsVoid(value) THEN Broken
  ELSE ReplaceResolved(cloneJSONValue(h, value),
                       resolvePointerTarget(h, slot, path, FALSE), slot, path)

\* What stands at a location, Void if nothing does.
Found(target) == IF target.ok THEN target.value ELSE Void
Lookup(h, slot, path) ==
  IF path = <<>> THEN slot ELSE Found(resolvePointerTarget(h, slot, path, FALSE))

SameValue(h, there, value) == valuesEqual(View(h, there), View(h, value))

applyTest(h, slot, path, value) ==
  LET there == Lookup(h, slot, path)
  IN  IF ~IsVoid(value) /\ (path = <<>> \/ ~IsVoid(there)) /\ SameValue(h, there, value)
        THEN Result(h, slot) ELSE Broken

\* The value copied is cloned, and applyAdd clones it once more.
AddCopy(copy, slot, path) == applyAdd(copy.heap, slot, path, copy.slot)

applyCopy(h, slot, from, path) ==
  AddCopy(cloneJSONValue(h, Lookup(h, slot, from)), slot, path)

RemoveOriginal(addition, from) ==
  IF addition.ok THEN applyRemove(addition.heap, addition.slot, from) ELSE Broken

\* Mutant: adds before it removes, when the indexes have already shifted.
applyMoveAddsFirst(h, slot, from, path) ==
  IF IsStrictPrefix(from, path) THEN Broken
  ELSE RemoveOriginal(applyCopy(h, slot, from, path), from)

AddRemoved(removal, path) ==
  IF removal.ok THEN applyAdd(removal.heap, removal.slot, path, removal.removed)
                ELSE Broken

applyMove(h, slot, from, path) ==
  IF IsStrictPrefix(from, path) THEN Broken
  ELSE AddRemoved(applyRemove(h, slot, from), path)

applyPatchOp(h, slot, op) ==
  CASE op.op = "add"     -> applyAdd(h, slot, op.path, op.value)
    [] op.op = "remove"  -> applyRemove(h, slot, op.path)
    [] op.op = "replace" -> applyReplace(h, slot, op.path, op.value)
    [] op.op = "test"    -> applyTest(h, slot, op.path, op.value)
    [] op.op = "move"    -> applyMove(h, slot, op.from, op.path)
    [] op.op = "copy"    -> applyCopy(h, slot, op.from, op.path)

-----------------------------------------------------------------------------
Caller == {doc, argument, patchValue}

\* Mutant: works on a clone that keeps the schema of the document.
BeginKeepsSchema(h, document, attached, supplied) ==
  LET entry == IF attached THEN Root ELSE NoEntry
      d == Store(h, document, attached, entry)
      a == Store(d.heap, Argument, FALSE, NoEntry)
      p == cloneJSONValue(a.heap, a.slot)
      w == Store(p.heap, document, attached, entry)
  IN  /\ heap = w.heap /\ doc = d.slot /\ argument = a.slot
      /\ patchValue = p.slot /\ working = w.slot
      /\ cfg = [hasSchema |-> supplied \/ attached]

\* Mutant: works on the document of the caller.
BeginOnOriginal(h, document, attached, supplied) ==
  LET d == Store(h, document, attached, IF attached THEN Root ELSE NoEntry)
      a == Store(d.heap, Argument, FALSE, NoEntry)
      p == cloneJSONValue(a.heap, a.slot)
  IN  /\ heap = p.heap /\ doc = d.slot /\ argument = a.slot
      /\ patchValue = p.slot /\ working = d.slot
      /\ cfg = [hasSchema |-> supplied \/ attached]

\* ApplyPatch begins with a clone of the document that carries no schema.
Begin(h, document, attached, supplied) ==
  LET d == Store(h, document, attached, IF attached THEN Root ELSE NoEntry)
      a == Store(d.heap, Argument, FALSE, NoEntry)
      p == cloneJSONValue(a.heap, a.slot)     \* newValueOp and NewPatch
      w == cloneJSONValue(p.heap, d.slot)
  IN  /\ heap = w.heap /\ doc = d.slot /\ argument = a.slot
      /\ patchValue = p.slot /\ working = w.slot
      /\ cfg = [hasSchema |-> supplied \/ attached]

\* A document with an attached schema is one ApplySchema returned.
Init ==
  /\ \E document \in Documents, attached, supplied \in BOOLEAN :
       LET norm == normalizeValueForSchema(document, Root)
       IN  /\ attached => norm.ok /\ norm.value \in Trees
           /\ Begin(EmptyHeap, IF attached THEN norm.value ELSE document,
                    attached, supplied)
  /\ status = "applying" /\ applied = 0

\* Nodes that neither the caller nor the patch reaches are collected.
Keep(h, slot) ==
  /\ working' = slot
  /\ heap' = Collect(h, Caller \cup {slot})
  /\ Cardinality(DOMAIN heap') <= MaxNodes
  /\ UNCHANGED <<doc, argument, patchValue, cfg>>

\* Mutant: a failure returns the draft as far as it came.
ApplyReturnsPartial(op) ==
  /\ status = "applying" /\ applied < MaxOps
  /\ LET new == applyPatchOp(heap, working, op)
     IN  IF new.ok THEN status' = status   /\ Keep(new.heap, new.slot)
                   ELSE status' = "failed" /\ Keep(heap, working)
  /\ applied' = applied + 1

Outcome(new) == IF new.ok THEN status' = status   /\ Keep(new.heap, new.slot)
                          ELSE status' = "failed" /\ Keep(heap, Void)

Apply(op) ==
  /\ status = "applying" /\ applied < MaxOps
  /\ Outcome(applyPatchOp(heap, working, op))
  /\ applied' = applied + 1

Finish ==
  /\ status = "applying"
  /\ LET norm == normalizeValueForSchema(View(heap, working), Root)
         new  == Store(heap, norm.value, TRUE, Root)
     IN  IF ~cfg.hasSchema THEN status' = "done" /\ Keep(heap, working)
         ELSE IF ~norm.ok THEN status' = "failed" /\ Keep(heap, Void)
         ELSE norm.value \in Trees /\ status' = "done" /\ Keep(new.heap, new.slot)
  /\ UNCHANGED applied

\* The operations of a patch whose values are `values`.
Ops(values) ==
  [op : {"remove"}, path : Pointers]
  \cup [op : {"add", "replace", "test"}, path : Pointers, value : values]
  \cup [op : {"move", "copy"}, from : Pointers, path : Pointers]

Next == Finish \/ \E op \in Ops(Scalars \cup {patchValue}) : Apply(op)

Spec == Init /\ [][Next]_vars

-----------------------------------------------------------------------------
(* Correctness.                                                            *)

TypeOK ==
  /\ status \in {"applying", "done", "failed"} /\ applied \in 0..MaxOps
  /\ cfg.hasSchema \in BOOLEAN
  /\ \A slot \in Caller : IsVoid(slot) \/ ~IsRef(slot) \/ slot.ref \in DOMAIN heap
  /\ DOMAIN heap = Reach(heap, Caller \cup {working})
  /\ status = "failed" => IsVoid(working)

\* The draft shares no node with the document, the argument or the patch, nor
\* do these with one another: whatever the caller does to one of them later,
\* or however often it applies the patch, the others stay as they are.
Isolation ==
  LET owners == <<{doc}, {argument}, {patchValue}, {working}>>
  IN  \A i, j \in DOMAIN owners :
        i # j => Reach(heap, owners[i]) \cap Reach(heap, owners[j]) = {}

\* No node stands in two places of the draft, so that an operation on one
\* location has no effect at another, after any mixture of moves and copies.
DraftIsTree ==
  LET nodes == Reach(heap, {working})
      Places(r) == UNION {{<<p, i>> : i \in {j \in DOMAIN Parts(heap[p]) :
                                               Parts(heap[p])[j] = Ref(r)}} : p \in nodes}
  IN  \A r \in nodes : Cardinality(Places(r)) = IF working = Ref(r) THEN 0 ELSE 1

\* patch.md: "RFC6902 operations run first with raw document semantics": the
\* draft carries no schema, not even one a value brought along, and the result
\* is governed from its root by the schema and already in normal form.
DraftHasNoSchema ==
  status = "applying" =>
    \A r \in Reach(heap, {working}) : ~heap[r].schema /\ heap[r].entry = NoEntry

ResultGoverned ==
  status = "done" /\ cfg.hasSchema =>
    /\ IsRef(working) => heap[working.ref].entry = Root
    /\ \A r \in Reach(heap, {working}) : heap[r].schema

ResultNormal ==
  status = "done" /\ cfg.hasSchema =>
    normalizeValueForSchema(View(heap, working), Root) = Normal(View(heap, working))

SchemaAtTheEnd == DraftHasNoSchema /\ ResultGoverned /\ ResultNormal

\* "The original document is never mutated" (patch_apply.go:4), nor is the
\* patch: no step writes to a node that the caller or the patch can reach.
CallerUntouched ==
  [][\A r \in Reach(heap, Caller) : heap'[r] = heap[r]]_vars
=============================================================================
