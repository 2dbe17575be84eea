# ojson: TLA+ verification

ojson is a Go library for JSON documents whose objects keep the order of their
fields. A document can be governed by a compiled schema, which normalises it,
checks every mutation and keeps the fields in the schema's order; documents are
compared and changed by RFC 6902 patches; string formats are registered in a
registry that goroutines share; objects are read into Go structs and made from
them, and schemas can be built by calls or derived from struct types. These
modules model all of this, TLC checks them on small instances, and TLAPS proves
the concurrent registry, the filling of structs, the document API on shared
nodes, schema application, patch application and diffs for every instance.

## Inventory

| Part | State | Operations | What makes it correct |
|---|---|---|---|
| Values (`value.go`, `object.go`, `array.go`) | a heap of nodes; a `JSONValue` is a pointer, so values share nodes | constructors, `Get`/`At` (hand out the child itself), `Set`, `Append`, `Remove`, `Compress`, `Clone`, `WithoutSchema` | a governed document stays valid, governed and ordered under every interleaving of calls on shared nodes; no copy where sharing is meant and no sharing where a copy is meant |
| Schema application (`schema_apply.go`) | none; attaches schema pointers to new nodes | `ApplySchema`, `Validate`, `normalize*` | normal forms are fixed points; defaults are inserted; nothing else changes |
| Schema compiler (`schema.go`) | the compiled graph of entries, immutable | `CompileSchema*` | what it accepts can be used: its check of defaults agrees with normalisation |
| Format registry (`string_format.go`) | a map under an `RWMutex`; a private copy per compilation | `Register`, `snapshot`, `lookup` | every call is atomic, a name never changes its meaning, every call returns |
| Patches (`patch*.go`) | the clone being edited, the patch's own values | `NewPatch`, `ApplyPatch`, `Diff` | all or nothing; the caller's document and the patch are untouched; RFC 6902; a diff leads from one document to the other |
| Pointers and patch text (`patch_pointer.go`, `patch_ops.go`) | none | `ParseJSONPointer`, `joinPointer`, `Patch.ToJSONValue`, `PatchFromJSONValue` | a patch that is written down and read back is the same patch |
| Numbers (`number.go`) | none | exact rational value, conversion to an integer type | no wrap-around, nothing lost that fits |
| Native conversion (`object_native.go`, `patch_typed.go`) | the struct being filled, the memory it refers to, the activations of the call | `ToStructTry`, `NewObjectFromStruct`, `ApplyPatchToStruct`, `DiffStructs` | an error leaves what is after it untouched; what the document does not mention stays; memory that somebody else sees is not written; typed patches lead from one struct to the other |
| Schema builders (`schema_builder.go`) | the entries under construction, also while callbacks run | `NewSchemaObjectBuilder`, `StringField` ... `ArrayField`, `StringItems` ... `ArrayItems`, options, `Build` | what is built is what was asked for, whatever the order and the nesting of calls; a refused option is not forgotten |
| Structs and schemas (`struct_schema.go`) | none; a generator's names, types and notes while it runs | `NewSchemaFromStruct`, `NewStructSuggestionFromSchema`, `CompareStructToSchema` | the three directions agree with each other |
| Reader, writer, errors, `ojson-paths` | none that lives on | text, files, code generation | - |

Interaction: the mutators of a value call schema application for governed
slots; `ApplyPatch` and `Diff` clone values, edit them raw and apply the schema
at the end; schema application compares with entries the compiler built; the
compiler takes its formats from a snapshot of the registry. Builders and derived
schemas are texts that the compiler compiles. Typed patches make objects from
structs, diff or patch them as documents and fill a new struct from the result.

Hard behaviours: aliasing of nodes between documents and handles, and of Go
memory between copies of a struct; operations that fail halfway; index shifts
inside a patch; characters that two conversions in a row must not both touch;
pieces of code that decide the same question apart from each other (defaults,
struct types); integer conversions in several steps; callbacks that use builders
that are not finished; and goroutines that share a registry. There are no
messages, no persistence and no timeouts. `PROJECT.json` lists the hazards at
their lines.

## Modules

```
JSONValues         the kinds of values, ordered fields
├ JSONTrees        values as trees, equality
│ └ SchemaRules    compiled entries, normalisation, reordering
│   ├ NodeHeap     *jsonNode: shared nodes, clone, attachSchema, garbage
│   │ ├ NodeHeapProofs  lemmas about both
│   │ ├ HeapViews  the heap up to names of nodes, for TLC's views
│   │ ├ Documents  clients that call the document API
│   │ │ └ DocumentsProofs  (over NodeHeapProofs)
│   │ └ PatchApply ApplyPatch on the heap
│   │   └ PatchRefinement  with PatchTrees           ⟶ implements PatchSpec
│   │     └ PatchApplyProofs ─ PatchRefinementProofs (over NodeHeapProofs)
│   └ PatchTrees   RFC 6902 on immutable trees
│     └ Diff       Diff and the life of its patch, over PatchTexts
│       └ DiffProofs  (over NodeHeapProofs)
├ PatchSpec        what applying a patch promises
├ PatchTexts       pointers as characters, patch documents
└ StructFill       ToStructTry step by step, over Numbers (integer conversion)
  ├ StructFillProofs
  └ StructJSON     structs as objects, typed patches, over PatchTrees and Diff
PatchTokens        the tokens that name a place in an array: PatchApply, PatchTrees
SchemaVocabulary   the fields of a schema text, the kinds
BuilderCalls       builders, options, callbacks
└ BuilderCallsProofs
SchemaEntries      CompileSchema*: from a schema text to entries, over SchemaVocabulary
├ SchemaCompiler   compiled schemas and the documents read with them
├ SchemaBuilder    Build, and what was asked for, over BuilderCalls
└ StructSchemas    derived schemas, suggestions, comparison
Formats            data of registries and compilations
├ RegistrySpec     every call is one step
└ FormatRegistry   locks, map accesses, copies       ⟶ implements RegistrySpec
  └ FormatRegistryProofs
MC*                instances for TLC
```

How they correspond to the code:

* A `*schemaEntry` pointer is an entry id and `Schema` its record. The enum,
  the lengths, the range and the format of an entry are one set, `accepts`, of
  the texts it admits; SchemaEntries computes that set from the schema text.
* In NodeHeap objects and arrays are nodes. A scalar node is never changed after
  it is built, so a scalar stands in the slot that holds it. A node has the two
  fields `schema` (attached or not: one schema per run) and `entry`. Nodes out of
  reach are collected at the end of each call, as Go would, which keeps runs finite.
* In Documents an action is a call that changes state; a call that returns an
  error changes nothing and is not a step. `Set` and `SetTry`, `Append`,
  `Prepend` and `InsertAtTry`, and the silent and `OrDefault` forms, change the
  same state and share an action; `Set` with Void is `SetVoid`.
* In PatchApply each operation of the patch is a step, `Begin` is the call with
  its options and its clone, `Finish` the final `ApplySchema`. The operations
  are picked one by one, so a patch is any sequence of them. A value in the patch
  is a scalar or the clone `newValueOp` made of the caller's container.
  Pointers are parsed here: sequences of tokens, which `Walk` follows from node
  to node.
* In PatchTexts a pointer is the sequence of its characters, which is what
  escaping and splitting work on; `Spelling` gives the characters of a name.
  `IsPatch` is what `PatchFromJSONValue` accepts.
* In Diff the operations carry pointer texts. `Write` turns the patch into a
  patch document and `Read` reads that back, or neither happens. `ApplyOp`
  resolves the pointer and applies the operation by the tree operations of
  PatchTrees, which are what the heap operations do (run `patch`, `PatchIsRFC6902`).
* In StructFill `mem` maps addresses (an allocated cell and a path in it) to Go
  values, so that copies of a struct share what its pointers and slices refer to.
  `stack` holds the activations of `assignJSONToValue` and of its loops over
  fields and items. `Reject` is the error return through all of them;
  `AssignSlice`, `NextItem` and `SetSlice` build the new slice apart, as the code
  does. `FillNew` is `ApplyPatchToStruct`: a zero struct is filled from the
  patched document; where the patch does not apply (`Invalid`) the call fails and
  makes nothing. `Copy` and `TakeResult` are assignments of the caller.
* In Numbers a text is its digits, fraction and exponent; a Go integer type is
  its range, and a conversion between types keeps the low bits (`Truncate`). So
  it is the checks before a conversion that have to keep it exact.
* StructJSON has the way back, `NewObjectFromStruct`, and with Diff and
  PatchTrees the typed patches. It says what filling means for a whole document.
* In BuilderCalls an entry is made at once and joins its parent when its
  callback returns; `running` are the callbacks. In a callback every builder can
  be called, the outer ones and those of earlier callbacks too. `asked` is a
  history variable: what the calls asked for. SchemaBuilder adds `Build`, and
  `held`, the value that Default and Custom keep by reference.
* In StructSchemas the functions of `struct_schema.go` are operators over Go
  types (records) and schema entries; findings and notes are pairs of a category
  and a path. `Exported` and `Singular` are tables of the names an instance uses.
  The state is what somebody keeps who takes one from the other: a program, a
  compiled schema, a suggestion, a report. `Adopt` takes the suggested types for
  those of the program, provided that Go compiles them. A format of the caller's
  may stand for a Go type (`FormatGoTypes`); the types of other packages that
  such a format names are `ForeignTypes`.
* In FormatRegistry `pc` follows `Register` and `CompileSchemaBytes` between the
  points where goroutines can interleave: argument checks, the two halves of
  `RWMutex.Lock` (the inner mutex, then waiting for the readers), the store, the
  unlock; `RLock`, each step of the iteration over the map, `RUnlock`, then each
  schema entry resolved in the private copy. A writer's unlock admits all the
  readers it had turned away, as Go's does. `RWMutex` itself is modelled from
  its documented behaviour.

Definitions whose comment begins with "Mutant:" are bugs somebody could
have written; they are not part of any specification and show that the property
named with them in `PROJECT.json` can fail.

## Runs

| Run | Question | Instance and why it is enough |
|---|---|---|
| `documents` | do the local checks of each mutator add up on shared nodes? | 2 variables, 3 live nodes of which 2 ungoverned, 2 keys that occur at two levels (known in one, one of them unknown in the other), a required field, a default, a governed array: nesting, sharing, governed and ungoverned slots and values moved between documents all occur. About 23 000 states; the view identifies states up to names of nodes and of the two variables |
| `documents_written` | is a governed document always in normal form? No | as above |
| `patch` | is `ApplyPatch` RFC 6902, isolated and all-or-nothing? | 4 documents, 8 pointers (into objects, arrays, past the end, `-`, a numeric field name, below a scalar), patches of 2 operations of all 6 kinds: the second meets what the first left. With and without an attached or supplied schema |
| `diff` | does the patch lead from one document to the other, also when it was written down in between? | all pairs of some fifty documents: growing and shrinking arrays, nested changes, changed kinds, two spellings of one number, reordered fields, defaults, no document (Void), and the names `~1` and `/`, whose escapes look like each other |
| `diff_schema` | does it also when `before` is not normalised? No | as above |
| `registry` | are calls atomic? | 2 goroutines, 2 custom names, 1 built-in, 2 validators, texts of two entries: a registration can fall between the two lookups of a compilation, and two can race for a name |
| `registry_live` | does every call return? | 3 goroutines, so that two can pass the lock back and forth while a third waits |
| `schema` | do the compiler's and the reader's validators agree? | scalar entries with each constraint at and past its boundary, records with a child in each combination of flags and defaults, records and arrays of records with good, bad and incomplete defaults; 50 documents, each read and read again |
| `schema_defaults` | can a default always be inserted? No | as above |
| `struct_fill` | does filling a struct do what the document says, stop at the first field that does not fit, and leave alone the memory others see? do typed patches lead from one struct to the other? | two variables of a struct type with every kind of field, 2 calls with copies between them: the second call meets pointers and slices the first one made and a copy shares. Documents that misfit in the first field, in a later one, in the second element of a slice; integers at the edges of 3 bits within 4, in several spellings. Given patches that apply and ones that do not, and the diffs between the variables, in one of which `any` holds an array longer than any document brings. About 260 000 states |
| `schema_builder` | does Build return what the calls asked for, and fail when it must? | up to 4 entries: an object in an object with a callback in a callback, an array in an array, items asked for twice; options given twice, refused ones, malformed text, a value changed after it was given. About 165 000 states |
| `struct_schema` | do derived schemas, suggested types and the comparison agree? | programs with nested, recursive, skipped, optional and formatted fields, schemas with every kind of entry, required fields, defaults, repeated names, formats that stand for a Go type (`time.Time`, a pointer), with and without the option that maps it; every chain of calls, in which a suggestion becomes the program a schema is derived from. About 13 000 states |

`patch`, `diff` and `diff_schema` end when the patch is applied; in `struct_fill`
and `schema_builder` the caller stops after `MaxCalls` calls or `MaxEntries`
entries; in `struct_schema` a program may have nothing left to ask. Their cfgs turn
the deadlock check off; the others check deadlock. In `registry` and `registry_live`
this covers lock-ups: a goroutine can always call, or some goroutine can move.

The bounds: `MaxNodes` (nodes alive between calls), `MaxLoose` (those of them
that no entry governs), `MaxDepth` (containers around a scalar: a normal form that
would nest deeper is no step; `BoundsAssumption` keeps `MaxNodes` below it, so
that it never bites between calls), `MaxItems` (items of an array), `MaxIndex`
(indexes a token can spell), `MaxOps` (operations of a patch), `MaxCalls` (calls
that fill a struct), `MaxEntries` (entries builders make). They stand in guards,
`MaxIndex` in the meaning of a token and `MaxDepth` also in the set of trees.

Assumed of the client: it never stores a value inside itself (`Acyclic`). The
code does not prevent it, and every walk of such a value would not end.

### Fairness

Only `registry_live` assumes any. `WF_vars(Step(c))`: a goroutine that can run is
run in the end (Go's scheduler). `SF_vars(Announce(c))`: a goroutine that finds
the inner mutex of the `RWMutex` free again and again gets it; `sync.Mutex` in
starvation mode hands the mutex to a waiter after a millisecond. Nobody has to
call (`Call` is not fair). Readers need no strong fairness: the writer that
turned one away admits it on unlocking.

### What the violations show

* With a schema, `Diff` compares normalised documents, but `ApplyPatch` runs the
  operations on the document as it is. For a `before` that is not normalised the
  patch can fail (`DiffTransforms`). With a normalised `before`, or with no schema,
  `RoundTrip` holds.
* Removing a field with a default leaves a valid document that is not in normal
  form (`WrittenAsNormalized`); `RevalidationOnlyAdds` says that reading it again
  only adds fields.
* A default object that lacks a required field compiles, and every document that
  relies on it is refused (`DefaultsAreInserted`). `DefaultsAccepted` shows
  that this is the only way in which a compiled default can fail.

`PROJECT.json` lists eleven more disagreements of the code with its comments and
documents that no run is needed to see. The models follow the code: maps and
`json.Number` fields refuse every value, a suggestion may use a name twice, and so on.
One of them limits a property: the type that stands for a format is suggested with
no note, and where it is a struct (`time.Time`) the comparison and the derived schema
take it for an object, unless the option that maps it to a string is given.
`SuggestionIsFaithful` speaks of the calls that give it (`Understands`).

## Proofs

FormatRegistryProofs proves for any sets of goroutines, names, validators and
texts (assuming `FormatsAssumption`: custom and built-in names are disjoint, the
sentinels are no validators; `ClientsAssumption`: `Nobody` is no goroutine):

* `TypeCorrect`: `Spec => []TypeOK`
* `MapGuarded`: `Spec => []MapIsGuarded`
* `CompiledSchemasAgree`: `Spec => []SchemasAgree`
* `NamesAreWrittenOnce`: `Spec => RegisteredForGood`
* `RegistryIsAtomic`: `Spec => ImplementsAtomicRegistry`

None of these is inductive alone. The inductive invariant is
`TypeInv /\ LockInv /\ DataInv`.

* `LockInv` ties the lock to the program counters: who is between `Announce` and
  `Unlock` is `writer`, who copies is in `readers`, who waits is in `waiting`
  and only while there is a writer, and nobody reads once a writer has drained.
  `MapIsGuarded` follows.
* `DataInv` says what each call knows: a snapshot is part of the registry and,
  once copied, stays part of it because names are written once
  (`SnapshotInv`); the entries resolved so far are those the snapshot gives for
  the prefix of the text (`EntriesInv`); a returned schema agrees with the
  registry (`AnswerInv`).

The refinement proof maps each step to a step of RegistrySpec or to a stutter.
The step at which a compilation is decided is `RUnlock`, when its snapshot is
complete (`Configure`, when no registry is given); from then on the answer is
`CompileWith(snapshot, text)`, which the remaining entry-by-entry steps must
reach: this is where `EntriesInv` is needed. A `Register` is decided by `Store`.

StructFillProofs proves, for any Go types, documents, prepared memories, patches
and numbers of variables and calls (assuming `StructFillAssumption`: the struct
type has finitely many fields, and the caller's structs begin without pointers and
slices into memory no call allocated; `WidestTypes`: the two widest integer types
are ranges that overlap as Go's do):

* `TypeCorrect`: `Spec => []TypeOK`
* `MissingFieldsAreKept`: `Spec => []OnlyMentionedFields`
* `InputIsKept`: `Spec => []InputIsLeftAlone`
* `FilledSlicesStay`: `Spec => SlicesAreFrozen`
* `FieldsHoldExactIntegers`: a number that is an integer in the field's range is
  stored as it is, and every other is refused. The truncations on the way
  (to 64 bits, to the field's width) never lose anything.

The three invariants do not imply themselves: nothing in them says where the
activations on the stack will still write. `IInv` adds that. `Activation`: each
of them writes to a place that is no element of a slice in use, lies in memory
of this call when the call fills a new struct, and in the caller's structs is
part of the target that the document mentions. `Stacked`: below the loop over
an array's items no activation, nor the loop's own `SetSlice`, writes to the
elements; so when `SetSlice` makes them the elements of a slice in use, nobody
is left who could write to them, which is what `FilledSlicesStay` needs. The
parts take memory, cells and call as arguments, so that one lemma each says what
allocation, a store, a push and a pop do to them.

NodeHeapProofs proves what `setField` and `removeField` do to the fields of any
object in which no key occurs twice (`NothingHidden` below: none does):

* `SetFieldKeepsTheOthers`: a field is overwritten where it stands or added at the
  end; the others keep their place and value, and no key comes to occur twice.
* `RemoveFieldKeepsTheOthers`: exactly one field goes; the others keep their
  value and their order.

These hold without induction because, the keys being distinct, the first field
with a key is the only one.

The rest of NodeHeapProofs is about the operators that Documents, PatchApply and
Diff share: what `Reach` and `Collect` keep, what `Store` and
`cloneJSONValue` add to a heap, what `View` shows, what normalisation returns. The
recursive functions among them come with a lemma that unfolds one step, shown by
joining finite attempts; from there on it is induction on a number (depth, levels
of entries), never on trees. The results a reader may want by themselves:

* `StoredView`: a tree stored as nodes, in whatever heap, is seen as the tree it
  was. `NeatView`: nodes in no cycle, at most `MaxDepth` of them, are shown whole.
* `NormalInOrder`: a normal form has its known fields first, in the order of the
  schema, all the way down. `NormalIsStable`: normalising it again changes nothing.
  `NormalNeat`: no part of it is Void and no key occurs twice, if that was so before.
* `AcceptedIs`: what the schema asks of a value as a whole is what it asks of each
  container in it.

DocumentsProofs proves for any number of variables, any bounds, schema and values:

* `DocumentTypes`: `Spec => []TypeOK`
* `GovernedDown`: `Spec => []GovernedThroughout`
* `OrderKept`: `Spec => []CanonicalOrder`
* `NothingHidden`: `Spec => []NoHiddenSlots`
* `GovernedIsValid`: `OptionalDefaults => (Spec => []AlwaysValid)`
* `ReadAgainOnlyAdds`: `OptionalDefaults => (Spec => []RevalidationOnlyAdds)`
* `CopiesStored`: `Spec => StoresCopies`
* `SchemaKept`: `Spec => SchemaIsForLife`

`DInv` is inductive: the heap is well-formed (`HeapOK`), every object has its fields
in the order of its entry (`OrderedNode`), every child carries the entry its place
calls for (`GovernedNode`), and the heap is what the variables reach. The parts need
one another. A clone attaches the entry of the value it copies to nodes made by
`attachSchema`, whose entries follow from the schema alone; that these are the
entries, and the order the copy has the right one, is known only because the
original was in order at every level. And a mutation through a handle on a
child is checked against the entry of the child, which has to be that of its place.

`NInv` is inductive once `DInv` is: no node has a Void part or a key twice, and among
any nodes there is one that refers to none of them (`Grounded`: no cycles). A cycle
would not hide anything by itself, but what a governed slot receives is made of what
`View` shows, and `View` is cut off at `MaxDepth` by Void: only of a heap without
cycles and of no more than `MaxDepth` nodes does it show everything. `Acyclic`,
which the client owes, keeps it so.

`VInv` is inductive once `DInv` is (`NInv` is part of it): every node is of the
kind its entry wants, lacks no field of the schema but those that may be missing (not
required, or with a default that is accepted), and its scalar parts are ones their
entries accept (`ValidNode`, a statement about one node). So an action has to be looked at only
where it writes: a `Set` stores a normal form, which `NormalAccepted` says is
accepted; a removal takes a field that is not required; a clone copies valid nodes.
`AcceptedIs` turns this into validity of a whole value: a container is accepted
exactly when it fits its entry and its parts are accepted, so that, the nodes being
in no cycle, `ValidView` goes from the parts to the whole.

`ReadAgainOnlyAdds` follows from the three together. The normal form of an object lists
the fields the schema knows in its order, then the others as they stood. The object is
in that order already (`DInv`) and none of its parts is Void or there twice (`NInv`),
so what the normal form has of its fields is the sequence of those fields, neither
shorter nor longer nor in another order (`FieldsKept`), each with its value
normalised (`ReadAgain`); that every part is accepted (`VInv`) makes each of these again
such a pair (`ReadBackSame`). `Extends` descends both trees a level at a time, and at no
level does it leave the set of such pairs (`ExtendsBy`).

`OptionalDefaults` says that the default of a field that is not required is itself
accepted. It cannot be dropped: reading a value again inserts the defaults of the
fields it lacks, so where such a default is refused, removing that field leaves a
document the schema refuses, and the compiler does not check defaults in full
(run `schema_defaults`). MCDocuments assumes it of its schema, so TLC shows on each
of its runs that it is met there, by a schema with defaults.

PatchApplyProofs proves for any documents, patches, schema and values:

* `PatchTypes`: `Spec => []TypeOK`
* `OwnersApart`: `Spec => []Isolation`
* `DraftIsATree`: `Spec => []DraftIsTree`
* `CallerKept`: `Spec => CallerUntouched`
* `RawUntilTheEnd`: `Spec => []DraftHasNoSchema`
* `GovernedAtTheEnd`: `Spec => []ResultGoverned`
* `NormalAtTheEnd`: `Spec => []SchemaAtTheEnd`

Of `PInv`, `Owned` says that document, argument, patch and draft share no node and
that every node of the draft stands in one place. Inside an operation this is false:
a `move` takes a value out before it puts it in again, `replace` leaves the old
value behind. There the heap is cut in two instead (`RegionsOK`): what the caller and
the patch own, which nobody writes, and the rest, in which each node stands in one
place, in the draft or outside it. `NormalAtTheEnd` rests on `NormalIsStable` and
`StoredView`: the result is the stored normal form, and is seen as such.

PatchRefinementProofs proves for the same constants, with the lemmas about trees in
PatchApplyProofs:

* `PatchIsRFC6902`: `Spec => ImplementsPatchSpec`

The abstract specification applies each operation to an immutable tree, as PatchTrees
defines it without a heap: look up the parent, build the new parent, rebuild the
way to it. The code edits one node in place. What joins the two is a map from the
nodes of the draft to trees that tells what they denote: each tree is the node's own
with the trees of its parts in it (`Tells`). `View` would not do here, as it is cut
off at `MaxDepth`, which an operation may exceed halfway; `Tells` has no bound, and
agrees with `View` once the garbage is collected and the bounds hold again
(`ViewTold`). `EditTells` is the heart: after an edit of the node at the end of a
pointer the root denotes `PutAt` of the edited tree, and all that the edit did not
touch denotes what it did. That takes `RegionsOK`: were the node also reached on
another way, the edit would show there too. On it rests one lemma for each kind of
operation, that what it makes of the draft denotes what RFC 6902 makes of the tree,
and that it fails exactly when the RFC fails (`PatchOpIsTold`); `move` edits twice,
and needs that the value it took out denotes what it did, and that the second pointer
is resolved in what the first edit left. The inductive invariant `RInv` is `PInv`,
that the patch still holds what the caller put in it, and that the nodes of the draft
denote something while the patch is applied.

DiffProofs proves for any documents, any schema and any names:

* `DiffRoundTrip`: `Spec => []RoundTrip`
* `NothingIsUndone`: `Spec => []RemainderIsDiff`
* `EmptyPatchMeansEqual`: `Spec => []EmptyIffEquivalent`

Each says something of two values of any depth, so the lemmas below them are
inductions on the depth. `OneStep` is the heart: the first operation of a diff
applies, and leaves a value from which the rest of the operations is the diff to
the same target. For that an operation on one child must leave its siblings as they
are, and remove and add fields and items in an order in which no index and no name
has shifted when its turn comes: the tail of an array is removed from its end or added
in order, and fields come and change before the others go. `EmptyIff`: there is no operation exactly when the values
are equal. `PatchWritten`: a patch of a diff is read back from its document as it
was, which rests on what escaping and splitting do to the characters of a pointer.
`NormalRespects`: equal values have equal normal forms. It is needed because the
draft ends equal to the target but not identical with it (fields may stand in another
order, a number in another spelling), and `Finish` normalises it.

`DiffInv` is inductive. It says of each status what is known then: nothing has
touched the document before the patch is applied (`Untouched`), the patch is the whole
diff, also when it was written down and read back (`PatchWhole`); and of a call that started
from a normal form, that what is left of the patch is the diff of what the draft is
now (`Underway`), that it has not failed and that it ends with the target (`Ended`).

BuilderCallsProofs proves for any calls, any options and any number of entries:

* `EntriesFormATree`: `CallsSpec => []TypeOK`

`CallsSpec` is what SchemaBuilder does to `entries`, `running` and `asked`: its
`Build` and the caller's changes to `held` leave them alone. A callback may call
every builder there is, also one whose own callback still runs or has returned, and
callbacks may nest without end. `TypeOK` alone is not inductive: that a
callback's entry can join its parent needs that the parent is an older object or
array and that no two callbacks run for one entry (`Running`), and that the place it
joins at is the only new one (`AttachedPlaces`).

What these assume of the constants TLC checks in every run:
`BuilderAssumption` (calls are records with the kind of a field),
`SchemaAssumption` (finitely many entries, no two children of one name, children
only below objects: the compiler refuses anything else), `DefaultsAssumption` (no
default has a Void part or a key twice: it was read from the text of a schema),
`ClientAssumption` and `PatchAssumption` (what the client passes are values),
`BoundsAssumption`, `DepthAssumption`, `TokensAssumption` (names are told apart by
their characters, and `SortedKeys` lists each once), `DiffAssumption` (documents and their
normal forms are within the bounds, have no Void part and no key twice),
`NumbersAssumption` (an entry accepts a number by its value, not by its spelling),
and `LevelsAssumption` (no entry is below
itself: it was compiled from its own part of the schema text). Only `AcceptedIs`
and what rests on it needs the last: normalisation is a recursion over levels, which
stop counting once there are as many as entries. For the rest, schemas with cycles
would do no harm, as normalisation fails when it runs out of levels.

Only model-checked:

* Liveness (`CallsReturn`): fairness and ENABLED are beyond the prover.
* Everything about the compiler and struct schemas, what is built from the
  entries of builders (`BuiltAsAsked`), and what a filled struct means for a whole
  document (`FilledInOrder`, `TypedPatchRoundTrip`): their modules use RECURSIVE
  operators, behind which the prover loses its SMT backend.

## Not modelled

* The text of JSON, reading and writing it (`decode.go`, `encode.go`): done by
  `encoding/json` and files, without a state. Only what writing leaves out (Void)
  is modelled. The syntax of the built-in string formats: a format is the set of
  texts it admits.
* Errors, their wording and the rendering of paths (`errors.go`); an operation
  that fails is modelled, what it says is not.
* Floats, and the constructors of number texts. `json.Marshaler` and
  `json.Unmarshaler` of the client, and the array and `OrDefault` forms of native
  conversion, which walk the same activations.
* The typed path wrappers (`patch_path.go`): each joins one token to a pointer, as
  `joinPointer` does. Patch documents somebody else wrote: `IsPatch` says which are
  accepted, no run enumerates them.
* Of struct schemas: imports, and the layout of the suggested code.
* `ojson-paths`: parsing of flags and of Go source, and files.

## What could follow

`TypedPatchRoundTrip` from `DiffRoundTrip`: it lacks a statement about filling a
zero struct from the object made of a struct, for which StructJSON would have to do
without RECURSIVE operators, as Diff does.
