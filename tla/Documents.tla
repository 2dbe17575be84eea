------------------------------ MODULE Documents ------------------------------
(***************************************************************************)
(* Clients of the document API (value.go, object.go, array.go,             *)
(* schema_apply.go): each holds some values in its variables and calls the *)
(* accessors and mutators in any order.  Get and At hand out the child     *)
(* itself, and where no schema entry governs a slot the mutators store the *)
(* argument itself, so documents come to share nodes; where an entry does, *)
(* they store a normalised copy.                                           *)
(*                                                                         *)
(* The Try and the silent form of a mutator change the same state (the     *)
(* silent form ignores the error), so an action stands for both, except    *)
(* that Set, unlike SetTry, takes Void as the order to remove the field.   *)
(***************************************************************************)
EXTENDS NodeHeap, TLC

CONSTANTS
  Handles,   \* the client's variables of type JSONValue
  Keys,      \* the field names it uses
  Scalars,   \* the scalars it passes to the mutators
  MaxItems,  \* bound: items of an array
  MaxLoose   \* bound: nodes alive between two calls that no entry governs

ASSUME ClientAssumption ==
  Keys \subseteq STRING /\ Scalars \subseteq ScalarValues \ {Void}

VARIABLES
  heap,      \* [address -> node]
  hand       \* [Handles -> slot]: Void or a reference; scalars need no variable

vars == <<heap, hand>>

Init == heap = EmptyHeap /\ hand = [h \in Handles |-> Void]

NodeAt(h) == heap[hand[h].ref]

WithinBounds(h) ==
  /\ Cardinality(DOMAIN h) <= MaxNodes
  /\ Cardinality({r \in DOMAIN h : h[r].entry = NoEntry}) <= MaxLoose

\* Every call ends here, with its result in variable g.  A scalar result needs
\* no variable: nothing can change it and the client may pass any scalar.
\* Nodes out of the client's reach are collected.
Returns(newHeap, g, slot) ==
  /\ hand' = [hand EXCEPT ![g] = IF IsRef(slot) THEN slot ELSE Void]
  /\ heap' = Collect(newHeap, Range(hand'))
  /\ WithinBounds(heap')

\* A call without a result.
Mutates(newHeap) ==
  /\ heap' = Collect(newHeap, Range(hand))
  /\ WithinBounds(heap')
  /\ UNCHANGED hand

\* What a client passes for a JSONValue argument.
Arguments == Scalars \cup {hand[g] : g \in Handles}

-----------------------------------------------------------------------------
(* Constructors and accessors.                                             *)

NewObject(g) == LET new == Store(heap, Object(<<>>), FALSE, NoEntry)
                IN  Returns(new.heap, g, new.slot)

NewArray(g) == LET new == Store(heap, Array(<<>>), FALSE, NoEntry)
               IN  Returns(new.heap, g, new.slot)

\* GetTry and AtTry return the child itself, not a copy.
GetTry(h, key, g) == /\ IsObject(heap, hand[h])
                     /\ HasField(NodeAt(h).fields, key)
                     /\ Returns(heap, g, GetField(NodeAt(h).fields, key))

AtTry(h, i, g) == /\ IsArray(heap, hand[h])
                  /\ i \in DOMAIN NodeAt(h).items
                  /\ Returns(heap, g, NodeAt(h).items[i])

-----------------------------------------------------------------------------
(* Mutators.  What a slot governed by `entry` receives for an argument: a  *)
(* normalised copy, or the argument itself when no entry governs it.       *)

\* Mutant: the value is validated, and then stored as it came.
ForSlotStoresArgument(h, arg, entry) ==
  [ok   |-> entry = NoEntry \/ normalizeValueForSchema(View(heap, arg), entry).ok,
   heap |-> heap, slot |-> arg]

\* Mutant: the copy loses its schema.
ForSlotForgetsSchema(h, arg, entry) ==
  LET built == cloneJSONValue(heap, arg)
  IN  IF entry = NoEntry THEN [ok |-> TRUE, heap |-> heap, slot |-> arg]
      ELSE [ok   |-> normalizeValueForSchema(View(heap, arg), entry).ok] @@ built

\* Mutant: the copy gets its entry, and not the schema.
ForSlotAttachesEntryOnly(h, arg, entry) ==
  IF entry = NoEntry
    THEN [ok |-> TRUE, heap |-> heap, slot |-> arg]
    ELSE LET norm == normalizeValueForSchema(View(heap, arg), entry)
         IN  IF norm.ok /\ norm.value \in Trees
               THEN [ok |-> TRUE] @@ Store(heap, norm.value, FALSE, entry)
               ELSE [ok |-> FALSE, heap |-> heap, slot |-> Void]

ForSlot(h, arg, entry) ==
  IF entry = NoEntry
    THEN [ok |-> TRUE, heap |-> heap, slot |-> arg]
    ELSE LET norm == normalizeValueForSchema(View(heap, arg), entry)
             new  == Store(heap, norm.value, NodeAt(h).schema, entry)
         IN  IF norm.ok /\ norm.value \in Trees
               THEN [ok |-> TRUE, heap |-> new.heap, slot |-> new.slot]
               ELSE [ok |-> FALSE, heap |-> heap, slot |-> Void]

\* The client never puts a value inside itself: nothing in the code prevents
\* the cycle, and no later walk of the value would end.
Acyclic(h, arg, entry) ==
  entry = NoEntry => hand[h].ref \notin Reach(heap, {arg})

\* Mutant: a new field stays where it was added.
SetTryKeepsPlace(h, key, arg) ==
  /\ IsObject(heap, hand[h])
  /\ ~IsVoid(arg)
  /\ LET entry == ChildEntry(NodeAt(h).entry, key)
         new   == ForSlot(h, arg, entry)
     IN /\ Acyclic(h, arg, entry)
        /\ new.ok
        /\ Mutates([new.heap EXCEPT ![hand[h].ref].fields = setField(@, key, new.slot)])

SetTry(h, key, arg) ==
  /\ IsObject(heap, hand[h])
  /\ ~IsVoid(arg)
  /\ LET entry == ChildEntry(NodeAt(h).entry, key)
         new   == ForSlot(h, arg, entry)
     IN /\ Acyclic(h, arg, entry)
        /\ new.ok
        /\ Mutates([new.heap EXCEPT ![hand[h].ref].fields =
             reorderObjectFieldsBySchema(setField(@, key, new.slot), NodeAt(h).entry)])

Required(h, key) ==
  LET entry == ChildEntry(NodeAt(h).entry, key)
  IN  entry # NoEntry /\ Schema[entry].required

\* Set with Void removes the field, unless the schema requires it.
SetVoid(h, key) ==
  /\ IsObject(heap, hand[h])
  /\ ~Required(h, key)
  /\ Mutates([heap EXCEPT ![hand[h].ref].fields = removeField(@, key)])

\* Mutant: a required field can be removed.
removeFieldTryIgnoresRequired(h, key, g) ==
  /\ IsObject(heap, hand[h])
  /\ HasField(NodeAt(h).fields, key)
  /\ Returns([heap EXCEPT ![hand[h].ref].fields = removeField(@, key)],
             g, GetField(NodeAt(h).fields, key))

removeFieldTry(h, key, g) ==
  /\ IsObject(heap, hand[h])
  /\ HasField(NodeAt(h).fields, key)
  /\ ~Required(h, key)
  /\ Returns([heap EXCEPT ![hand[h].ref].fields = removeField(@, key)],
             g, GetField(NodeAt(h).fields, key))

\* InsertAtTry, and with it Append (at the end) and Prepend (at the front): the
\* argument comes to stand at position i.
InsertAtTry(h, i, arg) ==
  /\ IsArray(heap, hand[h])
  /\ ~IsVoid(arg)
  /\ Len(NodeAt(h).items) < MaxItems
  /\ i \in 1..Len(NodeAt(h).items) + 1
  /\ LET entry == ItemEntry(NodeAt(h).entry)
         new   == ForSlot(h, arg, entry)
     IN /\ Acyclic(h, arg, entry)
        /\ new.ok
        /\ Mutates([new.heap EXCEPT ![hand[h].ref].items = InsertAt(@, i, new.slot)])

removeIndexTry(h, i, g) ==
  /\ IsArray(heap, hand[h])
  /\ i \in DOMAIN NodeAt(h).items
  /\ Returns([heap EXCEPT ![hand[h].ref].items = RemoveAt(@, i)],
             g, NodeAt(h).items[i])

Compress(h) ==
  /\ IsArray(heap, hand[h])
  /\ Mutates([heap EXCEPT ![hand[h].ref].items = Those(@, {i \in DOMAIN @ : ~IsVoid(@[i])})])

-----------------------------------------------------------------------------
(* Whole documents.                                                        *)

\* A failure gives the caller Void and leaves the argument as it was.
ApplySchema(h, g) ==
  LET norm == normalizeValueForSchema(View(heap, hand[h]), Root)
      new  == Store(heap, norm.value, TRUE, Root)
  IN  IF norm.ok THEN norm.value \in Trees /\ Returns(new.heap, g, new.slot)
                 ELSE Returns(heap, g, Void)

\* Clone re-attaches the schema of the value it is called on.
Clone(h, g) ==
  LET new == Store(heap, View(heap, hand[h]),
                   HasSchema(heap, hand[h]), EntryOf(heap, hand[h]))
  IN  Returns(new.heap, g, new.slot)

\* Mutant: the schema is cleared on the value itself instead of on its clone.
WithoutSchemaInPlace(h, g) ==
  LET reached == Reach(heap, {hand[h]})
  IN  Returns([r \in DOMAIN heap |-> IF r \in reached
                                THEN [heap[r] EXCEPT !.schema = FALSE, !.entry = NoEntry]
                                ELSE heap[r]], g, hand[h])

WithoutSchema(h, g) ==
  LET new == cloneJSONValue(heap, hand[h])
  IN  Returns(new.heap, g, new.slot)

Next ==
  \/ \E h \in Handles : NewObject(h) \/ NewArray(h) \/ Compress(h)
  \/ \E h \in Handles, key \in Keys, arg \in Arguments : SetTry(h, key, arg)
  \/ \E h \in Handles, key \in Keys : SetVoid(h, key)
  \/ \E h, g \in Handles, key \in Keys : GetTry(h, key, g) \/ removeFieldTry(h, key, g)
  \/ \E h \in Handles, arg \in Arguments, i \in 1..MaxItems : InsertAtTry(h, i, arg)
  \/ \E h, g \in Handles, i \in 1..MaxItems : AtTry(h, i, g) \/ removeIndexTry(h, i, g)
  \/ \E h, g \in Handles : ApplySchema(h, g) \/ Clone(h, g) \/ WithoutSchema(h, g)

Spec == Init /\ [][Next]_vars

-----------------------------------------------------------------------------
(* Correctness.                                                            *)

\* The heap holds only nodes the client reaches, with slots of known shape, and
\* a node that has an entry has the schema it is an entry of.
TypeOK ==
  /\ \A h \in Handles : IsVoid(hand[h]) \/ (IsRef(hand[h]) /\ hand[h].ref \in DOMAIN heap)
  /\ DOMAIN heap = Reach(heap, {hand[h] : h \in Handles})
  /\ \A r \in DOMAIN heap :
       /\ \A s \in Slots(heap[r]) :
            s \in ScalarValues \/ (IsRef(s) /\ s.ref \in DOMAIN heap)
       /\ heap[r].schema \in BOOLEAN
       /\ heap[r].entry \in DOMAIN Schema \cup {NoEntry}
       /\ heap[r].entry # NoEntry => heap[r].schema

\* The writers and the walks of the library skip Void items and take the first
\* of two equal keys: no sequence of calls leaves either behind, so what
\* HasField, Len and the encoder report is what was stored.
NoHiddenSlots ==
  \A r \in DOMAIN heap :
    /\ Void \notin Slots(heap[r])
    /\ heap[r].kind = "object" =>
         \A i, j \in DOMAIN heap[r].fields :
           heap[r].fields[i].key = heap[r].fields[j].key => i = j

\* methods-common.md: schema-backed documents keep the order of the schema
\* under mutation.  Known fields stand before unknown ones and in the order of
\* the schema, wherever in a document the node is and however it was reached.
CanonicalOrder ==
  \A r \in DOMAIN heap :
    heap[r].kind = "object" =>
      LET Rank(key) == SelectInSeq(Children(heap[r].entry),
                                   LAMBDA c : Schema[c].name = key)
          fields == heap[r].fields
      IN \A i, j \in DOMAIN fields :
           i < j /\ Rank(fields[j].key) > 0 =>
             Rank(fields[i].key) \in 1..Rank(fields[j].key) - 1

\* A schema-backed value is always one its schema accepts: what the local
\* checks of each mutator, on whatever node it happens to run, add up to over
\* every interleaving of calls on shared nodes.
AlwaysValid ==
  \A r \in DOMAIN heap :
    heap[r].entry # NoEntry =>
      normalizeValueForSchema(View(heap, Ref(r)), heap[r].entry).ok

\* What AlwaysValid rests on.  A field that may be taken away is put back, with
\* its default, when the value is read again: such a default is valid itself,
\* which the schema compiler does not see to in full (DefaultsAccepted).
OptionalDefaults ==
  \A e \in DOMAIN Schema :
    ~Schema[e].required /\ ~IsVoid(Schema[e].default) =>
      normalizeValueForSchema(Schema[e].default, e).ok

\* And a value the schema governs is governed all the way down: the child in
\* a known field carries the entry of that field, so that a mutation through a
\* handle on the child is checked against the right entry.
GovernedThroughout ==
  \A r \in DOMAIN heap :
    IF heap[r].kind = "object"
      THEN \A i \in DOMAIN heap[r].fields :
             LET f == heap[r].fields[i]
             IN  IsRef(f.value) /\ Known(heap[r].entry, f.key)
                   => heap[f.value.ref].entry = ChildEntry(heap[r].entry, f.key)
      ELSE ItemEntry(heap[r].entry) # NoEntry =>
             \A s \in Slots(heap[r]) :
               IsRef(s) => heap[s.ref].entry = ItemEntry(heap[r].entry)

\* A value without the fields that `old` does not have.
Trimmed(new, old) ==
  IF new.kind = "object" /\ old.kind = "object"
    THEN Object(Those(new.fields, {i \in DOMAIN new.fields :
                                     new.fields[i].key \in KeysOf(old.fields)}))
    ELSE new

\* The same container, but for the containers nested in it.
SameButNested(new, old) ==
  /\ new.kind = old.kind
  /\ DOMAIN Parts(new) = DOMAIN Parts(old)
  /\ \A i \in DOMAIN Parts(old) :
       /\ old.kind = "object" => new.fields[i].key = old.fields[i].key
       /\ ~IsContainer(Parts(old)[i]) => Parts(new)[i] = Parts(old)[i]

\* Two containers that should be the same but for fields the first adds.
Compared(new, old) == [new |-> Trimmed(new, old), old |-> old]

\* The containers nested in these.
Within(pairs) ==
  UNION {{Compared(Parts(p.new)[i], Parts(p.old)[i]) : i \in ContainersIn(p.old)} : p \in pairs}

\* `new` is the container `old` with fields added, at any depth.
Extends(new, old) ==
  LET at[depth \in Nat] == IF depth = 0 THEN {Compared(new, old)} ELSE Within(at[depth - 1])
  IN  \A depth \in 0..MaxDepth : \A p \in at[depth] : SameButNested(p.new, p.old)

\* methods-common.md: with a schema, a document that is read again keeps its
\* field order, and so does a clone: re-validation may add missing defaults to
\* a value the schema governs, but neither drops, changes nor moves a field.
RevalidationOnlyAdds ==
  \A r \in DOMAIN heap :
    heap[r].entry # NoEntry =>
      LET view == View(heap, Ref(r))
      IN  Extends(normalizeValueForSchema(view, heap[r].entry).value, view)

\* A slot the schema governs never comes to hold a node that existed before:
\* Set, Append, ApplySchema and Clone store a copy there, so that no value the
\* client still holds gains a new way into a schema-backed document.
GovernedSlots(h, r) ==
  IF h[r].kind = "object"
    THEN {h[r].fields[i].value : i \in {j \in DOMAIN h[r].fields :
                                         Known(h[r].entry, h[r].fields[j].key)}}
    ELSE IF ItemEntry(h[r].entry) = NoEntry THEN {} ELSE Slots(h[r])

StoresCopies ==
  [][\A r \in DOMAIN heap' :
       LET before == IF r \in DOMAIN heap THEN GovernedSlots(heap, r) ELSE {}
       IN  RefsIn(GovernedSlots(heap', r) \ before) \cap DOMAIN heap = {}]_vars

\* The entry and the schema of a node are decided when it is built.
SchemaIsForLife ==
  [][\A r \in DOMAIN heap \cap DOMAIN heap' :
       /\ heap'[r].entry = heap[r].entry
       /\ heap'[r].schema = heap[r].schema]_vars

\* concepts.md: "When a document is written, the document should already have
\* been normalized through the schema-aware manipulation process".
WrittenAsNormalized ==
  \A r \in DOMAIN heap :
    heap[r].entry # NoEntry =>
      normalizeValueForSchema(View(heap, Ref(r)), heap[r].entry).value
        = View(heap, Ref(r))
=============================================================================
