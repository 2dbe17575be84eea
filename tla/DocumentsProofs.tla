-------------------------- MODULE DocumentsProofs --------------------------
(***************************************************************************)
(* The client's calls on documents, for any number of variables, any       *)
(* schema and any values.                                                  *)
(*                                                                         *)
(* The inductive invariant is DInv.  On top of what the theorems state, it *)
(* says that the fields of a node stand in the order of its entry and that *)
(* a node at a governed place carries the entry of that place (DocOK).     *)
(* Both are needed at once: Clone copies a tree and attaches the entry of  *)
(* the value it is called on, so that its copy is only in order if what    *)
(* the entries below call for is what the nodes below carry.               *)
(*                                                                         *)
(* NInv is inductive once DInv is: no node has a Void part or a key twice, *)
(* and the client built no value inside itself.  VInv is inductive once    *)
(* both are: every governed node has the kind and the children its entry   *)
(* asks for, and scalars in it that its entries accept.  That its whole    *)
(* value is accepted follows, going up from the nodes that hold no others. *)
(*                                                                         *)
(* A call makes a heap that grows from the one before it (Grows), and what *)
(* the client no longer reaches is collected.                              *)
(*                                                                         *)
(* Together they say what happens when a governed value is read again: the *)
(* fields it has stand in the order in which normalizing puts them, so that*)
(* the normal form, without the fields it adds, is the value with its parts*)
(* normalised, and that is so again for each part (ReadBack).              *)
(***************************************************************************)
EXTENDS Documents, NodeHeapProofs

\* A heap the documents of a client can live in.
DocOK(g) ==
  /\ HeapOK(g)
  /\ \A r \in DOMAIN g : /\ OrderedNode(g, r) /\ GovernedNode(g, r)
                         /\ g[r].entry # NoEntry => g[r].schema

\* The inductive invariant.
DInv ==
  /\ DocOK(heap)
  /\ hand \in [Handles -> Links(DOMAIN heap)]
  /\ \A h \in Handles : IsRef(hand[h]) \/ IsVoid(hand[h])
  /\ DOMAIN heap = Reach(heap, Range(hand))

NeatHeap(g) == Grounded(g) /\ \A r \in DOMAIN g : NeatNode(g, r)

\* What a governed slot receives is what the view of an argument normalises to,
\* and a view is only whole where nothing is in a cycle or nests beyond MaxDepth.
NInv == NeatHeap(heap) /\ Cardinality(DOMAIN heap) <= MaxNodes

ValidHeap(g) == \A r \in DOMAIN g : ValidNode(g, r)

\* What a node is and holds is what its entry asks, if the defaults are valid.
VInv == OptionalDefaults /\ NInv /\ ValidHeap(heap)

-----------------------------------------------------------------------------
(* Heaps that grow.                                                        *)

GovernedPart(g, r, i) ==
  /\ i \in DOMAIN Parts(g[r]) /\ IsRef(Parts(g[r])[i])
  /\ PartEntry(g[r], i, g[r].entry) # NoEntry

\* No governed part is a node there was, unless it was one before.
NoNewWay(old, new) ==
  \A r \in DOMAIN new : \A i : GovernedPart(new, r, i) /\ Parts(new[r])[i].ref \in DOMAIN old =>
    r \in DOMAIN old /\ \E j : GovernedPart(old, r, j) /\ Parts(old[r])[j] = Parts(new[r])[i]

SameSchemas(old, new) ==
  \A r \in DOMAIN old \cap DOMAIN new :
    new[r].entry = old[r].entry /\ new[r].schema = old[r].schema

Grows(old, new) ==
  /\ DocOK(new) /\ DOMAIN old \subseteq DOMAIN new
  /\ SameSchemas(old, new) /\ NoNewWay(old, new)

LEMMA GrowsItself ==
  ASSUME NEW old, DocOK(old) PROVE Grows(old, old)
  BY DEF Grows, SameSchemas, NoNewWay

\* A part of a node of a heap, and where it may point.
LEMMA PartLinks ==
  ASSUME NEW g, HeapOK(g), NEW r \in DOMAIN g, NEW i \in DOMAIN Parts(g[r])
  PROVE  /\ Parts(g[r])[i] \in Links(DOMAIN g)
         /\ IsRef(Parts(g[r])[i]) => /\ Parts(g[r])[i].ref \in DOMAIN g
                                     /\ Parts(g[r])[i].ref \in RefsIn(Slots(g[r]))
  <1> DEFINE D == DOMAIN g
             part == Parts(g[r])[i]
  <1>1. g[r] \in NodesWith(Links(D))
    BY DEF HeapOK
  <1>2. part \in Links(D) /\ part \in Slots(g[r])
    BY <1>1, NodeShape
  <1>3. IsRef(part) => part.ref \in D /\ part.ref \in RefsIn(Slots(g[r]))
    <2> HIDE DEF D, part
    <2> QED
      BY <1>2, LinkOrScalar DEF RefsIn
  <1> QED
    BY <1>2, <1>3

LEMMA StoreGrows ==
  ASSUME NEW old, DocOK(old), NEW tree \in Trees, NEW attached \in BOOLEAN,
         NEW entry \in Entries, InOrder(tree, entry), entry # NoEntry => attached
  PROVE  LET new  == Store(old, tree, attached, entry).heap
             slot == Store(old, tree, attached, entry).slot
         IN  /\ Grows(old, new) /\ \A r \in DOMAIN old : new[r] = old[r]
             /\ slot \in Links(DOMAIN new) /\ slot \in Links(DOMAIN new \ DOMAIN old)
             /\ IsRef(slot) => new[slot.ref].entry = entry
  <1> DEFINE new  == Store(old, tree, attached, entry).heap
             slot == Store(old, tree, attached, entry).slot
             N    == DOMAIN new \ DOMAIN old
  <1>1. HeapOK(old)
    BY DEF DocOK
  <1>2. StoredIn(old, new, slot, tree, attached, entry)
    BY <1>1, Stored
  <1>3. /\ HeapOK(new) /\ DOMAIN old \subseteq DOMAIN new
        /\ \A r \in DOMAIN old : new[r] = old[r]
        /\ Closed(new, N) /\ slot \in Links(N)
        /\ \A r \in N : new[r].schema = attached /\ (entry = NoEntry => new[r].entry = NoEntry)
        /\ IsRef(slot) => new[slot.ref].entry = entry
    BY <1>2 DEF StoredIn, Added
  <1>4. ASSUME NEW r \in N
        PROVE  /\ OrderedNode(new, r) /\ GovernedNode(new, r)
               /\ new[r].entry # NoEntry => new[r].schema
    <2>1. /\ new[r].kind = "object" => Ordered(new[r].fields, new[r].entry)
          /\ \A i \in DOMAIN Parts(new[r]) :
               IsRef(Parts(new[r])[i]) =>
                 new[Parts(new[r])[i].ref].entry = PartEntry(new[r], i, new[r].entry)
      BY <1>1, StoredInOrder
    <2>2. new[r].entry # NoEntry => new[r].schema
      BY <1>3
    <2> HIDE DEF new
    <2> QED
      BY <2>1, <2>2 DEF OrderedNode, GovernedNode
  <1> HIDE DEF new, slot
  <1>5. ASSUME NEW r \in DOMAIN old
        PROVE  /\ OrderedNode(new, r) /\ GovernedNode(new, r)
               /\ new[r].entry # NoEntry => new[r].schema
    <2>1. OrderedNode(old, r) /\ GovernedNode(old, r) /\ (old[r].entry # NoEntry => old[r].schema)
      BY DEF DocOK
    <2>2. new[r] = old[r]
      BY <1>3
    <2>3. \A i \in DOMAIN Parts(old[r]) :
            IsRef(Parts(old[r])[i]) => new[Parts(old[r])[i].ref] = old[Parts(old[r])[i].ref]
      BY <1>1, <1>3, PartLinks
    <2> QED
      BY <2>1, <2>2, <2>3 DEF OrderedNode, GovernedNode
  <1>6. DocOK(new)
    BY <1>3, <1>4, <1>5 DEF DocOK
  <1>7. NoNewWay(old, new)
    <2> SUFFICES ASSUME NEW r \in DOMAIN new, NEW i, GovernedPart(new, r, i),
                        Parts(new[r])[i].ref \in DOMAIN old
                 PROVE  r \in DOMAIN old /\ GovernedPart(old, r, i)
                        /\ Parts(old[r])[i] = Parts(new[r])[i]
      BY DEF NoNewWay
    <2>1. r \in DOMAIN old
      <3> SUFFICES ASSUME r \in N PROVE FALSE
        OBVIOUS
      <3>1. Parts(new[r])[i].ref \in RefsIn(Slots(new[r]))
        BY <1>3, PartLinks DEF GovernedPart
      <3>2. Parts(new[r])[i].ref \in N
        BY <1>3, <3>1 DEF Closed
      <3> QED
        BY <3>2
    <2>2. new[r] = old[r]
      BY <1>3, <2>1
    <2> QED
      BY <2>1, <2>2 DEF GovernedPart
  <1>8. slot \in Links(DOMAIN new)
    BY <1>3 DEF Links
  <1> QED
    BY <1>3, <1>6, <1>7, <1>8 DEF Grows, SameSchemas, new, slot

\* What a slot governed by `entry` may receive.
Placed(old, new, slot, entry) ==
  IsRef(slot) /\ entry # NoEntry => new[slot.ref].entry = entry /\ slot.ref \notin DOMAIN old

\* What stands in a node stood there before, under the same entry, or is `slot`.
PartsFrom(node, before, slot, entry) ==
  \A i \in DOMAIN Parts(node) :
    \/ \E j \in DOMAIN Parts(before) :
         /\ Parts(node)[i] = Parts(before)[j]
         /\ PartEntry(node, i, node.entry) = PartEntry(before, j, before.entry)
    \/ Parts(node)[i] = slot /\ PartEntry(node, i, node.entry) = entry

LEMMA EditGrows ==
  ASSUME NEW old, NEW new, Grows(old, new), NEW r \in DOMAIN old,
         NEW node, node \in NodesWith(Links(DOMAIN new)),
         node.kind = new[r].kind, node.entry = new[r].entry, node.schema = new[r].schema,
         node.kind = "object" => Ordered(node.fields, node.entry),
         NEW slot, NEW entry, PartsFrom(node, new[r], slot, entry), Placed(old, new, slot, entry)
  PROVE  Grows(old, [new EXCEPT ![r] = node])
  <1> DEFINE k == [new EXCEPT ![r] = node]
             D == DOMAIN new
  <1>1. DocOK(new) /\ HeapOK(new) /\ r \in D /\ DOMAIN old \subseteq D
    BY DEF Grows, DocOK
  <1>2. /\ DOMAIN k = D /\ k[r] = node /\ \A q \in D : q # r => k[q] = new[q]
    BY <1>1
  <1>3. HeapOK(k)
    <2>1. IsFiniteSet(D) /\ new \in [D -> NodesWith(Links(D))]
      BY <1>1 DEF HeapOK
    <2>2. k \in [D -> NodesWith(Links(D))]
      BY <2>1
    <2> QED
      BY <1>2, <2>1, <2>2 DEF HeapOK
  <1> HIDE DEF k
  <1>4. \A q \in D : k[q].entry = new[q].entry /\ k[q].schema = new[q].schema
    BY <1>2
  <1>5. ASSUME NEW i \in DOMAIN Parts(node), IsRef(Parts(node)[i]),
               PartEntry(node, i, node.entry) # NoEntry
        PROVE  /\ new[Parts(node)[i].ref].entry = PartEntry(node, i, node.entry)
               /\ Parts(node)[i].ref \in DOMAIN old =>
                    \E j : GovernedPart(new, r, j) /\ Parts(new[r])[j] = Parts(node)[i]
    <2>1. CASE \E j \in DOMAIN Parts(new[r]) :
                 /\ Parts(node)[i] = Parts(new[r])[j]
                 /\ PartEntry(node, i, node.entry) = PartEntry(new[r], j, new[r].entry)
      <3>1. PICK j \in DOMAIN Parts(new[r]) :
                 /\ Parts(node)[i] = Parts(new[r])[j]
                 /\ PartEntry(node, i, node.entry) = PartEntry(new[r], j, new[r].entry)
        BY <2>1
      <3>2. GovernedPart(new, r, j)
        BY <1>5, <3>1 DEF GovernedPart
      <3>3. GovernedNode(new, r)
        BY <1>1 DEF DocOK
      <3> QED
        BY <3>1, <3>2, <3>3 DEF GovernedNode, GovernedPart
    <2>2. CASE Parts(node)[i] = slot /\ PartEntry(node, i, node.entry) = entry
      BY <1>5, <2>2 DEF Placed
    <2> QED
      BY <2>1, <2>2 DEF PartsFrom
  <1>6. ASSUME NEW q \in D
        PROVE  /\ OrderedNode(k, q) /\ GovernedNode(k, q)
               /\ k[q].entry # NoEntry => k[q].schema
    <2>1. /\ OrderedNode(new, q) /\ GovernedNode(new, q)
          /\ new[q].entry # NoEntry => new[q].schema
      BY <1>1 DEF DocOK
    <2>2. \A i \in DOMAIN Parts(k[q]) : IsRef(Parts(k[q])[i]) => Parts(k[q])[i].ref \in D
      BY <1>2, <1>3, PartLinks
    <2>3. OrderedNode(k, q)
      BY <1>2, <2>1 DEF OrderedNode
    <2>4. CASE q = r
      BY <1>2, <1>4, <1>5, <2>1, <2>2, <2>3, <2>4 DEF GovernedNode
    <2>5. CASE q # r
      <3>1. k[q] = new[q]
        BY <1>2, <2>5
      <3> QED
        BY <1>4, <2>1, <2>2, <2>3, <3>1 DEF GovernedNode
    <2> QED
      BY <2>4, <2>5
  <1>7. NoNewWay(old, k)
    <2> SUFFICES ASSUME NEW q \in D, NEW i, GovernedPart(k, q, i),
                        Parts(k[q])[i].ref \in DOMAIN old
                 PROVE  q \in DOMAIN old /\ \E j : GovernedPart(old, q, j)
                                                   /\ Parts(old[q])[j] = Parts(k[q])[i]
      BY <1>2 DEF NoNewWay
    <2>1. \E j : GovernedPart(new, q, j) /\ Parts(new[q])[j] = Parts(k[q])[i]
      <3>1. CASE q = r
        BY <1>2, <1>5, <3>1 DEF GovernedPart
      <3>2. CASE q # r
        <4>1. k[q] = new[q]
          BY <1>2, <3>2
        <4> QED
          BY <4>1 DEF GovernedPart
      <3> QED
        BY <3>1, <3>2
    <2> QED
      BY <2>1 DEF Grows, NoNewWay
  <1>8. SameSchemas(old, k)
    BY <1>1, <1>2, <1>4 DEF Grows, SameSchemas
  <1>9. DocOK(k)
    BY <1>2, <1>3, <1>6 DEF DocOK
  <1> QED
    BY <1>1, <1>2, <1>7, <1>8, <1>9 DEF Grows, k

\* The same for the fields of an object and for the items of an array.
LEMMA FieldsGrow ==
  ASSUME NEW old, NEW new, Grows(old, new), NEW r \in DOMAIN old, new[r].kind = "object",
         NEW fields \in Seq(FieldsOf(STRING, Links(DOMAIN new))), Ordered(fields, new[r].entry),
         NEW key, NEW slot, FieldsFrom(fields, new[r].fields, Field(key, slot)),
         Placed(old, new, slot, ChildEntry(new[r].entry, key))
  PROVE  Grows(old, [new EXCEPT ![r].fields = fields])
  <1> DEFINE V == Links(DOMAIN new)
             before == new[r]
             node == [before EXCEPT !.fields = fields]
  <1>1. before \in NodesWith(V)
    BY DEF Grows, DocOK, HeapOK
  <1>2. /\ before \in ObjectNodes(V) /\ DOMAIN Parts(before) = DOMAIN before.fields
        /\ Parts(before) = [i \in DOMAIN before.fields |-> before.fields[i].value]
    BY <1>1, NodeShape
  <1>3. /\ node \in NodesWith(V) /\ node.schema = before.schema /\ node.entry = before.entry
        /\ node.kind = before.kind /\ node.fields = fields /\ Parts(node) = ValuesIn(fields)
    BY <1>2, FieldsEdited
  <1> HIDE DEF node, V
  <1>4. PartsFrom(node, before, slot, ChildEntry(before.entry, key))
    <2> SUFFICES ASSUME NEW i \in DOMAIN fields
                 PROVE  \/ \E j \in DOMAIN Parts(before) :
                             /\ fields[i].value = Parts(before)[j]
                             /\ ChildEntry(before.entry, fields[i].key)
                                  = PartEntry(before, j, before.entry)
                        \/ /\ fields[i].value = slot
                           /\ ChildEntry(before.entry, fields[i].key) = ChildEntry(before.entry, key)
      BY <1>3 DEF PartsFrom, PartEntry, ValuesIn
    <2>1. CASE fields[i] = Field(key, slot)
      BY <2>1 DEF Field
    <2>2. CASE \E j \in DOMAIN before.fields : fields[i] = before.fields[j]
      BY <1>2, <2>2 DEF PartEntry
    <2> QED
      BY <2>1, <2>2 DEF FieldsFrom
  <1>5. Grows(old, [new EXCEPT ![r] = node])
    BY <1>3, <1>4, EditGrows DEF V
  <1> QED
    BY <1>5 DEF node

ItemsFrom(items, before, slot) ==
  \A i \in DOMAIN items : items[i] = slot \/ \E j \in DOMAIN before : items[i] = before[j]

LEMMA ItemsGrow ==
  ASSUME NEW old, NEW new, Grows(old, new), NEW r \in DOMAIN old, new[r].kind = "array",
         NEW items \in Seq(Links(DOMAIN new)),
         NEW slot, ItemsFrom(items, new[r].items, slot),
         Placed(old, new, slot, ItemEntry(new[r].entry))
  PROVE  Grows(old, [new EXCEPT ![r].items = items])
  <1> DEFINE V == Links(DOMAIN new)
             before == new[r]
             node == [before EXCEPT !.items = items]
  <1>1. before \in NodesWith(V)
    BY DEF Grows, DocOK, HeapOK
  <1>2. before \in ArrayNodes(V) /\ Parts(before) = before.items
    BY <1>1, NodeShape
  <1>3. /\ node \in NodesWith(V) /\ node.schema = before.schema /\ node.entry = before.entry
        /\ node.kind = before.kind /\ Parts(node) = items
    BY <1>2, ItemsEdited
  <1> HIDE DEF node, V
  <1>4. PartsFrom(node, before, slot, ItemEntry(before.entry))
    BY <1>2, <1>3 DEF PartsFrom, PartEntry, ItemsFrom
  <1>5. Grows(old, [new EXCEPT ![r] = node])
    BY <1>3, <1>4, EditGrows DEF V
  <1> QED
    BY <1>5 DEF node

\* Overwriting or adding a field.
LEMMA SetFieldFrom ==
  ASSUME NEW V, NEW fields \in Seq(FieldsOf(STRING, V)), NEW key \in STRING, NEW slot \in V
  PROVE  /\ setField(fields, key, slot) \in Seq(FieldsOf(STRING, V))
         /\ FieldsFrom(setField(fields, key, slot), fields, Field(key, slot))
  <1> DEFINE new == setField(fields, key, slot)
             i   == FieldIndex(fields, key)
  <1>1. new \in Seq(FieldsOf(STRING, V))
    BY FieldSet
  <1>2. CASE i = 0
    <2>1. new = Append(fields, Field(key, slot)) /\ Field(key, slot) \in FieldsOf(STRING, V)
      BY <1>2 DEF setField, Field, FieldsOf
    <2> DEFINE F == FieldsOf(STRING, V)
               f == Field(key, slot)
    <2> HIDE DEF new, i
    <2>2. /\ DOMAIN new = 1..Len(fields) + 1
          /\ new[Len(fields) + 1] = f
          /\ \A n \in 1..Len(fields) : new[n] = fields[n]
      <3>1. fields \in Seq(F) /\ f \in F /\ new = Append(fields, f)
        BY <2>1
      <3> HIDE DEF F, f
      <3> QED
        BY <3>1
    <2>3. DOMAIN fields = 1..Len(fields) /\ Len(fields) \in Nat
      OBVIOUS
    <2>4. \A n \in 1..Len(fields) + 1 : n \in 1..Len(fields) \/ n = Len(fields) + 1
      BY <2>3
    <2>5. FieldsFrom(new, fields, Field(key, slot))
      BY <2>2, <2>3, <2>4 DEF FieldsFrom
    <2> QED
      BY <1>1, <2>5 DEF new
  <1>3. CASE i # 0
    <2>1. i \in DOMAIN fields /\ fields[i].key = key
      BY <1>3, FieldFound
    <2>2. new = [fields EXCEPT ![i] = [fields[i] EXCEPT !.value = slot]]
      BY <1>3 DEF setField
    <2>3. \A f \in FieldsOf(STRING, V) : f.key = key => [f EXCEPT !.value = slot] = Field(key, slot)
      BY DEF FieldsOf, Field
    <2>4. [fields[i] EXCEPT !.value = slot] = Field(key, slot)
      BY <2>1, <2>3
    <2> HIDE DEF new, i
    <2>5. /\ DOMAIN new = DOMAIN fields
          /\ \A n \in DOMAIN fields : new[n] = IF n = i THEN Field(key, slot) ELSE fields[n]
      BY <2>1, <2>2, <2>4
    <2> QED
      BY <1>1, <2>5 DEF FieldsFrom, new
  <1> QED
    BY <1>2, <1>3

\* Nothing is added.
SomeOf(new, old) == \A k \in DOMAIN new : \E i \in DOMAIN old : new[k] = old[i]

\* What is left of ordered fields is ordered.
LEMMA RemovalOrdered ==
  ASSUME NEW V, NEW fields \in Seq(FieldsOf(STRING, V)), NEW key, NEW entry,
         Ordered(fields, entry), NEW extra
  PROVE  LET new == removeField(fields, key)
         IN  /\ new \in Seq(FieldsOf(STRING, V)) /\ Ordered(new, entry)
             /\ FieldsFrom(new, fields, extra)
             /\ SomeOf(new, fields)
  <1> DEFINE new == removeField(fields, key)
             i   == FieldIndex(fields, key)
  <1>1. CASE i = 0
    BY <1>1 DEF removeField, FieldsFrom, SomeOf
  <1>2. CASE i # 0
    <2>1. i \in 1..Len(fields)
      BY <1>2, FieldIndexIn
    <2>2. /\ new = RemoveAt(fields, i) /\ new \in Seq(FieldsOf(STRING, V))
          /\ DOMAIN new = 1..Len(fields) - 1
          /\ \A n \in 1..Len(fields) - 1 : new[n] = IF n < i THEN fields[n] ELSE fields[n + 1]
      BY <1>2, <2>1, RemoveAtIs DEF removeField
    <2> DEFINE at(n) == IF n < i THEN n ELSE n + 1
    <2> HIDE DEF new, i
    <2>3. \A n \in DOMAIN new : at(n) \in DOMAIN fields /\ new[n] = fields[at(n)]
      BY <2>1, <2>2
    <2>4. \A m, n \in DOMAIN new : m < n => at(m) < at(n)
      BY <2>1, <2>2
    <2> HIDE DEF at
    <2>5. Ordered(new, entry)
      BY <2>3, <2>4 DEF Ordered
    <2>6. FieldsFrom(new, fields, extra) /\ SomeOf(new, fields)
      BY <2>3 DEF FieldsFrom, SomeOf
    <2> QED
      BY <2>2, <2>5, <2>6 DEF new
  <1> QED
    BY <1>1, <1>2

-----------------------------------------------------------------------------
(* What a mutator puts into a slot.                                        *)

LEMMA NormalStored ==
  ASSUME NEW g, DocOK(g), NEW slot \in Links(DOMAIN g), NEW entry \in Entries,
         normalizeValueForSchema(View(g, slot), entry).ok,
         normalizeValueForSchema(View(g, slot), entry).value \in Trees
  PROVE  InOrder(normalizeValueForSchema(View(g, slot), entry).value, entry)
  <1>1. View(g, slot) \in Trees
    BY ViewIsTree DEF DocOK
  <1> QED
    BY <1>1, NormalInOrder

LEMMA ForSlotGrows ==
  ASSUME DocOK(heap), NEW h \in Handles, NEW arg \in Links(DOMAIN heap),
         NEW entry \in Entries, entry # NoEntry => NodeAt(h).schema /\ NodeAt(h).schema \in BOOLEAN,
         ForSlot(h, arg, entry).ok
  PROVE  LET new == ForSlot(h, arg, entry)
         IN  /\ Grows(heap, new.heap) /\ \A r \in DOMAIN heap : new.heap[r] = heap[r]
             /\ new.slot \in Links(DOMAIN new.heap)
             /\ Placed(heap, new.heap, new.slot, entry)
  <1> DEFINE new == ForSlot(h, arg, entry)
  <1>1. CASE entry = NoEntry
    <2>1. new = [ok |-> TRUE, heap |-> heap, slot |-> arg]
      BY <1>1 DEF ForSlot
    <2>2. new.heap = heap /\ new.slot = arg
      BY <2>1
    <2> HIDE DEF new
    <2>3. Placed(heap, new.heap, new.slot, entry)
      BY <1>1 DEF Placed
    <2> QED
      BY <2>2, <2>3, GrowsItself DEF new
  <1>2. CASE entry # NoEntry
    <2> DEFINE norm == normalizeValueForSchema(View(heap, arg), entry)
               st   == Store(heap, norm.value, NodeAt(h).schema, entry)
    <2>1. new = IF norm.ok /\ norm.value \in Trees
                  THEN [ok |-> TRUE, heap |-> st.heap, slot |-> st.slot]
                  ELSE [ok |-> FALSE, heap |-> heap, slot |-> Void]
      BY <1>2 DEF ForSlot
    <2>2. new.ok
      OBVIOUS
    <2> HIDE DEF new, norm, st
    <2>3. norm.ok /\ norm.value \in Trees
      BY <2>1, <2>2
    <2>4. new.heap = st.heap /\ new.slot = st.slot
      BY <2>1, <2>3
    <2>5. InOrder(norm.value, entry)
      BY <2>3, NormalStored DEF norm
    <2>6. NodeAt(h).schema \in BOOLEAN /\ NodeAt(h).schema
      BY <1>2
    <2>7. /\ Grows(heap, st.heap) /\ \A r \in DOMAIN heap : st.heap[r] = heap[r]
          /\ st.slot \in Links(DOMAIN st.heap) /\ st.slot \in Links(DOMAIN st.heap \ DOMAIN heap)
          /\ IsRef(st.slot) => st.heap[st.slot.ref].entry = entry
      BY <2>3, <2>5, <2>6, StoreGrows DEF st
    <2>8. Placed(heap, st.heap, st.slot, entry)
      <3> DEFINE N == DOMAIN st.heap \ DOMAIN heap
      <3>1. IsRef(st.slot) => st.slot.ref \in N
        <4> HIDE DEF N
        <4>1. st.slot \in Links(N)
          BY <2>7 DEF N
        <4> QED
          BY <4>1, LinkOrScalar
      <3> QED
        BY <2>7, <3>1 DEF Placed
    <2> QED
      BY <2>4, <2>7, <2>8 DEF new
  <1> QED
    BY <1>1, <1>2

-----------------------------------------------------------------------------
(* Heaps without hidden slots.                                             *)

\* A scalar that is not Void, for the calls that put nothing in.
LEMMA NullNeat ==
  ASSUME NEW g, HeapOK(g)
  PROVE  Null \in Links(DOMAIN g) /\ ~IsVoid(Null) /\ ~IsRef(Null) /\ Own(g, Null) = {}
  <1>1. Null.kind = "null" /\ Null \in ScalarValues
    BY DEF Null, Scalar, ScalarValues
  <1>2. ~IsVoid(Null) /\ ~IsRef(Null)
    BY <1>1, ScalarKind DEF IsVoid
  <1>3. \A nodes : Null \in Links(nodes)
    BY <1>1 DEF Links
  <1>4. {} \in SUBSET DOMAIN g /\ Closed(g, {})
    BY DEF Closed
  <1>5. Own(g, Null) \subseteq {}
    BY <1>3, <1>4, OwnIs
  <1> QED
    BY <1>2, <1>3, <1>5

LEMMA StoreNeat ==
  ASSUME NEW g, HeapOK(g), NeatHeap(g), NEW tree \in Trees, tree \in Neat,
         NEW attached \in BOOLEAN, NEW entry \in Entries
  PROVE  LET new  == Store(g, tree, attached, entry).heap
             slot == Store(g, tree, attached, entry).slot
         IN  /\ HeapOK(new) /\ NeatHeap(new) /\ ~IsVoid(slot)
             /\ \A r \in DOMAIN g : r \notin Own(new, slot)
  <1> DEFINE new  == Store(g, tree, attached, entry).heap
             slot == Store(g, tree, attached, entry).slot
             N    == DOMAIN new \ DOMAIN g
  <1>1. StoredIn(g, new, slot, tree, attached, entry)
    BY Stored
  <1>2. /\ HeapOK(new) /\ DOMAIN g \subseteq DOMAIN new /\ \A r \in DOMAIN g : new[r] = g[r]
        /\ Closed(new, N) /\ slot \in Links(N)
        /\ (IsRef(slot) <=> IsContainer(tree)) /\ (~IsContainer(tree) => slot = tree)
    BY <1>1 DEF StoredIn, Added
  <1>3. Grounded(new)
    BY StoredGrounded DEF NeatHeap
  <1>4. \A r \in N : NeatNode(new, r)
    BY StoredNeat
  <1> HIDE DEF new, slot
  <1>5. \A r \in DOMAIN g : NeatNode(new, r)
    BY <1>2 DEF NeatHeap, NeatNode
  <1>6. ~IsVoid(slot)
    <2>1. CASE IsRef(slot)
      BY <2>1 DEF IsRef, IsVoid
    <2>2. CASE ~IsRef(slot)
      <3>1. slot = tree
        BY <1>2, <2>2
      <3>2. NeatTop(tree)
        BY NeatIs DEF NeatBelow
      <3> QED
        BY <3>1, <3>2 DEF NeatTop
    <2> QED
      BY <2>1, <2>2
  <1>7. Own(new, slot) \subseteq N
    <2>1. N \in SUBSET DOMAIN new /\ slot \in Links(DOMAIN new)
      BY <1>2 DEF Links
    <2> HIDE DEF N
    <2> QED
      BY <1>2, <2>1, OwnIs
  <1> QED
    BY <1>2, <1>3, <1>4, <1>5, <1>6, <1>7 DEF NeatHeap, new, slot

\* The edit of one node.
LEMMA EditNeat ==
  ASSUME NEW g, HeapOK(g), NeatHeap(g), NEW r \in DOMAIN g,
         NEW node, Void \notin Slots(node), node.kind = "object" => Distinct(node.fields),
         NEW slot \in Links(DOMAIN g), r \notin Own(g, slot),
         RefsIn(Slots(node)) \subseteq RefsIn(Slots(g[r])) \cup RefsIn({slot})
  PROVE  NeatHeap([g EXCEPT ![r] = node])
  <1> DEFINE k == [g EXCEPT ![r] = node]
  <1>1. /\ DOMAIN k = DOMAIN g /\ k[r] = node
        /\ \A q \in DOMAIN g : q # r => k[q] = g[q]
    OBVIOUS
  <1> HIDE DEF k
  <1>2. Grounded(k)
    BY <1>1, EditGrounded DEF NeatHeap
  <1>3. ASSUME NEW q \in DOMAIN k PROVE NeatNode(k, q)
    <2>1. CASE q = r
      BY <1>1, <2>1 DEF NeatNode
    <2>2. CASE q # r
      BY <1>1, <2>2 DEF NeatHeap, NeatNode
    <2> QED
      BY <2>1, <2>2
  <1> QED
    BY <1>2, <1>3 DEF NeatHeap, k

\* What is not Void is not void.
LEMMA NotVoid ==
  ASSUME NEW nodes, NEW slot \in Links(nodes), slot # Void PROVE ~IsVoid(slot)
  <1>1. CASE IsRef(slot)
    BY <1>1 DEF IsRef, IsVoid
  <1>2. CASE ~IsRef(slot)
    BY <1>2, LinkOrScalar, VoidIs
  <1> QED
    BY <1>1, <1>2

\* Parts that stood there before, or are `slot`.
LEMMA PartsNeat ==
  ASSUME NEW g, HeapOK(g), NEW r \in DOMAIN g, NeatNode(g, r),
         NEW node, NEW slot \in Links(DOMAIN g), ~IsVoid(slot),
         \A i \in DOMAIN Parts(node) :
           Parts(node)[i] = slot \/ \E j \in DOMAIN Parts(g[r]) : Parts(node)[i] = Parts(g[r])[j]
  PROVE  /\ Void \notin Slots(node)
         /\ RefsIn(Slots(node)) \subseteq RefsIn(Slots(g[r])) \cup RefsIn({slot})
  <1>1. \A s \in Slots(node) : s = slot \/ s \in Slots(g[r])
    BY DEF Slots, Range
  <1>2. slot # Void
    BY VoidLinks
  <1> QED
    BY <1>1, <1>2 DEF NeatNode, RefsIn

LEMMA FieldsNeat ==
  ASSUME NEW g, HeapOK(g), NeatHeap(g), NEW r \in DOMAIN g, g[r].kind = "object",
         NEW fields \in Seq(FieldsOf(STRING, Links(DOMAIN g))), Distinct(fields),
         NEW key, NEW slot \in Links(DOMAIN g), ~IsVoid(slot), r \notin Own(g, slot),
         FieldsFrom(fields, g[r].fields, Field(key, slot))
  PROVE  NeatHeap([g EXCEPT ![r].fields = fields])
  <1> DEFINE V == Links(DOMAIN g)
             before == g[r]
             node == [before EXCEPT !.fields = fields]
  <1>1. before \in NodesWith(V)
    BY DEF HeapOK
  <1>2. /\ before \in ObjectNodes(V) /\ DOMAIN Parts(before) = DOMAIN before.fields
        /\ Parts(before) = [i \in DOMAIN before.fields |-> before.fields[i].value]
    BY <1>1, NodeShape
  <1>3. node.fields = fields /\ Parts(node) = ValuesIn(fields)
    BY <1>2, FieldsEdited
  <1> HIDE DEF node, V
  <1>4. ASSUME NEW i \in DOMAIN Parts(node)
        PROVE  Parts(node)[i] = slot \/ \E j \in DOMAIN Parts(before) : Parts(node)[i] = Parts(before)[j]
    <2>1. i \in DOMAIN fields /\ Parts(node)[i] = fields[i].value
      BY <1>3 DEF ValuesIn
    <2>2. CASE fields[i] = Field(key, slot)
      BY <2>1, <2>2 DEF Field
    <2>3. CASE \E j \in DOMAIN before.fields : fields[i] = before.fields[j]
      BY <1>2, <2>1, <2>3
    <2> QED
      BY <2>1, <2>2, <2>3 DEF FieldsFrom
  <1>5. NeatNode(g, r)
    BY DEF NeatHeap
  <1>6. /\ Void \notin Slots(node)
        /\ RefsIn(Slots(node)) \subseteq RefsIn(Slots(g[r])) \cup RefsIn({slot})
    BY <1>4, <1>5, PartsNeat
  <1>7. NeatHeap([g EXCEPT ![r] = node])
    BY <1>3, <1>6, EditNeat
  <1> QED
    BY <1>7 DEF node

LEMMA ItemsNeat ==
  ASSUME NEW g, HeapOK(g), NeatHeap(g), NEW r \in DOMAIN g, g[r].kind = "array",
         NEW items \in Seq(Links(DOMAIN g)),
         NEW slot \in Links(DOMAIN g), ~IsVoid(slot), r \notin Own(g, slot),
         ItemsFrom(items, g[r].items, slot)
  PROVE  NeatHeap([g EXCEPT ![r].items = items])
  <1> DEFINE V == Links(DOMAIN g)
             before == g[r]
             node == [before EXCEPT !.items = items]
  <1>1. before \in NodesWith(V)
    BY DEF HeapOK
  <1>2. before \in ArrayNodes(V) /\ Parts(before) = before.items
    BY <1>1, NodeShape
  <1>3. node.kind = before.kind /\ Parts(node) = items
    BY <1>2, ItemsEdited
  <1> HIDE DEF node, V
  <1>4. \A i \in DOMAIN Parts(node) :
          Parts(node)[i] = slot \/ \E j \in DOMAIN Parts(before) : Parts(node)[i] = Parts(before)[j]
    BY <1>2, <1>3 DEF ItemsFrom
  <1>5. NeatNode(g, r)
    BY DEF NeatHeap
  <1>6. /\ Void \notin Slots(node)
        /\ RefsIn(Slots(node)) \subseteq RefsIn(Slots(g[r])) \cup RefsIn({slot})
    BY <1>4, <1>5, PartsNeat
  <1>7. NeatHeap([g EXCEPT ![r] = node])
    BY <1>3, <1>6, EditNeat
  <1> QED
    BY <1>7 DEF node

\* What is collected leaves the rest as neat as it was.
LEMMA CollectNeat ==
  ASSUME NEW g, HeapOK(g), NeatHeap(g), NEW slots, slots \subseteq Links(DOMAIN g)
  PROVE  NeatHeap(Collect(g, slots))
  <1> DEFINE k == Collect(g, slots)
  <1>1. \A r \in DOMAIN k : r \in DOMAIN g /\ k[r] = g[r]
    BY Collected
  <1> HIDE DEF k
  <1>2. Grounded(k)
    BY <1>1, FewerGrounded DEF NeatHeap
  <1> QED
    BY <1>1, <1>2 DEF NeatHeap, NeatNode, k

\* Normalising Void builds nothing.
LEMMA VoidNormal ==
  ASSUME NEW entry \in Entries
  PROVE  ~IsContainer(normalizeValueForSchema(Void, entry).value)
  <1> DEFINE N == Cardinality(DOMAIN Schema)
             norm == normalizeValueForSchema(Void, entry)
  <1>1. Void.kind = "void" /\ ~IsContainer(Void)
    BY DEF Void, Scalar, IsContainer
  <1>2. Void \in Trees
    <2>1. Void \in ScalarValues
      BY DEF ScalarValues
    <2> QED
      BY <2>1, ScalarsNest, DepthAssumption DEF Trees
  <1>3. Failure.value = Void /\ Normal(Void).value = Void
    BY DEF Failure, Normal
  <1>4. N \in Nat
    BY SchemaAssumption, FS_CardinalityType
  <1>5. norm = normalized[N][entry][Void]
    BY DEF normalizeValueForSchema
  <1> HIDE DEF N, norm
  <1>6. \A nested : normalizeGoverned(Void, Schema[entry], nested) \in {Failure, Normal(Void)}
    BY <1>1 DEF normalizeGoverned
  <1>7. norm = Failure \/ norm = Normal(Void)
    <2>1. CASE N = 0
      <3>1. normalized[0][entry][Void] = IF entry = NoEntry THEN Normal(Void) ELSE Failure
        BY <1>2, <1>4, NormalizedAt
      <3> QED
        BY <1>5, <2>1, <3>1
    <2>2. CASE N # 0
      <3>1. N - 1 \in Nat /\ N - 1 + 1 = N
        BY <1>4, <2>2
      <3>2. normalized[N - 1 + 1][entry][Void] =
              IF entry = NoEntry THEN Normal(Void)
              ELSE normalizeGoverned(Void, Schema[entry], normalized[N - 1])
        BY <1>2, <3>1, NormalizedAt
      <3> QED
        BY <1>5, <1>6, <3>1, <3>2
    <2> QED
      BY <2>1, <2>2
  <1> QED
    BY <1>1, <1>3, <1>7 DEF norm

\* What a client passes, when it is not Void, is shown whole.
LEMMA SeenNeat ==
  ASSUME DInv, NInv, NEW slot \in Links(DOMAIN heap), ~IsVoid(slot)
  PROVE  View(heap, slot) \in Neat /\ View(heap, slot) \in Trees
  <1>1. HeapOK(heap) /\ Grounded(heap) /\ \A r \in DOMAIN heap : NeatNode(heap, r)
    BY DEF DInv, DocOK, NInv, NeatHeap
  <1>2. Cardinality(DOMAIN heap) <= MaxDepth
    <2>1. Cardinality(DOMAIN heap) \in Nat
      BY <1>1, FS_CardinalityType DEF HeapOK
    <2> QED
      BY <2>1, BoundsAssumption, DepthAssumption DEF NInv
  <1> QED
    BY <1>1, <1>2, NeatView, ViewIsTree

\* And so is the rest; Void is shown as Void.
LEMMA ShownNeat ==
  ASSUME DInv, NInv, NEW slot \in Links(DOMAIN heap)
  PROVE  IsContainer(View(heap, slot)) => View(heap, slot) \in Neat
  <1>1. CASE IsVoid(slot)
    <2>1. ~IsContainer(slot) /\ ~IsRef(slot)
      BY <1>1 DEF IsVoid, IsContainer, IsRef
    <2>2. View(heap, slot) = slot
      BY <2>1, ViewIs DEF DInv, DocOK
    <2> QED
      BY <2>1, <2>2
  <1>2. CASE ~IsVoid(slot)
    BY <1>2, SeenNeat
  <1> QED
    BY <1>1, <1>2

-----------------------------------------------------------------------------
(* Heaps of valid nodes.                                                   *)

LEMMA StoreValid ==
  ASSUME NEW g, HeapOK(g), ValidHeap(g), NEW tree \in Trees, IsContainer(tree) => tree \in Neat,
         NEW attached \in BOOLEAN, NEW entry \in Entries, Accepted(tree, entry)
  PROVE  LET new  == Store(g, tree, attached, entry).heap
             slot == Store(g, tree, attached, entry).slot
         IN  ValidHeap(new) /\ (~IsRef(slot) => Accepted(slot, entry))
  <1> DEFINE new  == Store(g, tree, attached, entry).heap
             slot == Store(g, tree, attached, entry).slot
  <1>1. StoredIn(g, new, slot, tree, attached, entry)
    BY Stored
  <1>2. \A r \in DOMAIN new \ DOMAIN g : ValidNode(new, r)
    BY StoredValid
  <1> HIDE DEF new, slot
  <1>3. \A r \in DOMAIN g : new[r] = g[r]
    BY <1>1 DEF StoredIn, Added
  <1>4. \A r \in DOMAIN g : ValidNode(new, r)
    BY <1>3 DEF ValidHeap, ValidNode
  <1>5. ~IsRef(slot) => slot = tree
    BY <1>1 DEF StoredIn
  <1>6. ~IsRef(slot) => Accepted(slot, entry)
    BY <1>5
  <1> QED
    BY <1>2, <1>4, <1>6 DEF ValidHeap, new, slot

\* The edit of one node.
LEMMA EditValid ==
  ASSUME NEW g, ValidHeap(g), NEW r \in DOMAIN g, NEW node, node.entry = g[r].entry,
         node.entry # NoEntry => Fits(node, node.entry),
         node.entry # NoEntry =>
           \A i \in DOMAIN Parts(node) :
             ~IsRef(Parts(node)[i]) => Accepted(Parts(node)[i], PartEntry(node, i, node.entry))
  PROVE  ValidHeap([g EXCEPT ![r] = node])
  <1> DEFINE new == [g EXCEPT ![r] = node]
  <1>1. DOMAIN new = DOMAIN g /\ new[r] = node /\ \A q \in DOMAIN g : q # r => new[q] = g[q]
    OBVIOUS
  <1> HIDE DEF new
  <1>2. ValidNode(new, r)
    BY <1>1 DEF ValidNode
  <1>3. \A q \in DOMAIN g : q # r => ValidNode(new, q)
    BY <1>1 DEF ValidHeap, ValidNode
  <1> QED
    BY <1>1, <1>2, <1>3 DEF ValidHeap, new

\* The values among the fields are what the children accept.
FieldsAccept(fields, entry) ==
  \A i \in DOMAIN fields : ~IsRef(fields[i].value) =>
    Accepted(fields[i].value, ChildEntry(entry, fields[i].key))

\* A child's field stays where there was one, unless it may be missing.
ChildrenStay(new, old, entry) ==
  \A i \in DOMAIN Children(entry) : HasChild(old, entry, i) => HasChild(new, entry, i)

LEMMA FieldsValid ==
  ASSUME NEW g, HeapOK(g), ValidHeap(g), NEW r \in DOMAIN g, g[r].kind = "object",
         NEW fields \in Seq(FieldsOf(STRING, Links(DOMAIN g))),
         FieldsAccept(g[r].fields, g[r].entry) => FieldsAccept(fields, g[r].entry),
         g[r].entry # NoEntry => ChildrenStay(fields, g[r].fields, g[r].entry)
  PROVE  ValidHeap([g EXCEPT ![r].fields = fields])
  <1> DEFINE V == Links(DOMAIN g)
             before == g[r]
             node == [before EXCEPT !.fields = fields]
  <1>1. before \in NodesWith(V)
    BY DEF HeapOK
  <1>2. /\ before \in ObjectNodes(V) /\ DOMAIN Parts(before) = DOMAIN before.fields
        /\ Parts(before) = [i \in DOMAIN before.fields |-> before.fields[i].value]
    BY <1>1, NodeShape
  <1>3. /\ node.fields = fields /\ Parts(node) = ValuesIn(fields)
        /\ node.kind = before.kind /\ node.entry = before.entry
    BY <1>2, FieldsEdited
  <1>4. ValidNode(g, r)
    BY DEF ValidHeap
  <1>5. before.kind = "object" /\ before.kind # "array" /\ before = g[r]
    OBVIOUS
  <1> HIDE DEF node, V, before
  <1>6. ASSUME before.entry # NoEntry PROVE Fits(node, before.entry)
    <2>1. Fits(before, before.entry) /\ ChildrenStay(fields, before.fields, before.entry)
      BY <1>4, <1>5, <1>6 DEF ValidNode
    <2> QED
      BY <1>3, <1>5, <2>1, Zenon DEF Fits, ChildrenStay
  <1>7. ASSUME before.entry # NoEntry
        PROVE  \A i \in DOMAIN Parts(node) :
                 ~IsRef(Parts(node)[i]) => Accepted(Parts(node)[i], PartEntry(node, i, before.entry))
    <2>1. \A i \in DOMAIN Parts(before) :
            ~IsRef(Parts(before)[i]) => Accepted(Parts(before)[i], PartEntry(before, i, before.entry))
      BY <1>4, <1>5, <1>7 DEF ValidNode
    <2>2. \A i \in DOMAIN before.fields :
            /\ Parts(before)[i] = before.fields[i].value
            /\ PartEntry(before, i, before.entry) = ChildEntry(before.entry, before.fields[i].key)
      BY <1>2, <1>5 DEF PartEntry
    <2>3. FieldsAccept(before.fields, before.entry)
      BY <1>2, <2>1, <2>2, Zenon DEF FieldsAccept
    <2>4. FieldsAccept(fields, before.entry)
      BY <1>5, <2>3
    <2>5. DOMAIN Parts(node) = DOMAIN fields /\ \A i \in DOMAIN fields :
            /\ Parts(node)[i] = fields[i].value
            /\ PartEntry(node, i, before.entry) = ChildEntry(before.entry, fields[i].key)
      BY <1>3, <1>5 DEF PartEntry, ValuesIn
    <2> QED
      BY <2>4, <2>5, Zenon DEF FieldsAccept
  <1>8. ValidHeap([g EXCEPT ![r] = node])
    BY <1>3, <1>5, <1>6, <1>7, EditValid
  <1> QED
    BY <1>5, <1>8 DEF node

\* The values among the items are what the entry of the items accepts.
ItemsAccept(items, entry) ==
  \A i \in DOMAIN items : ~IsRef(items[i]) => Accepted(items[i], ItemEntry(entry))

LEMMA ItemsValid ==
  ASSUME NEW g, HeapOK(g), ValidHeap(g), NEW r \in DOMAIN g, g[r].kind = "array",
         NEW items \in Seq(Links(DOMAIN g)),
         ItemsAccept(g[r].items, g[r].entry) => ItemsAccept(items, g[r].entry)
  PROVE  ValidHeap([g EXCEPT ![r].items = items])
  <1> DEFINE V == Links(DOMAIN g)
             before == g[r]
             node == [before EXCEPT !.items = items]
  <1>1. before \in NodesWith(V)
    BY DEF HeapOK
  <1>2. before \in ArrayNodes(V) /\ Parts(before) = before.items
    BY <1>1, NodeShape
  <1>3. /\ Parts(node) = items /\ node.kind = before.kind /\ node.entry = before.entry
    BY <1>2, ItemsEdited
  <1>4. ValidNode(g, r)
    BY DEF ValidHeap
  <1>5. before.kind = "array" /\ before.kind # "object" /\ before = g[r]
    BY Zenon
  <1> HIDE DEF node, V, before
  <1>6. ASSUME before.entry # NoEntry PROVE Fits(node, before.entry)
    <2>1. Fits(before, before.entry)
      BY <1>4, <1>5, <1>6 DEF ValidNode
    <2> QED
      BY <1>3, <1>5, <2>1, Zenon DEF Fits
  <1>7. ASSUME before.entry # NoEntry
        PROVE  \A i \in DOMAIN Parts(node) :
                 ~IsRef(Parts(node)[i]) => Accepted(Parts(node)[i], PartEntry(node, i, before.entry))
    <2>1. \A i \in DOMAIN Parts(before) :
            ~IsRef(Parts(before)[i]) => Accepted(Parts(before)[i], PartEntry(before, i, before.entry))
      BY <1>4, <1>5, <1>7 DEF ValidNode
    <2>2. \A i : /\ PartEntry(before, i, before.entry) = ItemEntry(before.entry)
                 /\ PartEntry(node, i, before.entry) = ItemEntry(before.entry)
      BY <1>3, <1>5 DEF PartEntry
    <2>3. ItemsAccept(before.items, before.entry)
      BY <1>2, <2>1, <2>2, Zenon DEF ItemsAccept
    <2>4. ItemsAccept(items, before.entry)
      BY <1>5, <2>3
    <2> QED
      BY <1>3, <2>2, <2>4, Zenon DEF ItemsAccept
  <1>8. ValidHeap([g EXCEPT ![r] = node])
    BY <1>3, <1>5, <1>6, <1>7, EditValid
  <1> QED
    BY <1>5, <1>8 DEF node

LEMMA CollectValid ==
  ASSUME NEW g, HeapOK(g), ValidHeap(g), NEW slots, slots \subseteq Links(DOMAIN g)
  PROVE  ValidHeap(Collect(g, slots))
  <1> DEFINE k == Collect(g, slots)
  <1>1. \A r \in DOMAIN k : r \in DOMAIN g /\ k[r] = g[r]
    BY Collected
  <1> HIDE DEF k
  <1> QED
    BY <1>1 DEF ValidHeap, ValidNode, k

\* What normalises is accepted then.
LEMMA NormalAccepted ==
  ASSUME NEW value \in Trees, NEW entry \in Entries,
         normalizeValueForSchema(value, entry).ok,
         normalizeValueForSchema(value, entry).value \in Trees
  PROVE  Accepted(normalizeValueForSchema(value, entry).value, entry)
  <1> DEFINE again == normalizeValueForSchema(normalizeValueForSchema(value, entry).value, entry)
  <1>1. again = Normal(normalizeValueForSchema(value, entry).value)
    BY NormalIsStable
  <1>2. again.ok
    BY <1>1, NormalIs
  <1> QED
    BY <1>2, Zenon DEF Accepted

\* AlwaysValid, of one slot.
LEMMA SeenValid ==
  ASSUME DInv, VInv, NEW slot \in Links(DOMAIN heap)
  PROVE  Accepted(View(heap, slot), EntryOf(heap, slot))
  <1>1. /\ HeapOK(heap) /\ Grounded(heap)
        /\ \A r \in DOMAIN heap : GovernedNode(heap, r) /\ NeatNode(heap, r) /\ ValidNode(heap, r)
    BY DEF DInv, DocOK, VInv, NInv, NeatHeap, ValidHeap
  <1>2. Cardinality(DOMAIN heap) <= MaxDepth
    <2>1. Cardinality(DOMAIN heap) \in Nat
      BY <1>1, FS_CardinalityType DEF HeapOK
    <2> QED
      BY <2>1, BoundsAssumption, DepthAssumption DEF VInv, NInv
  <1>3. View(heap, slot) \in Trees
    BY <1>1, ViewIsTree
  <1>4. CASE EntryOf(heap, slot) = NoEntry
    BY <1>3, <1>4, NoEntryAccepts
  <1>5. CASE EntryOf(heap, slot) # NoEntry
    <2>1. IsRef(slot)
      BY <1>5 DEF EntryOf
    <2>2. slot.ref \in DOMAIN heap /\ slot = Ref(slot.ref)
      <3> DEFINE D == DOMAIN heap
      <3> HIDE DEF D
      <3>1. slot \in Links(D)
        BY DEF D
      <3>2. slot.ref \in D /\ slot = Ref(slot.ref)
        BY <2>1, <3>1, LinkOrScalar
      <3> QED
        BY <3>2 DEF D
    <2>3. EntryOf(heap, slot) = heap[slot.ref].entry
      BY <2>1 DEF EntryOf
    <2> DEFINE r == slot.ref
    <2>4. Accepted(View(heap, Ref(r)), heap[r].entry)
      BY <1>1, <1>2, <1>5, <2>2, <2>3, ValidView
    <2> QED
      BY <2>2, <2>3, <2>4
  <1> QED
    BY <1>4, <1>5

\* A field that is not required may be missing.
LEMMA OptionalMisses ==
  ASSUME OptionalDefaults, NEW child \in DOMAIN Schema, ~Schema[child].required
  PROVE  MayMiss(child)
  <1>1. CASE IsVoid(Schema[child].default)
    BY <1>1, Zenon DEF MayMiss
  <1>2. CASE ~IsVoid(Schema[child].default)
    BY <1>2, Zenon DEF MayMiss, OptionalDefaults, Accepted
  <1> QED
    BY <1>1, <1>2

-----------------------------------------------------------------------------
(* How a call ends.                                                        *)

StepOK == SameSchemas(heap, heap') /\ NoNewWay(heap, heap')

CallOK == DInv' /\ StepOK /\ (NInv => NInv') /\ (VInv => VInv')

LEMMA CollectKeeps ==
  ASSUME NEW old, NEW new, Grows(old, new), NEW slots, slots \subseteq Links(DOMAIN new)
  PROVE  LET k == Collect(new, slots)
         IN  /\ DocOK(k) /\ SameSchemas(old, k) /\ NoNewWay(old, k)
             /\ slots \subseteq Links(DOMAIN k) /\ DOMAIN k = Reach(k, slots)
  <1> DEFINE k == Collect(new, slots)
  <1>1. HeapOK(new) /\ DocOK(new)
    BY DEF Grows, DocOK
  <1>2. /\ HeapOK(k) /\ \A r \in DOMAIN k : r \in DOMAIN new /\ k[r] = new[r]
        /\ slots \subseteq Links(DOMAIN k) /\ DOMAIN k = Reach(k, slots)
    BY <1>1, Collected
  <1> HIDE DEF k
  <1>3. ASSUME NEW r \in DOMAIN k
        PROVE  /\ OrderedNode(k, r) /\ GovernedNode(k, r)
               /\ k[r].entry # NoEntry => k[r].schema
    <2>1. /\ OrderedNode(new, r) /\ GovernedNode(new, r)
          /\ new[r].entry # NoEntry => new[r].schema
      BY <1>1, <1>2 DEF DocOK
    <2>2. k[r] = new[r]
      BY <1>2
    <2>3. \A i \in DOMAIN Parts(k[r]) :
            IsRef(Parts(k[r])[i]) => k[Parts(k[r])[i].ref] = new[Parts(k[r])[i].ref]
      BY <1>2, PartLinks
    <2> QED
      BY <2>1, <2>2, <2>3 DEF OrderedNode, GovernedNode
  <1>4. SameSchemas(old, k)
    BY <1>2 DEF Grows, SameSchemas
  <1>5. NoNewWay(old, k)
    <2>1. \A r \in DOMAIN k : \A i : GovernedPart(k, r, i) => GovernedPart(new, r, i)
      BY <1>2 DEF GovernedPart
    <2> QED
      BY <1>2, <2>1 DEF Grows, NoNewWay
  <1>6. DocOK(k)
    BY <1>2, <1>3 DEF DocOK
  <1> QED
    BY <1>2, <1>4, <1>5, <1>6 DEF k

LEMMA ReturnsKeeps ==
  ASSUME DInv, NEW new, Grows(heap, new), NEW slot \in Links(DOMAIN new), NEW g \in Handles,
         Returns(new, g, slot), NInv => NeatHeap(new), VInv => ValidHeap(new)
  PROVE  CallOK
  <1> DEFINE result == IF IsRef(slot) THEN slot ELSE Void
             N == DOMAIN new
  <1>1. /\ hand' = [hand EXCEPT ![g] = result] /\ heap' = Collect(new, Range(hand'))
        /\ Cardinality(DOMAIN heap') <= MaxNodes
    BY DEF Returns, WithinBounds
  <1>2. result \in Links(N) /\ (IsRef(result) \/ IsVoid(result))
    BY VoidLinks
  <1>3. hand \in [Handles -> Links(N)]
    <2>1. Links(DOMAIN heap) \subseteq Links(N)
      BY LinksWithin DEF Grows
    <2> QED
      BY <2>1 DEF DInv
  <1> HIDE DEF result, N
  <1>4. hand' \in [Handles -> Links(N)] /\ \A h \in Handles : IsRef(hand'[h]) \/ IsVoid(hand'[h])
    BY <1>1, <1>2, <1>3 DEF DInv
  <1>5. Range(hand') \subseteq Links(N)
    BY <1>4 DEF Range
  <1>6. /\ DocOK(heap') /\ StepOK
        /\ Range(hand') \subseteq Links(DOMAIN heap') /\ DOMAIN heap' = Reach(heap', Range(hand'))
    BY <1>1, <1>5, CollectKeeps DEF N, StepOK
  <1>7. hand' \in [Handles -> Links(DOMAIN heap')]
    BY <1>4, <1>6 DEF Range
  <1>8. NInv => NeatHeap(Collect(new, Range(hand')))
    BY <1>5, CollectNeat DEF N, Grows, DocOK
  <1>9. NInv => NInv'
    BY <1>1, <1>8 DEF NInv, NeatHeap, NeatNode, Grounded
  <1>10. VInv => ValidHeap(Collect(new, Range(hand')))
    BY <1>5, CollectValid DEF N, Grows, DocOK
  <1>11. VInv => VInv'
    BY <1>1, <1>9, <1>10 DEF VInv, ValidHeap, ValidNode
  <1> QED
    BY <1>4, <1>6, <1>7, <1>9, <1>11 DEF DInv, CallOK

LEMMA MutatesKeeps ==
  ASSUME DInv, NEW new, Grows(heap, new), Mutates(new), NInv => NeatHeap(new),
         VInv => ValidHeap(new)
  PROVE  CallOK
  <1>1. /\ hand' = hand /\ heap' = Collect(new, Range(hand))
        /\ Cardinality(DOMAIN heap') <= MaxNodes
    BY DEF Mutates, WithinBounds
  <1>2. Range(hand) \subseteq Links(DOMAIN new)
    <2>1. Links(DOMAIN heap) \subseteq Links(DOMAIN new)
      BY LinksWithin DEF Grows
    <2> QED
      BY <2>1 DEF DInv, Range
  <1>3. /\ DocOK(heap') /\ StepOK
        /\ Range(hand) \subseteq Links(DOMAIN heap') /\ DOMAIN heap' = Reach(heap', Range(hand))
    BY <1>1, <1>2, CollectKeeps DEF StepOK
  <1>4. hand' \in [Handles -> Links(DOMAIN heap')]
    BY <1>1, <1>3 DEF DInv, Range
  <1>5. NInv => NeatHeap(Collect(new, Range(hand)))
    BY <1>2, CollectNeat DEF Grows, DocOK
  <1>6. NInv => NInv'
    BY <1>1, <1>5 DEF NInv, NeatHeap, NeatNode, Grounded
  <1>7. VInv => ValidHeap(Collect(new, Range(hand)))
    BY <1>2, CollectValid DEF Grows, DocOK
  <1>8. VInv => VInv'
    BY <1>1, <1>6, <1>7 DEF VInv, ValidHeap, ValidNode
  <1> QED
    BY <1>1, <1>3, <1>4, <1>6, <1>8 DEF DInv, CallOK

-----------------------------------------------------------------------------
(* The calls.                                                              *)

LEMMA HandAt ==
  ASSUME DInv, NEW h \in Handles
  PROVE  /\ hand[h] \in Links(DOMAIN heap) /\ DocOK(heap) /\ HeapOK(heap)
         /\ EntryOf(heap, hand[h]) \in Entries /\ HasSchema(heap, hand[h]) \in BOOLEAN
         /\ EntryOf(heap, hand[h]) # NoEntry => HasSchema(heap, hand[h])
         /\ IsObject(heap, hand[h]) \/ IsArray(heap, hand[h]) =>
              /\ IsRef(hand[h]) /\ hand[h].ref \in DOMAIN heap
              /\ NodeAt(h) = heap[hand[h].ref]
              /\ NodeAt(h) \in NodesWith(Links(DOMAIN heap))
              /\ NodeAt(h).entry \in Entries /\ NodeAt(h).schema \in BOOLEAN
              /\ NodeAt(h).entry # NoEntry => NodeAt(h).schema
         /\ IsObject(heap, hand[h]) =>
              /\ NodeAt(h).kind = "object" /\ Ordered(NodeAt(h).fields, NodeAt(h).entry)
              /\ NodeAt(h).fields \in Seq(FieldsOf(STRING, Links(DOMAIN heap)))
         /\ IsArray(heap, hand[h]) =>
              NodeAt(h).kind = "array" /\ NodeAt(h).items \in Seq(Links(DOMAIN heap))
  <1> DEFINE D == DOMAIN heap
  <1>1. /\ DocOK(heap) /\ HeapOK(heap) /\ heap \in [D -> NodesWith(Links(D))]
        /\ hand[h] \in Links(D) /\ (IsRef(hand[h]) \/ IsVoid(hand[h]))
    BY DEF DInv, DocOK, HeapOK
  <1>2. CASE ~IsRef(hand[h])
    <2>1. ~IsContainer(hand[h])
      BY <1>1, <1>2 DEF IsVoid, IsContainer
    <2>2. ~IsObject(heap, hand[h]) /\ ~IsArray(heap, hand[h])
      BY <1>2, <2>1 DEF IsObject, IsArray, KindOf, IsContainer
    <2>3. EntryOf(heap, hand[h]) = NoEntry /\ HasSchema(heap, hand[h]) = FALSE
      BY <1>2 DEF EntryOf, HasSchema
    <2> QED
      BY <1>1, <2>2, <2>3, EntriesBelow
  <1>3. CASE IsRef(hand[h])
    <2> DEFINE r == hand[h].ref
    <2>1. r \in D
      <3> HIDE DEF D
      <3> QED
        BY <1>1, <1>3, LinkOrScalar
    <2>2. NodeAt(h) = heap[r] /\ heap[r] \in NodesWith(Links(D))
      BY <1>1, <2>1 DEF NodeAt
    <2>3. OrderedNode(heap, r) /\ (heap[r].entry # NoEntry => heap[r].schema)
      BY <1>1, <2>1 DEF DocOK
    <2>4. /\ heap[r].schema \in BOOLEAN /\ heap[r].entry \in Entries
          /\ heap[r].kind = "object" => heap[r].fields \in Seq(FieldsOf(STRING, Links(D)))
          /\ heap[r].kind = "array" => heap[r].items \in Seq(Links(D))
      BY <2>2, NodeShape
    <2>5. /\ IsObject(heap, hand[h]) => heap[r].kind = "object"
          /\ IsArray(heap, hand[h]) => heap[r].kind = "array"
          /\ EntryOf(heap, hand[h]) = heap[r].entry
      BY <1>3, <2>4 DEF IsObject, IsArray, KindOf, EntryOf
    <2>6. HasSchema(heap, hand[h]) <=> heap[r].schema
      BY <1>3, Zenon DEF HasSchema
    <2>7. HasSchema(heap, hand[h]) \in BOOLEAN
      BY Zenon DEF HasSchema
    <2>8. heap[r].entry # NoEntry => HasSchema(heap, hand[h])
      BY <2>3, <2>6, Zenon
    <2> DEFINE node == heap[r]
    <2>9. NodeAt(h) = node
      BY <2>2
    <2>10. node.entry # NoEntry => node.schema
      BY <2>3
    <2>11. node.kind = "object" => Ordered(node.fields, node.entry)
      BY <2>3 DEF OrderedNode
    <2>12. IsObject(heap, hand[h]) => /\ NodeAt(h).kind = "object"
                                      /\ Ordered(NodeAt(h).fields, NodeAt(h).entry)
      BY <2>5, <2>9, <2>11
    <2> HIDE DEF node
    <2>13. NodeAt(h).entry # NoEntry => NodeAt(h).schema
      BY <2>9, <2>10, Zenon
    <2> USE DEF node
    <2>14. IsObject(heap, hand[h]) =>
             NodeAt(h).fields \in Seq(FieldsOf(STRING, Links(DOMAIN heap)))
      BY <2>4, <2>5, <2>9
    <2>15. IsArray(heap, hand[h]) =>
             NodeAt(h).kind = "array" /\ NodeAt(h).items \in Seq(Links(DOMAIN heap))
      BY <2>4, <2>5, <2>9
    <2>16. NodeAt(h).entry \in Entries /\ NodeAt(h).schema \in BOOLEAN
      BY <2>4, <2>9
    <2> HIDE DEF node
    <2> QED
      BY <1>1, <1>3, <2>1, <2>2, <2>4, <2>5, <2>7, <2>8, <2>12, <2>13, <2>14, <2>15, <2>16, Zenon
  <1> QED
    BY <1>2, <1>3

LEMMA ArgumentLinks ==
  ASSUME DInv, NEW arg \in Arguments PROVE arg \in Links(DOMAIN heap)
  BY ClientAssumption DEF Arguments, DInv, Links

LEMMA EmptyNeat ==
  ASSUME NEW tree \in {Object(<<>>), Array(<<>>)}, tree \in Trees PROVE tree \in Neat
  <1>1. tree \in AllTrees
    BY DepthAssumption DEF Trees, AllTrees
  <1>2. DOMAIN Parts(tree) = {} /\ ~IsVoid(tree) /\ (tree.kind = "object" => tree.fields = <<>>)
    BY DEF Object, Array, Parts, IsVoid
  <1>3. NeatTop(tree)
    BY <1>2 DEF NeatTop, Distinct
  <1> QED
    BY <1>1, <1>2, <1>3, NeatAround

LEMMA NewKeeps ==
  ASSUME DInv, NEW g \in Handles, NEW tree \in {Object(<<>>), Array(<<>>)},
         Returns(Store(heap, tree, FALSE, NoEntry).heap, g, Store(heap, tree, FALSE, NoEntry).slot)
  PROVE  CallOK
  <1>1. tree \in Trees
    <2>1. MaxDepth # 0 /\ MaxDepth - 1 \in Nat
      BY BoundsAssumption, DepthAssumption
    <2>2. Nested[MaxDepth] = Around(Nested[MaxDepth - 1])
      BY <2>1, DepthAssumption, NestedIs
    <2>3. Object(<<>>) \in ObjectsOf(Nested[MaxDepth - 1]) /\ Array(<<>>) \in ArraysOf(Nested[MaxDepth - 1])
      BY DEF Object, Array, ObjectsOf, ArraysOf
    <2> QED
      BY <2>2, <2>3 DEF Around, Trees
  <1>2. InOrder(tree, NoEntry)
    BY <1>1, NoEntryInOrder, DepthAssumption DEF Trees
  <1>3. FALSE \in BOOLEAN /\ NoEntry \in Entries
    BY EntriesBelow
  <1>4. /\ Grows(heap, Store(heap, tree, FALSE, NoEntry).heap)
        /\ Store(heap, tree, FALSE, NoEntry).slot \in Links(DOMAIN Store(heap, tree, FALSE, NoEntry).heap)
    BY <1>1, <1>2, <1>3, StoreGrows DEF DInv
  <1>5. NInv => NeatHeap(Store(heap, tree, FALSE, NoEntry).heap)
    <2>1. tree \in Neat
      BY <1>1, EmptyNeat
    <2> QED
      BY <1>1, <1>3, <2>1, StoreNeat DEF NInv, DInv, DocOK
  <1>6. VInv => ValidHeap(Store(heap, tree, FALSE, NoEntry).heap)
    <2>1. tree \in Neat /\ Accepted(tree, NoEntry)
      BY <1>1, EmptyNeat, NoEntryAccepts
    <2> QED
      BY <1>1, <1>3, <2>1, StoreValid DEF VInv, DInv, DocOK
  <1> QED
    BY <1>4, <1>5, <1>6, ReturnsKeeps

LEMMA GetTryKeeps ==
  ASSUME DInv, NEW h \in Handles, NEW key \in Keys, NEW g \in Handles, GetTry(h, key, g)
  PROVE  CallOK
  <1> DEFINE V == Links(DOMAIN heap)
             found == GetField(NodeAt(h).fields, key)
  <1>1. IsObject(heap, hand[h]) /\ Returns(heap, g, found)
    BY DEF GetTry
  <1>2. NodeAt(h).fields \in Seq(FieldsOf(STRING, V)) /\ DocOK(heap)
    BY <1>1, HandAt
  <1>3. found \in V
    <2>1. Void \in V
      BY VoidLinks
    <2> HIDE DEF V
    <2> QED
      BY <1>2, <2>1, GetFieldIn
  <1> QED
    BY <1>1, <1>2, <1>3, GrowsItself, ReturnsKeeps DEF NInv, VInv

LEMMA AtTryKeeps ==
  ASSUME DInv, NEW h \in Handles, NEW i, NEW g \in Handles, AtTry(h, i, g)
  PROVE  CallOK
  <1>1. IsArray(heap, hand[h]) /\ Returns(heap, g, NodeAt(h).items[i]) /\ i \in DOMAIN NodeAt(h).items
    BY DEF AtTry
  <1>2. NodeAt(h).items \in Seq(Links(DOMAIN heap)) /\ DocOK(heap)
    BY <1>1, HandAt
  <1>3. NodeAt(h).items[i] \in Links(DOMAIN heap)
    BY <1>1, <1>2
  <1> QED
    BY <1>1, <1>2, <1>3, GrowsItself, ReturnsKeeps DEF NInv, VInv

\* A slot that an entry governs belongs to a node that has the schema.
LEMMA SlotOfNode ==
  ASSUME DInv, NEW h \in Handles, IsObject(heap, hand[h]) \/ IsArray(heap, hand[h]),
         NEW arg \in Arguments, NEW entry \in Entries,
         entry # NoEntry => NodeAt(h).entry # NoEntry, ForSlot(h, arg, entry).ok
  PROVE  LET new == ForSlot(h, arg, entry)
             r   == hand[h].ref
         IN  /\ Grows(heap, new.heap) /\ r \in DOMAIN heap /\ new.heap[r] = heap[r]
             /\ NodeAt(h) = heap[r] /\ heap[r] \in NodesWith(Links(DOMAIN new.heap))
             /\ new.slot \in Links(DOMAIN new.heap)
             /\ Placed(heap, new.heap, new.slot, entry)
  <1> DEFINE new == ForSlot(h, arg, entry)
             r   == hand[h].ref
  <1>1. /\ DocOK(heap) /\ r \in DOMAIN heap /\ NodeAt(h).schema \in BOOLEAN
        /\ NodeAt(h) = heap[r] /\ (NodeAt(h).entry # NoEntry => NodeAt(h).schema)
        /\ arg \in Links(DOMAIN heap)
    BY HandAt, ArgumentLinks
  <1>2. /\ Grows(heap, new.heap) /\ \A q \in DOMAIN heap : new.heap[q] = heap[q]
        /\ new.slot \in Links(DOMAIN new.heap)
        /\ Placed(heap, new.heap, new.slot, entry)
    BY <1>1, ForSlotGrows
  <1> HIDE DEF new, r
  <1>3. new.heap[r] \in NodesWith(Links(DOMAIN new.heap))
    BY <1>1, <1>2 DEF Grows, DocOK, HeapOK
  <1> QED
    BY <1>1, <1>2, <1>3 DEF new, r

LEMMA ForSlotNeat ==
  ASSUME DInv, NInv, NEW h \in Handles, IsObject(heap, hand[h]) \/ IsArray(heap, hand[h]),
         NEW arg \in Arguments, ~IsVoid(arg), NEW entry \in Entries,
         entry # NoEntry => NodeAt(h).entry # NoEntry,
         Acyclic(h, arg, entry), ForSlot(h, arg, entry).ok
  PROVE  LET new == ForSlot(h, arg, entry)
         IN  /\ HeapOK(new.heap) /\ NeatHeap(new.heap)
             /\ ~IsVoid(new.slot) /\ hand[h].ref \notin Own(new.heap, new.slot)
  <1> DEFINE new == ForSlot(h, arg, entry)
             r   == hand[h].ref
  <1>1. HeapOK(heap) /\ r \in DOMAIN heap /\ NodeAt(h).schema \in BOOLEAN /\ NeatHeap(heap)
    BY HandAt DEF NInv
  <1>2. CASE entry = NoEntry
    <2>1. new = [ok |-> TRUE, heap |-> heap, slot |-> arg]
      BY <1>2 DEF ForSlot
    <2>2. new.heap = heap /\ new.slot = arg
      BY <2>1
    <2>3. r \notin Own(heap, arg)
      BY <1>2 DEF Acyclic, Own
    <2> HIDE DEF new
    <2> QED
      BY <1>1, <2>2, <2>3 DEF new
  <1>3. CASE entry # NoEntry
    <2> DEFINE norm == normalizeValueForSchema(View(heap, arg), entry)
               st   == Store(heap, norm.value, NodeAt(h).schema, entry)
    <2>1. new = IF norm.ok /\ norm.value \in Trees
                  THEN [ok |-> TRUE, heap |-> st.heap, slot |-> st.slot]
                  ELSE [ok |-> FALSE, heap |-> heap, slot |-> Void]
      BY <1>3 DEF ForSlot
    <2>2. new.ok
      OBVIOUS
    <2> HIDE DEF new, norm, st
    <2>3. norm.ok /\ norm.value \in Trees
      BY <2>1, <2>2
    <2>4. new.heap = st.heap /\ new.slot = st.slot
      BY <2>1, <2>3
    <2>5. norm.value \in Neat
      <3>1. arg \in Links(DOMAIN heap)
        BY ArgumentLinks
      <3>2. View(heap, arg) \in Neat /\ View(heap, arg) \in Trees
        BY <3>1, SeenNeat
      <3> QED
        BY <2>3, <3>2, NormalNeat DEF norm
    <2>6. /\ HeapOK(st.heap) /\ NeatHeap(st.heap) /\ ~IsVoid(st.slot)
          /\ r \notin Own(st.heap, st.slot)
      BY <1>1, <2>3, <2>5, StoreNeat DEF st
    <2> QED
      BY <2>4, <2>6 DEF new
  <1> QED
    BY <1>2, <1>3

LEMMA ForSlotValid ==
  ASSUME DInv, VInv, NEW h \in Handles, IsObject(heap, hand[h]) \/ IsArray(heap, hand[h]),
         NEW arg \in Arguments, ~IsVoid(arg), NEW entry \in Entries,
         ForSlot(h, arg, entry).ok
  PROVE  LET new == ForSlot(h, arg, entry)
         IN  ValidHeap(new.heap) /\ (~IsRef(new.slot) => Accepted(new.slot, entry))
  <1> DEFINE new == ForSlot(h, arg, entry)
  <1>1. HeapOK(heap) /\ NodeAt(h).schema \in BOOLEAN /\ ValidHeap(heap) /\ NInv
    BY HandAt DEF VInv
  <1>2. arg \in Links(DOMAIN heap)
    BY ArgumentLinks
  <1>3. CASE entry = NoEntry
    <2>1. new = [ok |-> TRUE, heap |-> heap, slot |-> arg]
      BY <1>3 DEF ForSlot
    <2>2. new.heap = heap /\ new.slot = arg
      BY <2>1
    <2>3. ~IsRef(arg) => Accepted(arg, NoEntry)
      <3>1. ~IsRef(arg) => arg \in Trees
        BY <1>2, LinkOrScalar, ScalarsNest, DepthAssumption DEF Trees
      <3> QED
        BY <3>1, NoEntryAccepts
    <2> HIDE DEF new
    <2>4. ValidHeap(new.heap) /\ (~IsRef(new.slot) => Accepted(new.slot, entry))
      BY <1>1, <1>3, <2>2, <2>3
    <2> QED
      BY <2>4 DEF new
  <1>4. CASE entry # NoEntry
    <2> DEFINE norm == normalizeValueForSchema(View(heap, arg), entry)
               st   == Store(heap, norm.value, NodeAt(h).schema, entry)
    <2>1. new = IF norm.ok /\ norm.value \in Trees
                  THEN [ok |-> TRUE, heap |-> st.heap, slot |-> st.slot]
                  ELSE [ok |-> FALSE, heap |-> heap, slot |-> Void]
      BY <1>4 DEF ForSlot
    <2>2. new.ok
      OBVIOUS
    <2> HIDE DEF new, norm, st
    <2>3. norm.ok /\ norm.value \in Trees
      BY <2>1, <2>2
    <2>4. new.heap = st.heap /\ new.slot = st.slot
      BY <2>1, <2>3
    <2>5. View(heap, arg) \in Neat /\ View(heap, arg) \in Trees
      BY <1>1, <1>2, SeenNeat
    <2>6. norm.value \in Neat
      BY <2>3, <2>5, NormalNeat DEF norm
    <2>7. Accepted(norm.value, entry)
      BY <2>3, <2>5, NormalAccepted DEF norm
    <2>8. ValidHeap(st.heap) /\ (~IsRef(st.slot) => Accepted(st.slot, entry))
      BY <1>1, <2>3, <2>6, <2>7, StoreValid DEF st
    <2> QED
      BY <2>4, <2>8 DEF new
  <1> QED
    BY <1>3, <1>4

\* A field that is set is what its child accepts, and the others are there still.
LEMMA SetAccepts ==
  ASSUME NEW fields, NEW old, NEW key, NEW slot, NEW entry \in Entries,
         FieldsFrom(fields, old, Field(key, slot)), KeysOf(old) \subseteq KeysOf(fields),
         ~IsRef(slot) => Accepted(slot, ChildEntry(entry, key))
  PROVE  /\ FieldsAccept(old, entry) => FieldsAccept(fields, entry)
         /\ ChildrenStay(fields, old, entry)
  <1>1. ASSUME FieldsAccept(old, entry) PROVE FieldsAccept(fields, entry)
    <2> SUFFICES ASSUME NEW i \in DOMAIN fields, ~IsRef(fields[i].value)
                 PROVE  Accepted(fields[i].value, ChildEntry(entry, fields[i].key))
      BY DEF FieldsAccept
    <2>1. CASE fields[i] = Field(key, slot)
      <3>1. fields[i].key = key /\ fields[i].value = slot
        BY <2>1 DEF Field
      <3> QED
        BY <3>1
    <2>2. CASE \E j \in DOMAIN old : fields[i] = old[j]
      BY <1>1, <2>2 DEF FieldsAccept
    <2> QED
      BY <2>1, <2>2 DEF FieldsFrom
  <1>2. ChildrenStay(fields, old, entry)
    BY Zenon DEF ChildrenStay, HasChild
  <1> QED
    BY <1>1, <1>2

LEMMA SetTryKeeps ==
  ASSUME DInv, NEW h \in Handles, NEW key \in Keys, NEW arg \in Arguments, SetTry(h, key, arg)
  PROVE  CallOK
  <1> DEFINE entry == ChildEntry(NodeAt(h).entry, key)
             new   == ForSlot(h, arg, entry)
             r     == hand[h].ref
             V     == Links(DOMAIN new.heap)
             extra == Field(key, new.slot)
             fields1 == setField(new.heap[r].fields, key, new.slot)
             fields2 == reorderObjectFieldsBySchema(fields1, NodeAt(h).entry)
  <1>1. /\ IsObject(heap, hand[h]) /\ ~IsVoid(arg) /\ Acyclic(h, arg, entry) /\ new.ok
        /\ Mutates([new.heap EXCEPT ![r].fields =
                      reorderObjectFieldsBySchema(setField(@, key, new.slot), NodeAt(h).entry)])
    BY DEF SetTry
  <1>2. Mutates([new.heap EXCEPT ![r].fields = fields2])
    BY <1>1
  <1>3. NodeAt(h).entry \in Entries /\ NodeAt(h).kind = "object" /\ key \in STRING
    BY <1>1, HandAt, ClientAssumption
  <1>4. entry \in Entries /\ (entry # NoEntry => NodeAt(h).entry # NoEntry)
    BY <1>3, EntriesBelow
  <1> HIDE DEF entry
  <1>5. /\ Grows(heap, new.heap) /\ r \in DOMAIN heap /\ new.heap[r] = heap[r]
        /\ NodeAt(h) = heap[r] /\ heap[r] \in NodesWith(V)
        /\ new.slot \in V /\ Placed(heap, new.heap, new.slot, entry)
    BY <1>1, <1>4, SlotOfNode
  <1>6. NInv => /\ HeapOK(new.heap) /\ NeatHeap(new.heap)
                /\ ~IsVoid(new.slot) /\ r \notin Own(new.heap, new.slot)
    BY <1>1, <1>4, ForSlotNeat
  <1> HIDE DEF new, r, V, fields1, fields2
  <1>7. /\ new.heap[r].fields \in Seq(FieldsOf(STRING, V)) /\ new.heap[r].kind = "object"
        /\ r \in DOMAIN new.heap
    BY <1>3, <1>5, NodeShape DEF Grows
  <1>8. NInv => Distinct(new.heap[r].fields)
    BY <1>6, <1>7 DEF NeatHeap, NeatNode
  <1>9. /\ fields1 \in Seq(FieldsOf(STRING, V)) /\ (NInv => Distinct(fields1))
        /\ FieldsFrom(fields1, new.heap[r].fields, extra)
    BY <1>3, <1>5, <1>7, <1>8, SetFieldFrom, SetFieldKeepsTheOthers DEF fields1
  <1>10. /\ fields2 \in Seq(FieldsOf(STRING, V)) /\ (NInv => Distinct(fields2))
         /\ Ordered(fields2, NodeAt(h).entry) /\ FieldsFrom(fields2, fields1, extra)
    <2>1. Void \in V
      BY VoidLinks DEF V
    <2> QED
      BY <1>3, <1>9, <2>1, ReorderIs DEF fields2
  <1>11. FieldsFrom(fields2, new.heap[r].fields, extra)
    BY <1>9, <1>10 DEF FieldsFrom
  <1>12. NInv => NeatHeap([new.heap EXCEPT ![r].fields = fields2])
    BY <1>5, <1>6, <1>7, <1>10, <1>11, FieldsNeat DEF V
  <1>13. Grows(heap, [new.heap EXCEPT ![r].fields = fields2])
    <2>1. NodeAt(h).entry = new.heap[r].entry
      BY <1>5
    <2>2. Placed(heap, new.heap, new.slot, ChildEntry(new.heap[r].entry, key))
      BY <1>5, <2>1 DEF entry
    <2>3. Ordered(fields2, new.heap[r].entry)
      BY <1>10, <2>1
    <2>4. fields2 \in Seq(FieldsOf(STRING, Links(DOMAIN new.heap)))
      BY <1>10 DEF V
    <2> QED
      BY <1>5, <1>7, <1>11, <2>2, <2>3, <2>4, FieldsGrow
  <1>14. VInv => ValidHeap([new.heap EXCEPT ![r].fields = fields2])
    <2> SUFFICES ASSUME VInv PROVE ValidHeap([new.heap EXCEPT ![r].fields = fields2])
      OBVIOUS
    <2>1. NInv /\ HeapOK(new.heap) /\ NeatHeap([new.heap EXCEPT ![r].fields = fields2])
      BY <1>6, <1>12 DEF VInv
    <2>2. ValidHeap(new.heap) /\ (~IsRef(new.slot) => Accepted(new.slot, entry))
      BY <1>1, <1>4, ForSlotValid DEF new
    <2>3. /\ NodeAt(h).entry = new.heap[r].entry /\ new.heap[r].entry \in Entries
          /\ entry = ChildEntry(new.heap[r].entry, key)
      BY <1>3, <1>5 DEF entry
    <2>4. KeysOf(new.heap[r].fields) \subseteq KeysOf(fields1)
      BY <1>3, <1>5, <1>7, <1>8, <2>1, SetFieldKeepsTheOthers DEF fields1
    <2>5. KeysOf(fields1) \subseteq KeysOf(fields2)
      <3>1. \A i \in DOMAIN new.heap[r].fields : ~IsVoid(new.heap[r].fields[i].value)
        <4>1. NeatNode(new.heap, r) /\ new.heap[r] \in NodesWith(Links(DOMAIN new.heap))
          BY <1>6, <1>7, <2>1 DEF NeatHeap, HeapOK
        <4>2. /\ \A i \in DOMAIN new.heap[r].fields : Parts(new.heap[r])[i] = new.heap[r].fields[i].value
              /\ \A i \in DOMAIN new.heap[r].fields : Parts(new.heap[r])[i] \in Slots(new.heap[r])
              /\ Slots(new.heap[r]) \subseteq Links(DOMAIN new.heap)
          BY <1>7, <4>1, NodeShape
        <4> QED
          BY <4>1, <4>2, NotVoid DEF NeatNode
      <3>2. \A i \in DOMAIN fields1 : ~IsVoid(fields1[i].value)
        BY <1>6, <1>9, <2>1, <3>1 DEF FieldsFrom, Field
      <3>3. Void \in V
        BY VoidLinks DEF V
      <3> QED
        BY <1>3, <1>9, <2>1, <3>2, <3>3, ReorderKeepsKeys DEF fields2
    <2>6. /\ FieldsAccept(new.heap[r].fields, new.heap[r].entry) =>
               FieldsAccept(fields2, new.heap[r].entry)
          /\ ChildrenStay(fields2, new.heap[r].fields, new.heap[r].entry)
      BY <1>11, <2>2, <2>3, <2>4, <2>5, SetAccepts
    <2>7. fields2 \in Seq(FieldsOf(STRING, Links(DOMAIN new.heap)))
      BY <1>10 DEF V
    <2> QED
      BY <1>7, <2>1, <2>2, <2>6, <2>7, FieldsValid
  <1> QED
    BY <1>2, <1>12, <1>13, <1>14, MutatesKeeps

\* Removing a field, with or without a result.
LEMMA RemovalGrows ==
  ASSUME DInv, NEW h \in Handles, NEW key, IsObject(heap, hand[h])
  PROVE  /\ Grows(heap, [heap EXCEPT ![hand[h].ref].fields = removeField(@, key)])
         /\ GetField(NodeAt(h).fields, key) \in Links(DOMAIN heap)
         /\ DOMAIN [heap EXCEPT ![hand[h].ref].fields = removeField(@, key)] = DOMAIN heap
         /\ NInv => NeatHeap([heap EXCEPT ![hand[h].ref].fields = removeField(@, key)])
         /\ VInv /\ ~Required(h, key) =>
              ValidHeap([heap EXCEPT ![hand[h].ref].fields = removeField(@, key)])
  <1> DEFINE r == hand[h].ref
             V == Links(DOMAIN heap)
             fields == removeField(heap[r].fields, key)
  <1>1. /\ DocOK(heap) /\ HeapOK(heap) /\ r \in DOMAIN heap /\ NodeAt(h) = heap[r]
        /\ NodeAt(h).kind = "object" /\ Ordered(NodeAt(h).fields, NodeAt(h).entry)
        /\ NodeAt(h).fields \in Seq(FieldsOf(STRING, V))
    BY HandAt
  <1>2. /\ fields \in Seq(FieldsOf(STRING, V)) /\ Ordered(fields, heap[r].entry)
        /\ FieldsFrom(fields, heap[r].fields, Field(key, Null)) /\ SomeOf(fields, heap[r].fields)
    <2> HIDE DEF r, V
    <2> QED
      BY <1>1, RemovalOrdered
  <1>3. [heap EXCEPT ![r].fields = removeField(@, key)] = [heap EXCEPT ![r].fields = fields]
    OBVIOUS
  <1>4. Placed(heap, heap, Null, ChildEntry(heap[r].entry, key))
    BY NullNeat, <1>1 DEF Placed
  <1>5. GetField(NodeAt(h).fields, key) \in V
    <2>1. Void \in V
      BY VoidLinks
    <2> HIDE DEF V
    <2> QED
      BY <1>1, <2>1, GetFieldIn
  <1>6. Grows(heap, heap) /\ heap[r].kind = "object"
    BY <1>1, GrowsItself
  <1> HIDE DEF r, fields
  <1>7. Grows(heap, [heap EXCEPT ![r].fields = fields])
    BY <1>1, <1>2, <1>4, <1>6, FieldsGrow
  <1>8. NInv => Distinct(fields)
    <2>1. NInv => Distinct(heap[r].fields)
      BY <1>1, <1>6 DEF NInv, NeatHeap, NeatNode
    <2>2. heap[r].fields \in Seq(FieldsOf(STRING, V))
      BY <1>1
    <2> HIDE DEF V
    <2> QED
      BY <2>1, <2>2, RemoveFieldKeepsTheOthers DEF fields
  <1>9. NInv => NeatHeap([heap EXCEPT ![r].fields = fields])
    <2>1. Null \in V /\ ~IsVoid(Null) /\ r \notin Own(heap, Null)
      BY <1>1, NullNeat
    <2> QED
      BY <1>1, <1>2, <1>6, <1>8, <2>1, FieldsNeat DEF NInv
  <1>10. ASSUME VInv, ~Required(h, key) PROVE ValidHeap([heap EXCEPT ![r].fields = fields])
    <2> DEFINE entry == heap[r].entry
               old == heap[r].fields
    <2>1. NInv /\ ValidHeap(heap) /\ OptionalDefaults
      BY <1>10 DEF VInv
    <2>2. entry \in Entries /\ old \in Seq(FieldsOf(STRING, V)) /\ Distinct(old)
      <3>1. heap[r].entry \in Entries
        BY <1>1, HandAt DEF r
      <3> QED
        BY <1>1, <1>6, <2>1, <3>1 DEF NInv, NeatHeap, NeatNode
    <2>3. KeysOf(fields) = KeysOf(old) \ {key}
      <3> HIDE DEF V, old
      <3> QED
        BY <2>2, RemoveFieldKeepsTheOthers DEF fields, old
    <2>4. FieldsAccept(old, entry) => FieldsAccept(fields, entry)
      BY <1>2 DEF SomeOf, FieldsAccept
    <2>5. \A i \in DOMAIN Children(entry) : NameAt(entry, i) = key => MayMiss(Children(entry)[i])
      <3> SUFFICES ASSUME NEW i \in DOMAIN Children(entry), NameAt(entry, i) = key
                   PROVE  MayMiss(Children(entry)[i])
        OBVIOUS
      <3> DEFINE child == Children(entry)[i]
      <3>1. child \in DOMAIN Schema /\ child # NoEntry /\ ChildEntry(entry, key) = child
        BY <2>2, RankIs, SchemaAssumption
      <3>2. ChildEntry(NodeAt(h).entry, key) = child
        BY <1>1, <3>1
      <3> HIDE DEF child
      <3>3. ~Schema[child].required
        BY <1>10, <3>1, <3>2, Zenon DEF Required
      <3>4. MayMiss(child)
        BY <2>1, <3>1, <3>3, OptionalMisses
      <3> QED
        BY <3>4 DEF child
    <2>6. ChildrenStay(fields, old, entry)
      BY <2>3, <2>5 DEF ChildrenStay, HasChild
    <2> QED
      BY <1>1, <1>2, <1>6, <2>1, <2>4, <2>6, FieldsValid
  <1> QED
    BY <1>3, <1>5, <1>7, <1>9, <1>10 DEF r

LEMMA SetVoidKeeps ==
  ASSUME DInv, NEW h \in Handles, NEW key \in Keys, SetVoid(h, key)
  PROVE  CallOK
  BY RemovalGrows, MutatesKeeps DEF SetVoid

LEMMA RemoveFieldKeeps ==
  ASSUME DInv, NEW h \in Handles, NEW key \in Keys, NEW g \in Handles, removeFieldTry(h, key, g)
  PROVE  CallOK
  <1> DEFINE new == [heap EXCEPT ![hand[h].ref].fields = removeField(@, key)]
             found == GetField(NodeAt(h).fields, key)
  <1>1. IsObject(heap, hand[h]) /\ Returns(new, g, found)
    BY DEF removeFieldTry
  <1>2. /\ Grows(heap, new) /\ found \in Links(DOMAIN heap) /\ DOMAIN new = DOMAIN heap
        /\ NInv => NeatHeap(new)
        /\ VInv => ValidHeap(new)
    BY <1>1, RemovalGrows DEF removeFieldTry
  <1> HIDE DEF new, found
  <1>3. found \in Links(DOMAIN new)
    BY <1>2
  <1> QED
    BY <1>1, <1>2, <1>3, ReturnsKeeps

\* An array an item was inserted into holds that item and its earlier ones.
LEMMA InsertedItems ==
  ASSUME NEW V, NEW s \in Seq(V), NEW slot \in V, NEW i \in 1..Len(s) + 1
  PROVE  /\ InsertAt(s, i, slot) \in Seq(V)
         /\ ItemsFrom(InsertAt(s, i, slot), s, slot)
  <1> DEFINE t == InsertAt(s, i, slot)
  <1>1. /\ t \in Seq(V) /\ DOMAIN t = 1..Len(s) + 1
        /\ \A k \in 1..Len(s) + 1 :
             t[k] = IF k < i THEN s[k] ELSE IF k = i THEN slot ELSE s[k - 1]
    BY InsertAtIs
  <1> HIDE DEF t
  <1>2. ASSUME NEW k \in DOMAIN t
        PROVE  t[k] = slot \/ \E j \in DOMAIN s : t[k] = s[j]
    <2>1. CASE k < i
      <3>1. k \in DOMAIN s
        BY <1>1, <2>1
      <3> QED
        BY <1>1, <2>1, <3>1
    <2>2. CASE k = i
      BY <1>1, <2>2
    <2>3. CASE k > i
      <3>1. k - 1 \in DOMAIN s
        BY <1>1, <2>3
      <3>2. t[k] = s[k - 1]
        BY <1>1, <2>3
      <3> QED
        BY <3>1, <3>2
    <2> QED
      BY <1>1, <2>1, <2>2, <2>3
  <1>3. ItemsFrom(t, s, slot)
    BY <1>2 DEF ItemsFrom
  <1> QED
    BY <1>1, <1>3 DEF t

LEMMA InsertAtTryKeeps ==
  ASSUME DInv, NEW h \in Handles, NEW i, NEW arg \in Arguments, InsertAtTry(h, i, arg)
  PROVE  CallOK
  <1> DEFINE entry == ItemEntry(NodeAt(h).entry)
             new   == ForSlot(h, arg, entry)
             r     == hand[h].ref
             V     == Links(DOMAIN new.heap)
             items == InsertAt(new.heap[r].items, i, new.slot)
  <1>1. /\ IsArray(heap, hand[h]) /\ ~IsVoid(arg) /\ Acyclic(h, arg, entry) /\ new.ok
        /\ i \in 1..Len(NodeAt(h).items) + 1
        /\ Mutates([new.heap EXCEPT ![r].items = InsertAt(@, i, new.slot)])
    BY DEF InsertAtTry
  <1>2. Mutates([new.heap EXCEPT ![r].items = items])
    BY <1>1
  <1>3. NodeAt(h).entry \in Entries /\ NodeAt(h).kind = "array"
    BY <1>1, HandAt
  <1>4. entry \in Entries /\ (entry # NoEntry => NodeAt(h).entry # NoEntry)
    BY <1>3, EntriesBelow
  <1> HIDE DEF entry
  <1>5. /\ Grows(heap, new.heap) /\ r \in DOMAIN heap /\ new.heap[r] = heap[r]
        /\ NodeAt(h) = heap[r] /\ heap[r] \in NodesWith(V)
        /\ new.slot \in V /\ Placed(heap, new.heap, new.slot, entry)
    BY <1>1, <1>4, SlotOfNode
  <1>9. NInv => /\ HeapOK(new.heap) /\ NeatHeap(new.heap)
                /\ ~IsVoid(new.slot) /\ r \notin Own(new.heap, new.slot)
    BY <1>1, <1>4, ForSlotNeat
  <1> HIDE DEF new, r, V, items
  <1>6. /\ new.heap[r].items \in Seq(V) /\ new.heap[r].kind = "array"
        /\ i \in 1..Len(new.heap[r].items) + 1
    BY <1>1, <1>3, <1>5, NodeShape
  <1>7. items \in Seq(V) /\ ItemsFrom(items, new.heap[r].items, new.slot)
    BY <1>5, <1>6, InsertedItems DEF items
  <1>8. Grows(heap, [new.heap EXCEPT ![r].items = items])
    <2>1. Placed(heap, new.heap, new.slot, ItemEntry(new.heap[r].entry))
      BY <1>5 DEF entry
    <2> QED
      BY <1>5, <1>6, <1>7, <2>1, ItemsGrow DEF V
  <1>10. NInv => NeatHeap([new.heap EXCEPT ![r].items = items])
    <2>1. r \in DOMAIN new.heap
      BY <1>5 DEF Grows
    <2> QED
      BY <1>5, <1>6, <1>7, <1>9, <2>1, ItemsNeat DEF V
  <1>11. VInv => ValidHeap([new.heap EXCEPT ![r].items = items])
    <2> SUFFICES ASSUME VInv PROVE ValidHeap([new.heap EXCEPT ![r].items = items])
      OBVIOUS
    <2>1. HeapOK(new.heap) /\ r \in DOMAIN new.heap
      BY <1>5 DEF Grows, DocOK
    <2>2. ValidHeap(new.heap) /\ (~IsRef(new.slot) => Accepted(new.slot, entry))
      BY <1>1, <1>4, ForSlotValid DEF new
    <2>3. entry = ItemEntry(new.heap[r].entry)
      BY <1>5 DEF entry
    <2>4. ItemsAccept(new.heap[r].items, new.heap[r].entry) => ItemsAccept(items, new.heap[r].entry)
      BY <1>7, <2>2, <2>3 DEF ItemsAccept, ItemsFrom
    <2> QED
      BY <1>6, <1>7, <2>1, <2>2, <2>4, ItemsValid DEF V
  <1> QED
    BY <1>2, <1>8, <1>10, <1>11, MutatesKeeps

\* Items are taken out of an array, and none is added.
LEMMA FewerItemsGrow ==
  ASSUME DInv, NEW h \in Handles, IsArray(heap, hand[h]),
         NEW items \in Seq(Links(DOMAIN heap)), SomeOf(items, NodeAt(h).items)
  PROVE  /\ Grows(heap, [heap EXCEPT ![hand[h].ref].items = items])
         /\ NInv => NeatHeap([heap EXCEPT ![hand[h].ref].items = items])
         /\ VInv => ValidHeap([heap EXCEPT ![hand[h].ref].items = items])
  <1>1. /\ DocOK(heap) /\ HeapOK(heap) /\ hand[h].ref \in DOMAIN heap /\ NodeAt(h) = heap[hand[h].ref]
        /\ NodeAt(h).kind = "array"
    BY HandAt
  <1>2. /\ Null \in Links(DOMAIN heap) /\ ~IsVoid(Null)
        /\ hand[h].ref \notin Own(heap, Null)
        /\ Placed(heap, heap, Null, ItemEntry(heap[hand[h].ref].entry))
    BY <1>1, NullNeat, LinkOrScalar DEF Placed
  <1>3. Grows(heap, heap)
    BY <1>1, GrowsItself
  <1>4. ItemsFrom(items, NodeAt(h).items, Null)
    BY DEF SomeOf, ItemsFrom
  <1>5. NInv => NeatHeap([heap EXCEPT ![hand[h].ref].items = items])
    BY <1>1, <1>2, <1>4, ItemsNeat DEF NInv
  <1>6. VInv => ValidHeap([heap EXCEPT ![hand[h].ref].items = items])
    <2>1. ItemsAccept(NodeAt(h).items, NodeAt(h).entry) => ItemsAccept(items, NodeAt(h).entry)
      BY DEF SomeOf, ItemsAccept
    <2> QED
      BY <1>1, <2>1, ItemsValid DEF VInv
  <1> QED
    BY <1>1, <1>2, <1>3, <1>4, <1>5, <1>6, ItemsGrow

LEMMA RemoveIndexKeeps ==
  ASSUME DInv, NEW h \in Handles, NEW i, NEW g \in Handles, removeIndexTry(h, i, g)
  PROVE  CallOK
  <1> DEFINE r == hand[h].ref
             V == Links(DOMAIN heap)
             s == heap[r].items
             items == RemoveAt(s, i)
             new == [heap EXCEPT ![r].items = items]
  <1>1. /\ IsArray(heap, hand[h]) /\ i \in DOMAIN NodeAt(h).items
        /\ Returns([heap EXCEPT ![r].items = RemoveAt(@, i)], g, NodeAt(h).items[i])
    BY DEF removeIndexTry
  <1>2. Returns(new, g, NodeAt(h).items[i])
    BY <1>1
  <1>3. r \in DOMAIN heap /\ NodeAt(h) = heap[r] /\ NodeAt(h).items \in Seq(V)
    BY <1>1, HandAt
  <1> HIDE DEF V, items
  <1>4. s \in Seq(V) /\ i \in 1..Len(s) /\ s[i] \in V
    BY <1>1, <1>3
  <1>5. /\ items \in Seq(V) /\ DOMAIN items = 1..Len(s) - 1
        /\ \A k \in 1..Len(s) - 1 : items[k] = IF k < i THEN s[k] ELSE s[k + 1]
    <2> HIDE DEF s
    <2> QED
      BY <1>4, RemoveAtIs DEF items
  <1>6. SomeOf(items, s)
    <2> HIDE DEF s
    <2>1. ASSUME NEW k \in DOMAIN items PROVE \E j \in DOMAIN s : items[k] = s[j]
      <3>1. k \in DOMAIN s /\ k + 1 \in DOMAIN s
        BY <1>4, <1>5
      <3>2. items[k] = s[k] \/ items[k] = s[k + 1]
        BY <1>5
      <3> QED
        BY <3>1, <3>2
    <2> QED
      BY <2>1 DEF SomeOf
  <1>7. Grows(heap, new) /\ (NInv => NeatHeap(new)) /\ (VInv => ValidHeap(new))
    BY <1>1, <1>3, <1>5, <1>6, FewerItemsGrow DEF V
  <1>8. NodeAt(h).items[i] \in Links(DOMAIN new)
    BY <1>3, <1>4 DEF V
  <1> HIDE DEF new
  <1> QED
    BY <1>2, <1>7, <1>8, ReturnsKeeps

LEMMA CompressKeeps ==
  ASSUME DInv, NEW h \in Handles, Compress(h)
  PROVE  CallOK
  <1> DEFINE r == hand[h].ref
             V == Links(DOMAIN heap)
             s == heap[r].items
             places == {i \in DOMAIN s : ~IsVoid(s[i])}
             items == Those(s, places)
             new == [heap EXCEPT ![r].items = items]
  <1>1. /\ IsArray(heap, hand[h])
        /\ Mutates([heap EXCEPT ![r].items = Those(@, {i \in DOMAIN @ : ~IsVoid(@[i])})])
    BY DEF Compress
  <1>2. Mutates(new)
    BY <1>1
  <1>3. r \in DOMAIN heap /\ NodeAt(h) = heap[r] /\ s \in Seq(V)
    BY <1>1, HandAt
  <1>4. places \subseteq DOMAIN s
    OBVIOUS
  <1> HIDE DEF V, items, places
  <1>5. items \in Seq(V) /\ SomeOf(items, s)
    <2> HIDE DEF s
    <2>1. /\ items \in Seq(V)
          /\ \E at \in [DOMAIN items -> places] : \A k \in DOMAIN items : items[k] = s[at[k]]
      BY <1>3, <1>4, ThoseIs DEF items
    <2> QED
      BY <1>4, <2>1 DEF SomeOf
  <1>6. Grows(heap, new) /\ (NInv => NeatHeap(new)) /\ (VInv => ValidHeap(new))
    BY <1>1, <1>3, <1>5, FewerItemsGrow DEF V
  <1> HIDE DEF new
  <1> QED
    BY <1>2, <1>6, MutatesKeeps

\* A copy of a tree in order is returned.
LEMMA CopyKeeps ==
  ASSUME DInv, NEW g \in Handles, NEW tree \in Trees, NEW attached \in BOOLEAN,
         NEW entry \in Entries, InOrder(tree, entry), entry # NoEntry => attached,
         NInv /\ IsContainer(tree) => tree \in Neat, VInv => Accepted(tree, entry),
         Returns(Store(heap, tree, attached, entry).heap, g, Store(heap, tree, attached, entry).slot)
  PROVE  CallOK
  <1> DEFINE new  == Store(heap, tree, attached, entry).heap
             slot == Store(heap, tree, attached, entry).slot
  <1>1. Grows(heap, new) /\ slot \in Links(DOMAIN new)
    BY StoreGrows DEF DInv
  <1>2. HeapOK(heap)
    BY DEF DInv, DocOK
  <1>3. NInv => NeatHeap(new)
    <2>1. CASE IsContainer(tree)
      BY <1>2, <2>1, StoreNeat DEF NInv
    <2>2. CASE ~IsContainer(tree)
      <3>1. new = heap
        BY <1>2, <2>2, Stored DEF StoredIn
      <3> QED
        BY <3>1 DEF NInv
    <2> QED
      BY <2>1, <2>2
  <1>4. VInv => ValidHeap(new)
    BY <1>2, StoreValid DEF VInv
  <1> QED
    BY <1>1, <1>3, <1>4, ReturnsKeeps

LEMMA ApplySchemaKeeps ==
  ASSUME DInv, NEW h \in Handles, NEW g \in Handles, ApplySchema(h, g)
  PROVE  CallOK
  <1> DEFINE norm == normalizeValueForSchema(View(heap, hand[h]), Root)
             new  == Store(heap, norm.value, TRUE, Root)
  <1>1. IF norm.ok THEN norm.value \in Trees /\ Returns(new.heap, g, new.slot)
                   ELSE Returns(heap, g, Void)
    BY DEF ApplySchema
  <1>2. hand[h] \in Links(DOMAIN heap) /\ DocOK(heap) /\ Root \in Entries
    BY HandAt, EntriesBelow
  <1>3. CASE norm.ok
    <2>1. norm.value \in Trees /\ Returns(new.heap, g, new.slot)
      BY <1>1, <1>3
    <2>2. InOrder(norm.value, Root)
      BY <1>2, <1>3, <2>1, NormalStored
    <2>3. TRUE \in BOOLEAN
      OBVIOUS
    <2>4. ASSUME NInv, IsContainer(norm.value) PROVE norm.value \in Neat
      <3>1. CASE IsVoid(hand[h])
        <4>1. View(heap, hand[h]) = Void
          <5>1. ~IsRef(hand[h])
            BY <3>1 DEF IsVoid, IsRef
          <5>2. hand[h] = Void
            BY <1>2, <3>1, <5>1, LinkOrScalar, VoidIs
          <5> QED
            BY <1>2, <5>1, <5>2, ViewIs DEF DocOK
        <4> QED
          BY <1>2, <2>4, <4>1, VoidNormal
      <3>2. CASE ~IsVoid(hand[h])
        <4>1. View(heap, hand[h]) \in Neat /\ View(heap, hand[h]) \in Trees
          BY <1>2, <2>4, <3>2, SeenNeat
        <4> QED
          BY <1>2, <1>3, <2>1, <4>1, NormalNeat
      <3> QED
        BY <3>1, <3>2
    <2>5. Accepted(norm.value, Root)
      BY <1>2, <1>3, <2>1, NormalAccepted, ViewIsTree DEF DocOK
    <2> HIDE DEF norm
    <2> QED
      BY <1>2, <2>1, <2>2, <2>3, <2>4, <2>5, CopyKeeps
  <1>4. CASE ~norm.ok
    <2>1. Returns(heap, g, Void)
      BY <1>1, <1>4
    <2>2. Void \in Links(DOMAIN heap)
      BY VoidLinks
    <2> QED
      BY <1>2, <2>1, <2>2, GrowsItself, ReturnsKeeps DEF NInv, VInv
  <1> QED
    BY <1>3, <1>4

LEMMA CloneKeeps ==
  ASSUME DInv, NEW h \in Handles, NEW g \in Handles, Clone(h, g)
  PROVE  CallOK
  <1> DEFINE tree == View(heap, hand[h])
             attached == HasSchema(heap, hand[h])
             entry == EntryOf(heap, hand[h])
  <1>1. /\ hand[h] \in Links(DOMAIN heap) /\ DocOK(heap) /\ HeapOK(heap)
        /\ entry \in Entries /\ attached \in BOOLEAN
    BY HandAt
  <1>2. entry # NoEntry => attached
    BY HandAt
  <1>3. tree \in Trees
    BY <1>1, ViewIsTree
  <1>4. InOrder(tree, entry)
    BY <1>1, ViewInOrder DEF DocOK
  <1>5. Returns(Store(heap, tree, attached, entry).heap, g, Store(heap, tree, attached, entry).slot)
    BY DEF Clone
  <1>6. NInv /\ IsContainer(tree) => tree \in Neat
    BY <1>1, ShownNeat
  <1>7. VInv => Accepted(tree, entry)
    BY <1>1, SeenValid
  <1> HIDE DEF tree, attached, entry
  <1> QED
    BY <1>1, <1>2, <1>3, <1>4, <1>5, <1>6, <1>7, CopyKeeps

LEMMA WithoutSchemaKeeps ==
  ASSUME DInv, NEW h \in Handles, NEW g \in Handles, WithoutSchema(h, g)
  PROVE  CallOK
  <1> DEFINE tree == View(heap, hand[h])
  <1>1. hand[h] \in Links(DOMAIN heap) /\ HeapOK(heap)
    BY HandAt
  <1>2. tree \in Trees
    BY <1>1, ViewIsTree
  <1>3. InOrder(tree, NoEntry) /\ NoEntry \in Entries /\ FALSE \in BOOLEAN
    BY <1>2, NoEntryInOrder, EntriesBelow, DepthAssumption DEF Trees
  <1>4. Returns(Store(heap, tree, FALSE, NoEntry).heap, g, Store(heap, tree, FALSE, NoEntry).slot)
    BY DEF WithoutSchema, cloneJSONValue
  <1>5. NInv /\ IsContainer(tree) => tree \in Neat
    BY <1>1, ShownNeat
  <1>6. Accepted(tree, NoEntry)
    BY <1>2, NoEntryAccepts
  <1> HIDE DEF tree
  <1> QED
    BY <1>2, <1>3, <1>4, <1>5, <1>6, CopyKeeps

-----------------------------------------------------------------------------
(* The invariant is inductive.                                             *)

LEMMA DInvInit == Init => DInv /\ NInv /\ (OptionalDefaults => VInv)
  <1> SUFFICES ASSUME Init PROVE DInv /\ NInv /\ (OptionalDefaults => VInv)
    OBVIOUS
  <1>1. heap = EmptyHeap /\ hand = [h \in Handles |-> Void]
    BY DEF Init
  <1>2. HeapOK(heap) /\ DOMAIN heap = {}
    BY <1>1, EmptyHeapOK
  <1>3. DocOK(heap)
    BY <1>2 DEF DocOK
  <1>4. \A h \in Handles : hand[h] = Void
    BY <1>1
  <1>5. hand \in [Handles -> Links(DOMAIN heap)]
    BY <1>1, VoidLinks
  <1>6. Range(hand) \subseteq Links(DOMAIN heap)
    BY <1>5 DEF Range
  <1>7. Reach(heap, Range(hand)) \subseteq DOMAIN heap
    BY <1>2, <1>6, Reached
  <1>8. NInv
    <2>1. NeatHeap(heap)
      BY <1>2 DEF NeatHeap, Grounded
    <2> QED
      BY <1>2, <2>1, FS_EmptySet, BoundsAssumption DEF NInv
  <1>9. OptionalDefaults => VInv
    BY <1>2, <1>8 DEF VInv, ValidHeap
  <1> QED
    BY <1>2, <1>3, <1>4, <1>5, <1>7, <1>8, <1>9, VoidLinks DEF DInv

LEMMA CallsKeep ==
  ASSUME DInv, Next PROVE CallOK
  <1>1. ASSUME NEW h \in Handles, NewObject(h) \/ NewArray(h) PROVE CallOK
    <2>1. Object(<<>>) \in {Object(<<>>), Array(<<>>)} /\ Array(<<>>) \in {Object(<<>>), Array(<<>>)}
      OBVIOUS
    <2>2. CASE NewObject(h)
      BY <2>1, <2>2, NewKeeps DEF NewObject
    <2>3. CASE NewArray(h)
      BY <2>1, <2>3, NewKeeps DEF NewArray
    <2> QED
      BY <1>1, <2>2, <2>3
  <1>2. ASSUME NEW h \in Handles, Compress(h) PROVE CallOK
    BY <1>2, CompressKeeps
  <1>3. ASSUME NEW h \in Handles, NEW key \in Keys, NEW arg \in Arguments, SetTry(h, key, arg)
        PROVE CallOK
    BY <1>3, SetTryKeeps
  <1>4. ASSUME NEW h \in Handles, NEW key \in Keys, SetVoid(h, key) PROVE CallOK
    BY <1>4, SetVoidKeeps
  <1>5. ASSUME NEW h \in Handles, NEW g \in Handles, NEW key \in Keys,
               GetTry(h, key, g) \/ removeFieldTry(h, key, g)
        PROVE CallOK
    BY <1>5, GetTryKeeps, RemoveFieldKeeps
  <1>6. ASSUME NEW h \in Handles, NEW arg \in Arguments, NEW i \in 1..MaxItems, InsertAtTry(h, i, arg)
        PROVE CallOK
    BY <1>6, InsertAtTryKeeps
  <1>7. ASSUME NEW h \in Handles, NEW g \in Handles, NEW i \in 1..MaxItems,
               AtTry(h, i, g) \/ removeIndexTry(h, i, g)
        PROVE CallOK
    BY <1>7, AtTryKeeps, RemoveIndexKeeps
  <1>8. ASSUME NEW h \in Handles, NEW g \in Handles,
               ApplySchema(h, g) \/ Clone(h, g) \/ WithoutSchema(h, g)
        PROVE CallOK
    BY <1>8, ApplySchemaKeeps, CloneKeeps, WithoutSchemaKeeps
  <1> QED
    BY <1>1, <1>2, <1>3, <1>4, <1>5, <1>6, <1>7, <1>8 DEF Next

LEMMA DInvNext ==
  DInv /\ [Next]_vars =>
    DInv' /\ (StepOK \/ UNCHANGED vars) /\ (NInv => NInv') /\ (VInv => VInv')
  <1>1. ASSUME DInv, Next PROVE DInv' /\ StepOK /\ (NInv => NInv') /\ (VInv => VInv')
    BY <1>1, CallsKeep DEF CallOK
  <1>2. ASSUME DInv, UNCHANGED vars PROVE DInv' /\ (NInv => NInv') /\ (VInv => VInv')
    <2>1. heap' = heap /\ hand' = hand
      BY <1>2 DEF vars
    <2>2. DInv'
      BY <1>2, <2>1 DEF DInv, DocOK, HeapOK, OrderedNode, GovernedNode
    <2>3. NInv => NInv'
      BY <2>1 DEF NInv, NeatHeap, NeatNode, Grounded
    <2>4. VInv => VInv'
      BY <2>1, <2>3 DEF VInv, ValidHeap, ValidNode
    <2> QED
      BY <2>2, <2>3, <2>4
  <1> QED
    BY <1>1, <1>2

-----------------------------------------------------------------------------
(* Reading again what a schema governs already.                            *)

\* The unknown fields follow in the order they had.
LEMMA UnknownInOrder ==
  ASSUME NEW F, NEW known \in Seq(F), NEW source \in Seq(F),
         NEW unknown, unknown \subseteq DOMAIN source,
         NEW t, t = Together(known, source, unknown),
         NEW i \in DOMAIN t, NEW j \in DOMAIN t, i < j,
         \A k \in DOMAIN known : known[k] # t[i]
  PROVE  \E p, q \in DOMAIN source : p < q /\ t[i] = source[p] /\ t[j] = source[q]
  <1> DEFINE a == nonVoidObjectFields(known)
             b == Those(source, unknown)
  <1>1. /\ a \in Seq(F)
        /\ \E at \in [DOMAIN a -> DOMAIN known] : \A k \in DOMAIN a : a[k] = known[at[k]]
    BY NonVoidIs
  <1>2. /\ b \in Seq(F)
        /\ \E at \in [DOMAIN b -> unknown] :
             /\ \A k \in DOMAIN b : b[k] = source[at[k]]
             /\ \A k, m \in DOMAIN b : k < m => at[k] < at[m]
    BY ThoseIs
  <1>3. t = a \o b
    BY DEF Together
  <1> HIDE DEF a, b
  <1>4. /\ Len(a) \in Nat /\ Len(b) \in Nat /\ DOMAIN a = 1..Len(a) /\ DOMAIN b = 1..Len(b)
        /\ DOMAIN t = 1..Len(a) + Len(b)
        /\ \A m \in 1..Len(a) + Len(b) : t[m] = IF m <= Len(a) THEN a[m] ELSE b[m - Len(a)]
    BY <1>1, <1>2, <1>3, Joined
  <1>5. ~(i <= Len(a))
    <2> SUFFICES ASSUME i <= Len(a) PROVE FALSE
      OBVIOUS
    <2>1. t[i] = a[i] /\ i \in DOMAIN a
      BY <1>4
    <2> QED
      BY <1>1, <2>1
  <1>6. /\ i - Len(a) \in DOMAIN b /\ j - Len(a) \in DOMAIN b /\ i - Len(a) < j - Len(a)
        /\ t[i] = b[i - Len(a)] /\ t[j] = b[j - Len(a)]
    BY <1>4, <1>5
  <1>7. PICK at \in [DOMAIN b -> unknown] :
             /\ \A k \in DOMAIN b : b[k] = source[at[k]]
             /\ \A k, m \in DOMAIN b : k < m => at[k] < at[m]
    BY <1>2
  <1> DEFINE p == at[i - Len(a)]
             q == at[j - Len(a)]
  <1>8. p \in DOMAIN source /\ q \in DOMAIN source /\ p < q /\ t[i] = source[p] /\ t[j] = source[q]
    BY <1>6, <1>7
  <1> QED
    BY <1>8

LEMMA NullIs ==
  ASSUME NEW value \in Trees, value.kind = "null"
  PROVE  value = Null
  <1>1. value \in Nested[MaxDepth] /\ MaxDepth \in Nat
    BY DepthAssumption DEF Trees
  <1>2. ~IsContainer(value)
    BY DEF IsContainer
  <1>3. value \in ScalarValues
    BY <1>1, <1>2, TreeShape
  <1>4. Void.kind = "void"
    BY DEF Void, Scalar
  <1> QED
    BY <1>3, <1>4 DEF ScalarValues

LEMMA NoEntryNormal ==
  ASSUME NEW value \in Trees PROVE normalizeValueForSchema(value, NoEntry) = Normal(value)
  <1>1. Cardinality(DOMAIN Schema) \in Nat
    BY SchemaAssumption, FS_CardinalityType
  <1>2. normalized[Cardinality(DOMAIN Schema)]
          = Normalization(Cardinality(DOMAIN Schema), normalized[Cardinality(DOMAIN Schema) - 1])
    BY <1>1, NormalizedIs
  <1> QED
    BY <1>2 DEF Normalization, Entries, normalizeValueForSchema

\* What is no container is normalised to itself, and what is not Void to something.
LEMMA ScalarStays ==
  ASSUME NEW value \in Trees, NEW entry \in Entries, Accepted(value, entry)
  PROVE  LET new == normalizeValueForSchema(value, entry).value
         IN  /\ ~IsContainer(value) => new = value
             /\ ~IsVoid(value) => ~IsVoid(new)
  <1> DEFINE norm == normalizeValueForSchema(value, entry)
             nested == normalized[Cardinality(DOMAIN Schema)]
  <1>1. CASE entry = NoEntry
    <2>1. norm = Normal(value)
      BY <1>1, NoEntryNormal
    <2> QED
      BY <2>1 DEF Normal
  <1>2. CASE entry \in DOMAIN Schema
    <2> DEFINE e == Schema[entry]
    <2>1. norm = normalizeGoverned(value, e, nested)
      BY <1>2, NormalUnfolds
    <2>2. norm # Failure
      BY FailureIs DEF Accepted
    <2> HIDE DEF nested, e
    <2>3. CASE value.kind = "null"
      <3>1. norm = Normal(Null)
        BY <2>1, <2>2, <2>3 DEF normalizeGoverned
      <3>2. value = Null
        BY <2>3, NullIs
      <3> QED
        BY <3>1, <3>2 DEF Normal
    <2>4. CASE value.kind = "object"
      <3>1. norm = normalizeObjectForSchema(value.fields, e.children, nested)
        BY <2>1, <2>2, <2>4 DEF normalizeGoverned
      <3>2. norm = Normal(Object(Rejoined(nonVoidObjectFields(value.fields), e.children, nested)))
        BY <2>2, <3>1, NormalObjectIs
      <3>3. norm.value.kind = "object"
        BY <3>2 DEF Normal, Object
      <3> QED
        BY <2>4, <3>3 DEF IsContainer, IsVoid
    <2>5. CASE value.kind = "array"
      <3>1. norm = normalizeArrayForSchema(value.items, e.items, nested)
        BY <2>1, <2>2, <2>5 DEF normalizeGoverned
      <3>2. \E items : norm = Normal(Array(items))
        BY <2>2, <3>1, Zenon DEF normalizeArrayForSchema
      <3>3. norm.value.kind = "array"
        BY <3>2 DEF Normal, Array
      <3> QED
        BY <2>5, <3>3 DEF IsContainer, IsVoid
    <2>6. CASE value.kind \notin {"null", "object", "array"}
      <3>1. norm = Normal(value)
        BY <2>1, <2>2, <2>6 DEF normalizeGoverned
      <3> QED
        BY <3>1 DEF Normal
    <2> QED
      BY <2>3, <2>4, <2>5, <2>6
  <1> QED
    BY <1>1, <1>2 DEF Entries

\* What stands in the normal form of an object for each of its fields.
LEMMA FieldKept ==
  ASSUME NEW entry \in DOMAIN Schema,
         NEW fields \in Seq(FieldsOf(STRING, Trees)), Distinct(fields),
         \A i \in DOMAIN fields :
           /\ ~IsVoid(fields[i].value)
           /\ Accepted(fields[i].value, ChildEntry(entry, fields[i].key)),
         NEW nested, nested = normalized[Cardinality(DOMAIN Schema)],
         NEW t, t = Rejoined(fields, Children(entry), nested),
         NEW i \in DOMAIN fields
  PROVE  \E k \in DOMAIN t :
           t[k] = Field(fields[i].key,
                        normalizeValueForSchema(fields[i].value,
                                                ChildEntry(entry, fields[i].key)).value)
  <1> DEFINE key   == fields[i].key
             value == fields[i].value
             child == ChildEntry(entry, key)
             children == Children(entry)
             known == KnownFields(fields, children, nested)
             unknown == UnknownPlaces(fields, children)
             new   == Field(key, normalizeValueForSchema(value, child).value)
             F     == FieldsOf(STRING, FieldValues(known))
  <1>0. entry \in Entries /\ fields[i] \in FieldsOf(STRING, Trees)
    BY DEF Entries
  <1>1. value \in Trees /\ key \in STRING
    BY <1>0 DEF FieldsOf
  <1>2. /\ known \in Seq(F) /\ fields \in Seq(F)
        /\ DOMAIN known = DOMAIN children
        /\ \A j \in DOMAIN known :
             /\ known[j].key = NameAt(entry, j)
             /\ known[j].value = OutcomeFor(fields, children[j], nested).value
        /\ unknown \subseteq DOMAIN fields
    BY ObjectParts
  <1>5. t = Together(known, fields, unknown)
    BY DEF Rejoined
  <1> HIDE DEF F, known, unknown
  <1>6. known \in Seq(F) /\ fields \in Seq(F) /\ unknown \subseteq DOMAIN fields
    BY <1>2
  <1>7. \A j \in DOMAIN known : ~IsVoid(known[j].value) => \E k \in DOMAIN t : t[k] = known[j]
    BY <1>5, <1>6, KnownKept
  <1>8. \A j \in unknown : \E k \in DOMAIN t : t[k] = fields[j]
    BY <1>5, <1>6, UnknownKept
  <1>3. CASE child # NoEntry
    <2> DEFINE j == Rank(entry, key)
    <2>1. j \in DOMAIN children /\ NameAt(entry, j) = key /\ child = children[j]
      BY <1>0, <1>3, RankIs
    <2>2. Schema[child].name = key
      BY <2>1 DEF NameAt
    <2>3. FoundAt(fields, child) = i /\ FoundAt(fields, child) > 0
      <3> DEFINE m == FoundAt(fields, child)
      <3>1. /\ m \in 0..Len(fields)
            /\ m > 0 => m \in DOMAIN fields /\ fields[m].key = key
            /\ ~(m > 0) => \A q \in DOMAIN fields : fields[q].key # key
        BY <2>2, FoundAtIs
      <3> HIDE DEF m
      <3>2. m > 0 /\ m \in DOMAIN fields /\ fields[m].key = fields[i].key
        BY <3>1
      <3>3. m = i
        BY <3>2 DEF Distinct
      <3> QED
        BY <3>2, <3>3 DEF m
    <2>4. OutcomeFor(fields, child, nested) = nested[child][value]
      BY <2>3 DEF OutcomeFor
    <2>5. nested[child][value] = normalizeValueForSchema(value, child)
      BY DEF normalizeValueForSchema
    <2>6. known[j] = new
      <3>1. known[j] = Field(Schema[children[j]].name, OutcomeFor(fields, children[j], nested).value)
        BY <2>1 DEF KnownFields, known
      <3> QED
        BY <2>1, <2>2, <2>4, <2>5, <3>1
    <2>7. ~IsVoid(new.value)
      <3>1. child \in Entries
        BY <1>0, <2>1, RankIs DEF Entries
      <3>2. ~IsVoid(normalizeValueForSchema(value, child).value)
        BY <1>1, <3>1, ScalarStays
      <3> QED
        BY <3>2 DEF Field
    <2>8. \E k \in DOMAIN t : t[k] = known[j]
      <3> HIDE DEF new, j
      <3> QED
        BY <1>2, <1>7, <2>1, <2>6, <2>7
    <2> QED
      BY <2>6, <2>8
  <1>4. CASE child = NoEntry
    <2>1. normalizeValueForSchema(value, child) = Normal(value)
      BY <1>1, <1>4, NoEntryNormal
    <2>2. new = fields[i]
      BY <1>0, <2>1 DEF Normal, Field, FieldsOf
    <2>3. i \in unknown
      <3> SUFFICES ASSUME NEW j \in DOMAIN children, Schema[children[j]].name = key PROVE FALSE
        BY DEF UnknownPlaces, unknown
      <3>1. Rank(entry, key) = j /\ j # 0
        BY <1>0, RankIs DEF NameAt
      <3> QED
        BY <1>0, <1>4, <3>1, RankIs
    <2> QED
      BY <1>8, <2>2, <2>3
  <1> QED
    BY <1>3, <1>4

\* The normal form of an object has the fields of the object in their order.
LEMMA FieldsInOrder ==
  ASSUME NEW entry \in DOMAIN Schema,
         NEW fields \in Seq(FieldsOf(STRING, Trees)), Distinct(fields), Ordered(fields, entry),
         NEW nested, NEW t, t = Rejoined(fields, Children(entry), nested),
         NEW i \in DOMAIN t, NEW j \in DOMAIN t, i < j,
         NEW p \in DOMAIN fields, fields[p].key = t[i].key,
         NEW q \in DOMAIN fields, fields[q].key = t[j].key
  PROVE  p < q
  <1> DEFINE known   == KnownFields(fields, Children(entry), nested)
             unknown == UnknownPlaces(fields, Children(entry))
             F       == FieldsOf(STRING, FieldValues(known))
  <1>0. entry \in Entries /\ p \in Nat /\ q \in Nat
    BY DEF Entries
  <1>1. /\ known \in Seq(F) /\ fields \in Seq(F) /\ unknown \subseteq DOMAIN fields
        /\ DOMAIN known = DOMAIN Children(entry)
        /\ \A k \in DOMAIN known : known[k].key = NameAt(entry, k)
    BY ObjectParts
  <1>2. Ordered(t, entry) /\ Distinct(t)
    BY ObjectRejoined
  <1>3. p # q
    <2>1. i \in Int /\ j \in Int /\ i # j
      <3>1. t \in Seq(F)
        BY ObjectRejoined
      <3> HIDE DEF F
      <3> QED
        BY <3>1
    <2> QED
      BY <1>2, <2>1 DEF Distinct
  <1> DEFINE R(k) == Rank(entry, t[k].key)
  <1>4. R(i) \in Nat /\ R(j) \in Nat
    BY <1>0, RankIs
  <1>5. R(j) > 0 => R(i) \in 1..R(j) - 1
    BY <1>2 DEF Ordered
  <1>6. q < p /\ R(i) > 0 => R(j) \in 1..R(i) - 1
    BY DEF Ordered
  <1>7. CASE R(i) > 0
    <2> HIDE DEF R
    <2> QED
      BY <1>0, <1>3, <1>4, <1>5, <1>6, <1>7
  <1>8. CASE ~(R(i) > 0)
    <2>1. t = Together(known, fields, unknown)
      BY DEF Rejoined
    <2>2. \A k \in DOMAIN known : known[k] # t[i]
      <3> SUFFICES ASSUME NEW k \in DOMAIN known, known[k] = t[i] PROVE FALSE
        OBVIOUS
      <3>1. R(i) = k /\ k > 0
        <4>1. k \in DOMAIN Children(entry) /\ t[i].key = NameAt(entry, k)
          BY <1>1
        <4> HIDE DEF known
        <4> QED
          BY <1>0, <4>1, RankIs
      <3> QED
        BY <1>8, <3>1
    <2> HIDE DEF F, known, unknown
    <2>3. known \in Seq(F) /\ fields \in Seq(F) /\ unknown \subseteq DOMAIN fields
      BY <1>1
    <2>4. \E a, b \in DOMAIN fields : a < b /\ t[i] = fields[a] /\ t[j] = fields[b]
      BY <2>1, <2>2, <2>3, UnknownInOrder
    <2> QED
      BY <2>4 DEF Distinct
  <1> QED
    BY <1>7, <1>8

LEMMA KeptIs ==
  ASSUME NEW F, NEW s \in Seq(F), NEW places, places \subseteq DOMAIN s,
         NEW kept, kept = Those(s, places)
  PROVE  /\ kept \in Seq(F)
         /\ \E at \in [DOMAIN kept -> places] :
              /\ \A k \in DOMAIN kept : kept[k] = s[at[k]]
              /\ \A j, k \in DOMAIN kept : j < k => at[j] < at[k]
              /\ \A i \in places : \E k \in DOMAIN kept : at[k] = i
  BY ThoseIs

\* Where a sequence has fields with keys of others.
Shared(s, fields) == {k \in DOMAIN s : s[k].key \in KeysOf(fields)}

\* It has for each of the others the one in `new`, in the same order.
HasInOrder(s, fields, new) ==
  /\ \A i \in DOMAIN fields : \E k \in DOMAIN s : s[k] = new[i] /\ new[i].key = fields[i].key
  /\ \A j, k \in DOMAIN s : \A p, q \in DOMAIN fields :
       j < k /\ fields[p].key = s[j].key /\ fields[q].key = s[k].key => p < q

\* It comes down to these when the rest is left out.
LEMMA FieldsLeft ==
  ASSUME NEW F, NEW s \in Seq(F), Distinct(s), NEW G, NEW fields \in Seq(G), Distinct(fields),
         NEW new, HasInOrder(s, fields, new),
         NEW kept, kept = Those(s, Shared(s, fields))
  PROVE  /\ DOMAIN kept = DOMAIN fields
         /\ \A i \in DOMAIN fields : kept[i] = new[i]
  <1> DEFINE m      == Len(fields)
             places == Shared(s, fields)
             l      == Len(kept)
             Was(k) == CHOOSE i \in DOMAIN fields : fields[i].key = kept[k].key
             was    == [k \in 1..l |-> Was(k)]
  <1>1. m \in Nat /\ DOMAIN fields = 1..m
    OBVIOUS
  <1>2. places \subseteq DOMAIN s /\ kept = Those(s, places)
    BY DEF Shared
  <1>3. \A k \in DOMAIN s : k \in places <=> s[k].key \in KeysOf(fields)
    BY DEF Shared
  <1> HIDE DEF places, m
  <1>4. /\ kept \in Seq(F)
        /\ \E at \in [DOMAIN kept -> places] :
             /\ \A k \in DOMAIN kept : kept[k] = s[at[k]]
             /\ \A j, k \in DOMAIN kept : j < k => at[j] < at[k]
             /\ \A i \in places : \E k \in DOMAIN kept : at[k] = i
    BY <1>2, KeptIs, SMTT(60)
  <1>5. PICK at \in [DOMAIN kept -> places] :
             /\ \A k \in DOMAIN kept : kept[k] = s[at[k]]
             /\ \A j, k \in DOMAIN kept : j < k => at[j] < at[k]
             /\ \A i \in places : \E k \in DOMAIN kept : at[k] = i
    BY <1>4
  <1>6. l \in Nat /\ DOMAIN kept = 1..l
    BY <1>4
  <1>7. ASSUME NEW k \in 1..l
        PROVE  was[k] \in 1..m /\ fields[was[k]].key = kept[k].key
    <2>1. kept[k].key \in KeysOf(fields)
      BY <1>2, <1>3, <1>5, <1>6
    <2>2. \E i \in DOMAIN fields : fields[i].key = kept[k].key
      BY <2>1 DEF KeysOf
    <2> QED
      BY <1>1, <2>2
  <1>13. was \in [1..l -> 1..m]
    <2> HIDE DEF Was, l
    <2> QED
      BY <1>7
  <1> HIDE DEF was
  <1>8. \A j, k \in 1..l : j < k => was[j] < was[k]
    <2> SUFFICES ASSUME NEW j \in 1..l, NEW k \in 1..l, j < k PROVE was[j] < was[k]
      OBVIOUS
    <2>1. /\ at[j] \in DOMAIN s /\ at[k] \in DOMAIN s /\ at[j] < at[k]
          /\ kept[j] = s[at[j]] /\ kept[k] = s[at[k]]
      BY <1>2, <1>5, <1>6
    <2>2. /\ was[j] \in 1..m /\ fields[was[j]].key = s[at[j]].key
          /\ was[k] \in 1..m /\ fields[was[k]].key = s[at[k]].key
      BY <1>7, <2>1
    <2> QED
      BY <1>1, <2>1, <2>2 DEF HasInOrder
  <1>9. ASSUME NEW i \in 1..m
        PROVE  \E k \in 1..l : was[k] = i /\ kept[k] = new[i]
    <2>1. PICK n \in DOMAIN s : s[n] = new[i] /\ new[i].key = fields[i].key
      BY <1>1 DEF HasInOrder
    <2>2. n \in places
      <3>1. s[n].key = fields[i].key /\ i \in DOMAIN fields
        BY <1>1, <2>1
      <3> QED
        BY <1>3, <3>1 DEF KeysOf
    <2>3. PICK k \in 1..l : at[k] = n
      BY <1>5, <1>6, <2>2
    <2>4. kept[k] = new[i]
      BY <1>5, <1>6, <2>1, <2>3
    <2>5. fields[was[k]].key = fields[i].key /\ was[k] \in DOMAIN fields
      BY <1>1, <1>7, <2>1, <2>4
    <2>6. was[k] = i
      BY <1>1, <2>5 DEF Distinct
    <2> QED
      BY <2>4, <2>6
  <1> HIDE DEF l
  <1>10. Filling(was, l, 0, m)
    <2>1. 0 + 1..0 + m = 1..m
      BY <1>1
    <2> QED
      BY <1>1, <1>6, <1>8, <1>9, <1>13, <2>1 DEF Filling
  <1>11. l = m /\ \A k \in 1..l : was[k] = k
    <2>1. 0 \in Nat /\ l = m /\ \A k \in 1..l : was[k] = 0 + k
      BY <1>1, <1>6, <1>10, OneByOne
    <2> QED
      BY <1>6, <2>1
  <1>12. \A i \in 1..m : kept[i] = new[i]
    BY <1>6, <1>9, <1>11
  <1> QED
    BY <1>1, <1>6, <1>11, <1>12

\* Without the fields it adds, it is the object with its values normalised.
LEMMA FieldsKept ==
  ASSUME NEW entry \in DOMAIN Schema,
         NEW fields \in Seq(FieldsOf(STRING, Trees)), Distinct(fields), Ordered(fields, entry),
         \A i \in DOMAIN fields :
           /\ ~IsVoid(fields[i].value)
           /\ Accepted(fields[i].value, ChildEntry(entry, fields[i].key)),
         NEW nested, nested = normalized[Cardinality(DOMAIN Schema)],
         NEW t, t = Rejoined(fields, Children(entry), nested)
  PROVE  LET kept == Those(t, {k \in DOMAIN t : t[k].key \in KeysOf(fields)})
         IN  /\ DOMAIN kept = DOMAIN fields
             /\ \A i \in DOMAIN fields :
                  kept[i] = Field(fields[i].key,
                                  normalizeValueForSchema(fields[i].value,
                                                          ChildEntry(entry, fields[i].key)).value)
  <1> DEFINE New(i) == Field(fields[i].key,
                             normalizeValueForSchema(fields[i].value,
                                                     ChildEntry(entry, fields[i].key)).value)
             new    == [i \in DOMAIN fields |-> New(i)]
             F      == FieldsOf(STRING, FieldValues(KnownFields(fields, Children(entry), nested)))
             G      == FieldsOf(STRING, Trees)
             kept   == Those(t, Shared(t, fields))
  <1>1. t \in Seq(F) /\ Distinct(t)
    BY ObjectRejoined
  <1>2. fields \in Seq(G)
    OBVIOUS
  <1>3. \A i \in DOMAIN fields : \E k \in DOMAIN t : t[k] = New(i)
    BY FieldKept
  <1>4. \A i \in DOMAIN fields : New(i).key = fields[i].key
    BY DEF Field
  <1>5. \A j, k \in DOMAIN t : \A p, q \in DOMAIN fields :
           j < k /\ fields[p].key = t[j].key /\ fields[q].key = t[k].key => p < q
    BY FieldsInOrder
  <1> HIDE DEF New, F, G
  <1>6. \A i \in DOMAIN fields : new[i] = New(i)
    OBVIOUS
  <1> HIDE DEF new
  <1>7. HasInOrder(t, fields, new)
    BY <1>3, <1>4, <1>5, <1>6 DEF HasInOrder
  <1>8. DOMAIN kept = DOMAIN fields /\ \A i \in DOMAIN fields : kept[i] = new[i]
    BY <1>1, <1>2, <1>7, FieldsLeft
  <1> QED
    BY <1>6, <1>8 DEF New, Shared

\* Nothing is left out of a container that is compared with itself.
LEMMA TrimmedSelf ==
  ASSUME NEW tree \in Trees, IsContainer(tree) PROVE Trimmed(tree, tree) = tree
  <1>1. CASE tree.kind = "object"
    <2> DEFINE F == FieldsOf(STRING, Trees)
    <2>1. tree.fields \in Seq(F) /\ \E n \in Nat : tree \in ObjectsOf(Nested[n])
      <3>1. MaxDepth \in Nat /\ tree \in Nested[MaxDepth]
        BY DepthAssumption DEF Trees
      <3>2. MaxDepth # 0 /\ tree \in ObjectsOf(Nested[MaxDepth - 1])
        BY <1>1, <3>1, TreeShape
      <3>3. MaxDepth - 1 \in Nat
        BY <3>1, <3>2
      <3> QED
        BY <1>1, <3>2, <3>3, PartsAreTrees
    <2> HIDE DEF F
    <2>2. {i \in DOMAIN tree.fields : tree.fields[i].key \in KeysOf(tree.fields)} = DOMAIN tree.fields
      BY DEF KeysOf
    <2>3. Those(tree.fields, DOMAIN tree.fields) = tree.fields
      BY <2>1, ThoseAll
    <2>4. tree = Object(tree.fields)
      BY <2>1 DEF ObjectsOf, Object
    <2> QED
      BY <1>1, <2>2, <2>3, <2>4 DEF Trimmed
  <1>2. CASE tree.kind # "object"
    BY <1>2 DEF Trimmed
  <1> QED
    BY <1>1, <1>2

\* What a container that is in order is when its entry is applied again, without
\* what that adds: the container, its parts normalised.
LEMMA ReadAgain ==
  ASSUME NEW tree \in Trees, IsContainer(tree), tree \in Neat,
         NEW entry \in Entries, InOrder(tree, entry), Accepted(tree, entry)
  PROVE  LET new == Trimmed(normalizeValueForSchema(tree, entry).value, tree)
         IN  /\ new.kind = tree.kind
             /\ DOMAIN Parts(new) = DOMAIN Parts(tree)
             /\ \A i \in DOMAIN Parts(tree) :
                  /\ tree.kind = "object" => new.fields[i].key = tree.fields[i].key
                  /\ Parts(new)[i]
                       = normalizeValueForSchema(Parts(tree)[i], PartEntry(tree, i, entry)).value
  <1> DEFINE norm == normalizeValueForSchema(tree, entry)
             nested == normalized[Cardinality(DOMAIN Schema)]
             NewPart(i) == normalizeValueForSchema(Parts(tree)[i], PartEntry(tree, i, entry)).value
             new == Trimmed(norm.value, tree)
  <1>1. CASE entry = NoEntry
    <2>1. norm.value = tree
      BY <1>1, NoEntryNormal DEF Normal
    <2>2. new = tree
      BY <2>1, TrimmedSelf
    <2>3. ASSUME NEW i \in DOMAIN Parts(tree) PROVE NewPart(i) = Parts(tree)[i]
      <3>1. PartEntry(tree, i, entry) = NoEntry
        BY <1>1, EntriesBelow DEF PartEntry
      <3>2. Parts(tree)[i] \in Trees
        BY PartsAreTrees
      <3> QED
        BY <3>1, <3>2, NoEntryNormal DEF Normal
    <2> HIDE DEF NewPart
    <2> QED
      BY <2>2, <2>3 DEF NewPart
  <1>2. CASE entry \in DOMAIN Schema
    <2> DEFINE e == Schema[entry]
    <2>1. norm = normalizeGoverned(tree, e, nested) /\ norm # Failure
      BY <1>2, NormalUnfolds, FailureIs DEF Accepted
    <2>2. \A i \in DOMAIN Parts(tree) : ~IsVoid(Parts(tree)[i])
      BY NeatIs DEF NeatBelow, NeatTop
    <2>3. /\ e.children = Children(entry) /\ e.items = ItemEntry(entry)
      BY <1>2, SchemaAssumption DEF Children, ItemEntry
    <2>4. nested = normalized[Cardinality(DOMAIN Schema)]
      OBVIOUS
    <2>5. \A value, below : normalizeValueForSchema(value, below) = nested[below][value]
      BY DEF normalizeValueForSchema
    <2> HIDE DEF nested, e
    <2>6. CASE tree.kind = "object"
      <3> DEFINE fields == tree.fields
                 t      == Rejoined(fields, Children(entry), nested)
                 kept   == Those(t, {k \in DOMAIN t : t[k].key \in KeysOf(fields)})
                 F      == FieldsOf(STRING, Trees)
      <3>1. /\ fields \in Seq(F)
            /\ DOMAIN Parts(tree) = DOMAIN fields
            /\ \A i \in DOMAIN fields : Parts(tree)[i] = fields[i].value
        BY <2>6, PartsAreTrees
      <3>2. \A i \in DOMAIN fields : PartEntry(tree, i, entry) = ChildEntry(entry, fields[i].key)
        BY <2>6 DEF PartEntry
      <3>3. Distinct(fields) /\ \A i \in DOMAIN fields : ~IsVoid(fields[i].value)
        BY <2>2, <2>6, <3>1, NeatIs DEF NeatBelow, NeatTop
      <3>4. Ordered(fields, entry)
        BY <2>6, OrderlyIs DEF InOrder, Hereditary
      <3>5. \A i \in DOMAIN fields : Accepted(fields[i].value, ChildEntry(entry, fields[i].key))
        <4>1. \A i \in DOMAIN Parts(tree) : Accepted(Parts(tree)[i], PartEntry(tree, i, entry))
          BY <1>2, AcceptedIs, Zenon
        <4> QED
          BY <3>1, <3>2, <4>1
      <3>6. norm = normalizeObjectForSchema(fields, Children(entry), nested)
        BY <2>1, <2>3, <2>6 DEF normalizeGoverned
      <3>7. nonVoidObjectFields(fields) = fields
        <4> HIDE DEF F
        <4> QED
          BY <3>1, <3>3, NonVoidSame
      <3>8. norm.value = Object(t)
        <4>1. norm = Normal(Object(t))
          BY <2>1, <3>6, <3>7, NormalObjectIs
        <4> QED
          BY <4>1 DEF Normal
      <3>9. /\ DOMAIN kept = DOMAIN fields
            /\ \A i \in DOMAIN fields :
                 kept[i] = Field(fields[i].key,
                                 normalizeValueForSchema(fields[i].value,
                                                         ChildEntry(entry, fields[i].key)).value)
        BY <1>2, <2>4, <3>1, <3>3, <3>4, <3>5, FieldsKept
      <3>10. new = Object(kept)
        BY <2>6, <3>8 DEF Trimmed, Object
      <3> HIDE DEF t, kept, norm, new
      <3>11. new.kind = "object" /\ new.fields = kept
        BY <3>10 DEF Object
      <3>12. Parts(new) = [i \in DOMAIN kept |-> kept[i].value]
        BY <3>11 DEF Parts
      <3>13. \A i \in DOMAIN fields : kept[i].key = fields[i].key /\ kept[i].value = NewPart(i)
        <4> SUFFICES ASSUME NEW i \in DOMAIN fields
                     PROVE  kept[i].key = fields[i].key /\ kept[i].value = NewPart(i)
          OBVIOUS
        <4> DEFINE value == normalizeValueForSchema(fields[i].value,
                                                    ChildEntry(entry, fields[i].key)).value
        <4>1. value = NewPart(i)
          BY <3>1, <3>2
        <4>2. kept[i] = Field(fields[i].key, value)
          BY <3>9
        <4> HIDE DEF value, NewPart
        <4> QED
          BY <4>1, <4>2 DEF Field
      <3> HIDE DEF NewPart
      <3>14. DOMAIN kept = DOMAIN Parts(tree)
        BY <3>1, <3>9
      <3>15. /\ new.kind = tree.kind
             /\ DOMAIN Parts(new) = DOMAIN Parts(tree)
             /\ \A i \in DOMAIN Parts(tree) :
                  new.fields[i].key = tree.fields[i].key /\ Parts(new)[i] = NewPart(i)
        <4> HIDE DEF kept
        <4> QED
          BY <2>6, <3>1, <3>11, <3>12, <3>13, <3>14
      <3> QED
        BY <3>15 DEF NewPart, new, norm
    <2>7. CASE tree.kind = "array"
      <3> DEFINE items == tree.items
                 source == Those(items, {i \in DOMAIN items : ~IsVoid(items[i])})
                 outcomes == [i \in DOMAIN source |-> nested[e.items][source[i]]]
                 made == [i \in DOMAIN source |-> outcomes[i].value]
      <3>1. Parts(tree) = items /\ items \in Seq(Trees)
        BY <2>7, PartsAreTrees
      <3>2. norm = normalizeArrayForSchema(items, e.items, nested)
        BY <2>1, <2>7 DEF normalizeGoverned
      <3>3. norm = Normal(Array(made))
        BY <2>1, <3>2, Zenon DEF normalizeArrayForSchema
      <3>4. source = items
        <4>1. {i \in DOMAIN items : ~IsVoid(items[i])} = DOMAIN items
          BY <2>2, <3>1
        <4> QED
          BY <3>1, <4>1, ThoseAll
      <3>5. \A i \in DOMAIN items : made[i] = NewPart(i)
        <4>1. \A i \in DOMAIN items : made[i] = nested[e.items][items[i]].value
          BY <3>4
        <4>2. \A i \in DOMAIN items : PartEntry(tree, i, entry) = e.items
          BY <2>3, <2>7 DEF PartEntry
        <4> HIDE DEF made
        <4> QED
          BY <2>5, <3>1, <4>1, <4>2
      <3>6. DOMAIN made = DOMAIN items
        BY <3>4
      <3> HIDE DEF made, norm, NewPart
      <3>7. norm.value = Array(made)
        BY <3>3 DEF Normal
      <3>8. new = Array(made)
        BY <2>7, <3>7 DEF Trimmed, Array
      <3>9. new.kind = "array" /\ Parts(new) = made
        BY <3>8 DEF Array, Parts
      <3> HIDE DEF new
      <3> QED
        BY <2>7, <3>1, <3>5, <3>6, <3>9 DEF NewPart, new, norm
    <2> QED
      BY <2>6, <2>7 DEF IsContainer
  <1> QED
    BY <1>1, <1>2 DEF Entries

\* What is compared when a tree is read again.
ReadBack(p) ==
  \E entry \in Entries :
    /\ p.old \in Trees /\ p.old \in Neat /\ IsContainer(p.old)
    /\ InOrder(p.old, entry) /\ Accepted(p.old, entry)
    /\ p = Compared(normalizeValueForSchema(p.old, entry).value, p.old)

\* It is the same but for what is nested, and what is nested is such again.
LEMMA ReadBackSame ==
  ASSUME NEW p, ReadBack(p)
  PROVE  /\ SameButNested(p.new, p.old)
         /\ \A i \in ContainersIn(p.old) : ReadBack(Compared(Parts(p.new)[i], Parts(p.old)[i]))
  <1> DEFINE tree == p.old
  <1>1. PICK entry \in Entries :
          /\ tree \in Trees /\ tree \in Neat /\ IsContainer(tree)
          /\ InOrder(tree, entry) /\ Accepted(tree, entry)
          /\ p = Compared(normalizeValueForSchema(tree, entry).value, tree)
    BY DEF ReadBack
  <1> DEFINE Below(i) == PartEntry(tree, i, entry)
             New(i)   == normalizeValueForSchema(Parts(tree)[i], Below(i)).value
  <1>2. p.new = Trimmed(normalizeValueForSchema(tree, entry).value, tree)
    BY <1>1 DEF Compared
  <1>3. /\ p.new.kind = tree.kind
        /\ DOMAIN Parts(p.new) = DOMAIN Parts(tree)
        /\ \A i \in DOMAIN Parts(tree) :
             /\ tree.kind = "object" => p.new.fields[i].key = tree.fields[i].key
             /\ Parts(p.new)[i] = New(i)
    BY <1>1, <1>2, ReadAgain
  <1>4. ASSUME NEW i \in DOMAIN Parts(tree)
        PROVE  /\ Parts(tree)[i] \in Trees /\ Parts(tree)[i] \in Neat
               /\ Below(i) \in Entries /\ Accepted(Parts(tree)[i], Below(i))
    <2>1. Parts(tree)[i] \in Trees
      BY <1>1, PartsAreTrees
    <2>2. Parts(tree)[i] \in Neat
      BY <1>1, NeatIs DEF NeatBelow
    <2>3. Below(i) \in Entries /\ (entry = NoEntry => Below(i) = NoEntry)
      BY EntriesBelow DEF PartEntry
    <2>4. Accepted(Parts(tree)[i], Below(i))
      <3>1. CASE entry = NoEntry
        BY <2>1, <2>3, <3>1, NoEntryAccepts
      <3>2. CASE entry \in DOMAIN Schema
        BY <1>1, <3>2, AcceptedIs, Zenon
      <3> QED
        BY <3>1, <3>2 DEF Entries
    <2> QED
      BY <2>1, <2>2, <2>3, <2>4
  <1>5. \A i \in DOMAIN Parts(tree) : ~IsContainer(Parts(tree)[i]) => New(i) = Parts(tree)[i]
    BY <1>4, ScalarStays
  <1>6. ASSUME NEW i \in ContainersIn(tree)
        PROVE  ReadBack(Compared(Parts(p.new)[i], Parts(tree)[i]))
    <2> DEFINE q == Compared(New(i), Parts(tree)[i])
    <2>1. i \in DOMAIN Parts(tree) /\ IsContainer(Parts(tree)[i])
      BY DEF ContainersIn
    <2>2. InOrder(Parts(tree)[i], Below(i))
      <3> DEFINE place == [tree |-> tree, entry |-> entry]
      <3>1. place \in Orderly
        BY <1>1 DEF InOrder
      <3>2. PartAt(place, i) \in Orderly
        BY <3>1, OrderlyIs DEF Hereditary
      <3> QED
        BY <3>2 DEF InOrder, PartAt
    <2>3. q.old = Parts(tree)[i]
      BY DEF Compared
    <2>4. ReadBack(q)
      BY <1>4, <2>1, <2>2, <2>3 DEF ReadBack
    <2> QED
      BY <1>3, <2>1, <2>4
  <1> QED
    BY <1>3, <1>5, <1>6 DEF SameButNested

\* One container extends another when they are among pairs, each the same but for
\* what is nested, that what is nested does not lead out of.
LEMMA ExtendsBy ==
  ASSUME NEW new, NEW old, NEW pairs, Compared(new, old) \in pairs, Within(pairs) \subseteq pairs,
         \A p \in pairs : SameButNested(p.new, p.old)
  PROVE  Extends(new, old)
  <1> DEFINE Start == {Compared(new, old)}
             Begins(g, n) == g[0] = Start /\ \A i \in 1..n : g[i] = Within(g[i - 1])
             T == {n \in Nat : \E g : Begins(g, n)}
             b == [n \in Nat |-> CHOOSE g : Begins(g, n)]
             f == [n \in Nat |-> b[n][n]]
             at == CHOOSE at : at = [depth \in Nat |-> IF depth = 0 THEN Start ELSE Within(at[depth - 1])]
  <1> HIDE DEF Start
  <1>1. \A n \in Nat : n \in T
    <2>1. 0 \in T
      <3>1. Begins([i \in {0} |-> Start], 0)
        OBVIOUS
      <3> QED
        BY <3>1
    <2>2. ASSUME NEW n \in Nat, n \in T PROVE n + 1 \in T
      <3>1. PICK g : Begins(g, n)
        BY <2>2
      <3> DEFINE h == [i \in 0..n + 1 |-> IF i = n + 1 THEN Within(g[n]) ELSE g[i]]
      <3>2. h[0] = Start
        BY <3>1
      <3>3. ASSUME NEW i \in 1..n + 1 PROVE h[i] = Within(h[i - 1])
        <4>1. i - 1 \in 0..n + 1 /\ i - 1 # n + 1
          OBVIOUS
        <4>2. h[i - 1] = g[i - 1]
          BY <4>1
        <4>3. CASE i = n + 1
          BY <4>2, <4>3
        <4>4. CASE i # n + 1
          <5>1. i \in 1..n /\ h[i] = g[i]
            BY <4>4
          <5> QED
            BY <3>1, <4>2, <5>1
        <4> QED
          BY <4>3, <4>4
      <3> HIDE DEF h
      <3>4. Begins(h, n + 1)
        BY <3>2, <3>3
      <3> QED
        BY <3>4
    <2> HIDE DEF T
    <2> QED
      BY <2>1, <2>2, Induction
  <1>2. ASSUME NEW n \in Nat PROVE Begins(b[n], n)
    BY <1>1
  <1>3. ASSUME NEW n \in Nat, NEW m \in Nat, n <= m PROVE b[n][n] = b[m][n]
    <2> DEFINE U == {i \in Nat : i <= n => b[n][i] = b[m][i]}
    <2>1. 0 \in U
      BY <1>2
    <2>2. ASSUME NEW i \in Nat, i \in U PROVE i + 1 \in U
      <3> SUFFICES ASSUME i + 1 <= n PROVE b[n][i + 1] = b[m][i + 1]
        OBVIOUS
      <3> HIDE DEF b
      <3>1. i + 1 \in 1..n /\ i + 1 \in 1..m /\ i + 1 - 1 = i
        BY <1>3
      <3>2. b[n][i + 1] = Within(b[n][i]) /\ b[m][i + 1] = Within(b[m][i])
        BY <1>2, <3>1
      <3> QED
        BY <2>2, <3>1, <3>2
    <2> HIDE DEF U
    <2>3. n \in U
      BY <2>1, <2>2, Induction
    <2> QED
      BY <2>3 DEF U
  <1> HIDE DEF b
  <1>4. ASSUME NEW n \in Nat
        PROVE  f[n] = IF n = 0 THEN Start ELSE Within(f[n - 1])
    <2>1. CASE n = 0
      BY <1>2, <2>1
    <2>2. CASE n # 0
      <3>1. n - 1 \in Nat /\ n \in 1..n /\ n - 1 <= n
        BY <2>2
      <3>2. b[n - 1][n - 1] = b[n][n - 1]
        BY <1>3, <3>1
      <3> QED
        BY <1>2, <2>2, <3>1, <3>2
    <2> QED
      BY <2>1, <2>2
  <1>5. f = [n \in Nat |-> IF n = 0 THEN Start ELSE Within(f[n - 1])]
    BY <1>4
  <1> HIDE DEF f
  <1>6. at = [n \in Nat |-> IF n = 0 THEN Start ELSE Within(at[n - 1])]
    BY <1>5, Zenon
  <1>7. Extends(new, old) <=> \A depth \in 0..MaxDepth : \A p \in at[depth] : SameButNested(p.new, p.old)
    BY Zenon DEF Extends, Start
  <1> HIDE DEF at
  <1> DEFINE S == {n \in Nat : at[n] \subseteq pairs}
  <1>8. 0 \in S
    BY <1>6 DEF Start
  <1>9. ASSUME NEW n \in Nat, n \in S PROVE n + 1 \in S
    <2>1. n + 1 \in Nat /\ n + 1 # 0 /\ n + 1 - 1 = n
      OBVIOUS
    <2>2. at[n + 1] = Within(at[n])
      BY <1>6, <2>1
    <2>3. Within(at[n]) \subseteq Within(pairs)
      <3>1. at[n] \subseteq pairs
        BY <1>9
      <3> QED
        BY <3>1 DEF Within
    <2> QED
      BY <2>1, <2>2, <2>3
  <1> HIDE DEF S
  <1>10. \A n \in Nat : n \in S
    BY <1>8, <1>9, Induction
  <1>11. \A depth \in 0..MaxDepth : at[depth] \subseteq pairs
    BY <1>10, DepthAssumption DEF S
  <1> QED
    BY <1>7, <1>11

\* A tree in order that its entry accepts is read again with fields added only.
LEMMA ReadAgainExtends ==
  ASSUME NEW tree \in Trees, IsContainer(tree), tree \in Neat,
         NEW entry \in Entries, InOrder(tree, entry), Accepted(tree, entry)
  PROVE  Extends(normalizeValueForSchema(tree, entry).value, tree)
  <1> DEFINE Again(t, e) == Compared(normalizeValueForSchema(t, e).value, t)
             pairs == {p \in {Again(t, e) : t \in Trees, e \in Entries} : ReadBack(p)}
  <1>1. Again(tree, entry).old = tree
    BY DEF Compared
  <1>2. ReadBack(Again(tree, entry))
    BY <1>1 DEF ReadBack
  <1>3. \A p : ReadBack(p) => p \in pairs
    BY DEF ReadBack
  <1>4. Compared(normalizeValueForSchema(tree, entry).value, tree) \in pairs
    BY <1>2, <1>3
  <1>5. \A p \in pairs : ReadBack(p)
    OBVIOUS
  <1> HIDE DEF pairs, Again
  <1>6. \A p \in pairs :
          /\ SameButNested(p.new, p.old)
          /\ \A i \in ContainersIn(p.old) : Compared(Parts(p.new)[i], Parts(p.old)[i]) \in pairs
    BY <1>3, <1>5, ReadBackSame
  <1>7. Within(pairs) \subseteq pairs
    BY <1>6 DEF Within
  <1> QED
    BY <1>4, <1>6, <1>7, ExtendsBy

-----------------------------------------------------------------------------
(* The theorems.                                                           *)

\* Every accessor and mutator leaves the client with scalars and nodes there are,
\* no others are kept alive, and a node never has an entry without the schema.
THEOREM DocumentTypes == Spec => []TypeOK
  <1>1. DInv => TypeOK
    <2> SUFFICES ASSUME DInv PROVE TypeOK
      OBVIOUS
    <2> DEFINE D == DOMAIN heap
    <2>1. ASSUME NEW h \in Handles
          PROVE  IsVoid(hand[h]) \/ (IsRef(hand[h]) /\ hand[h].ref \in D)
      <3>1. hand[h] \in Links(D) /\ (IsRef(hand[h]) \/ IsVoid(hand[h]))
        BY DEF DInv
      <3> HIDE DEF D
      <3> QED
        BY <3>1, LinkOrScalar
    <2>2. Range(hand) = {hand[h] : h \in Handles}
      BY DEF DInv, Range
    <2>3. D = Reach(heap, {hand[h] : h \in Handles})
      BY <2>2 DEF DInv
    <2>4. ASSUME NEW r \in D
          PROVE  /\ \A s \in Slots(heap[r]) : s \in ScalarValues \/ (IsRef(s) /\ s.ref \in D)
                 /\ heap[r].schema \in BOOLEAN /\ heap[r].entry \in Entries
                 /\ heap[r].entry # NoEntry => heap[r].schema
      <3>1. heap[r] \in NodesWith(Links(D)) /\ (heap[r].entry # NoEntry => heap[r].schema)
        BY DEF DInv, DocOK, HeapOK
      <3> HIDE DEF D
      <3>2. Slots(heap[r]) \subseteq Links(D) /\ heap[r].schema \in BOOLEAN /\ heap[r].entry \in Entries
        BY <3>1, NodeShape
      <3>3. \A s \in Slots(heap[r]) : s \in ScalarValues \/ (IsRef(s) /\ s.ref \in D)
        BY <3>2, LinkOrScalar
      <3> QED
        BY <3>1, <3>2, <3>3
    <2> QED
      BY <2>1, <2>3, <2>4 DEF TypeOK, Entries
  <1> QED
    BY <1>1, DInvInit, DInvNext, PTL DEF Spec

\* Set, Append, Prepend, InsertAt, ApplySchema and Clone, on whatever node and in
\* whatever order: the child at a place the schema knows carries the entry of
\* that place, so that a later call on the child is checked against it.
THEOREM GovernedDown == Spec => []GovernedThroughout
  <1>1. DInv => GovernedThroughout
    <2> SUFFICES ASSUME DInv, NEW r \in DOMAIN heap
                 PROVE  IF heap[r].kind = "object"
                          THEN \A i \in DOMAIN heap[r].fields :
                                 LET f == heap[r].fields[i]
                                 IN  IsRef(f.value) /\ Known(heap[r].entry, f.key)
                                       => heap[f.value.ref].entry = ChildEntry(heap[r].entry, f.key)
                          ELSE ItemEntry(heap[r].entry) # NoEntry =>
                                 \A s \in Slots(heap[r]) :
                                   IsRef(s) => heap[s.ref].entry = ItemEntry(heap[r].entry)
      BY DEF GovernedThroughout
    <2>1. GovernedNode(heap, r) /\ heap[r] \in NodesWith(Links(DOMAIN heap))
      BY DEF DInv, DocOK, HeapOK
    <2>2. CASE heap[r].kind = "object"
      <3>1. Parts(heap[r]) = [i \in DOMAIN heap[r].fields |-> heap[r].fields[i].value]
        BY <2>2 DEF Parts
      <3> QED
        BY <2>1, <2>2, <3>1 DEF GovernedNode, PartEntry, Known
    <2>3. CASE heap[r].kind # "object"
      <3>1. heap[r].kind = "array"
        BY <2>1, <2>3, NodeShape
      <3> QED
        BY <2>1, <3>1 DEF GovernedNode, PartEntry, Slots, Range
    <2> QED
      BY <2>2, <2>3
  <1> QED
    BY <1>1, DInvInit, DInvNext, PTL DEF Spec

\* No sequence of calls leaves a Void item or field behind, or a key twice in an
\* object: what HasField, Len and the encoder report is what was stored.
THEOREM NothingHidden == Spec => []NoHiddenSlots
  <1>1. NInv => NoHiddenSlots
    BY DEF NInv, NeatHeap, NeatNode, Distinct, NoHiddenSlots
  <1> QED
    BY <1>1, DInvInit, DInvNext, PTL DEF Spec

\* No sequence of calls moves a field the schema knows out of the schema's order
\* (reorderObjectFieldsBySchema after each Set, normalizeObjectForSchema when a
\* schema is applied, attachSchema when a document is cloned).
THEOREM OrderKept == Spec => []CanonicalOrder
  <1>1. DInv => CanonicalOrder
    <2>1. DInv => \A r \in DOMAIN heap : OrderedNode(heap, r)
      BY DEF DInv, DocOK
    <2> QED
      BY <2>1 DEF CanonicalOrder, OrderedNode, Ordered, Rank
  <1> QED
    BY <1>1, DInvInit, DInvNext, PTL DEF Spec

\* A value that carries a schema entry is one the entry accepts, after any calls
\* on any nodes, shared or not: each mutator checks the one slot it changes (a
\* normalised value goes in, a required field stays), and that is enough.
THEOREM GovernedIsValid == OptionalDefaults => (Spec => []AlwaysValid)
  <1> SUFFICES ASSUME OptionalDefaults PROVE Spec => []AlwaysValid
    OBVIOUS
  <1>1. DInv /\ VInv => AlwaysValid
    <2> SUFFICES ASSUME DInv, VInv, NEW r \in DOMAIN heap, heap[r].entry # NoEntry
                 PROVE  normalizeValueForSchema(View(heap, Ref(r)), heap[r].entry).ok
      BY DEF AlwaysValid
    <2>1. Ref(r) \in Links(DOMAIN heap) /\ EntryOf(heap, Ref(r)) = heap[r].entry
      BY RefIs DEF Links, EntryOf
    <2>2. Accepted(View(heap, Ref(r)), heap[r].entry)
      BY <2>1, SeenValid
    <2> QED
      BY <2>2 DEF Accepted
  <1>2. Init => DInv /\ VInv
    BY DInvInit
  <1> QED
    BY <1>1, <1>2, DInvNext, PTL DEF Spec

\* Normalising once more what a schema governs already (ApplySchema on a document
\* read back, Set or Append with a value that was governed there) adds defaults at
\* most, and drops, changes or moves no field, at any depth.
THEOREM ReadAgainOnlyAdds == OptionalDefaults => (Spec => []RevalidationOnlyAdds)
  <1> SUFFICES ASSUME OptionalDefaults PROVE Spec => []RevalidationOnlyAdds
    OBVIOUS
  <1>1. DInv /\ VInv => RevalidationOnlyAdds
    <2> SUFFICES ASSUME DInv, VInv, NEW r \in DOMAIN heap, heap[r].entry # NoEntry
                 PROVE  Extends(normalizeValueForSchema(View(heap, Ref(r)), heap[r].entry).value,
                                View(heap, Ref(r)))
      BY DEF RevalidationOnlyAdds
    <2> DEFINE tree == View(heap, Ref(r))
    <2>1. Ref(r) \in Links(DOMAIN heap) /\ EntryOf(heap, Ref(r)) = heap[r].entry /\ ~IsVoid(Ref(r))
      BY RefIs DEF Links, EntryOf, IsVoid, Ref
    <2>2. DocOK(heap) /\ NInv
      BY DEF DInv, VInv
    <2>3. heap[r].entry \in Entries /\ HeapOK(heap)
      <3>1. HeapOK(heap) /\ heap[r] \in NodesWith(Links(DOMAIN heap))
        BY <2>2 DEF DocOK, HeapOK
      <3> QED
        BY <3>1, NodeShape
    <2>4. tree \in Neat /\ tree \in Trees
      BY <2>1, <2>2, SeenNeat
    <2>5. IsContainer(tree)
      <3>1. Cardinality(DOMAIN heap) <= MaxDepth
        <4>1. Cardinality(DOMAIN heap) \in Nat
          BY <2>3, FS_CardinalityType DEF HeapOK
        <4> QED
          BY <2>2, <4>1, BoundsAssumption, DepthAssumption DEF NInv
      <3>2. Grounded(heap)
        BY <2>2 DEF NInv, NeatHeap
      <3> DEFINE trees == [q \in DOMAIN heap |-> View(heap, Ref(q))]
      <3>3. trees \in [DOMAIN heap -> Nested[MaxDepth]] /\ tree = TreeAt(heap, trees, r)
        BY <2>3, <3>1, <3>2, ViewUnfolds DEF Trees
      <3> HIDE DEF trees, tree
      <3> QED
        BY <2>3, <3>3, TreeAtIs, DepthAssumption
    <2>6. Accepted(tree, heap[r].entry)
      BY <2>1, SeenValid
    <2>7. InOrder(tree, heap[r].entry)
      <3>1. \A q \in DOMAIN heap : OrderedNode(heap, q) /\ GovernedNode(heap, q)
        BY <2>2 DEF DocOK
      <3>2. InOrder(View(heap, Ref(r)), EntryOf(heap, Ref(r)))
        BY <2>1, <2>3, <3>1, ViewInOrder
      <3> QED
        BY <2>1, <3>2
    <2> QED
      BY <2>3, <2>4, <2>5, <2>6, <2>7, ReadAgainExtends
  <1>2. Init => DInv /\ VInv
    BY DInvInit
  <1> QED
    BY <1>1, <1>2, DInvNext, PTL DEF Spec

LEMMA GovernedSlotsAre ==
  ASSUME NEW g, HeapOK(g), NEW r \in DOMAIN g, NEW s
  PROVE  s \in GovernedSlots(g, r) <=>
           \E i \in DOMAIN Parts(g[r]) :
             s = Parts(g[r])[i] /\ PartEntry(g[r], i, g[r].entry) # NoEntry
  <1>1. g[r] \in NodesWith(Links(DOMAIN g))
    BY DEF HeapOK
  <1>2. CASE g[r].kind = "object"
    <2>1. Parts(g[r]) = [i \in DOMAIN g[r].fields |-> g[r].fields[i].value]
      BY <1>2 DEF Parts
    <2> QED
      BY <1>2, <2>1 DEF GovernedSlots, PartEntry, Known
  <1>3. CASE g[r].kind = "array"
    BY <1>3 DEF GovernedSlots, PartEntry, Slots, Range
  <1> QED
    BY <1>1, <1>2, <1>3, NodeShape

\* What a call stores where a schema governs is new: no value a client holds
\* gains a second way into a document with a schema.
THEOREM CopiesStored == Spec => StoresCopies
  <1> DEFINE Copies ==
        \A r \in DOMAIN heap' :
          LET before == IF r \in DOMAIN heap THEN GovernedSlots(heap, r) ELSE {}
          IN  RefsIn(GovernedSlots(heap', r) \ before) \cap DOMAIN heap = {}
  <1>1. DInv /\ DInv' /\ (StepOK \/ UNCHANGED vars) => [Copies]_vars
    <2> SUFFICES ASSUME DInv, DInv', NoNewWay(heap, heap') PROVE Copies
      BY DEF StepOK
    <2> SUFFICES ASSUME NEW r \in DOMAIN heap', NEW s \in GovernedSlots(heap', r), IsRef(s),
                        s.ref \in DOMAIN heap
                 PROVE  r \in DOMAIN heap /\ s \in GovernedSlots(heap, r)
      BY DEF RefsIn
    <2>1. HeapOK(heap) /\ HeapOK(heap')
      BY DEF DInv, DocOK
    <2>2. PICK i \in DOMAIN Parts(heap'[r]) :
            s = Parts(heap'[r])[i] /\ PartEntry(heap'[r], i, heap'[r].entry) # NoEntry
      BY <2>1, GovernedSlotsAre
    <2>3. GovernedPart(heap', r, i) /\ Parts(heap'[r])[i].ref \in DOMAIN heap
      BY <2>2 DEF GovernedPart
    <2>4. r \in DOMAIN heap /\ \E j : GovernedPart(heap, r, j) /\ Parts(heap[r])[j] = Parts(heap'[r])[i]
      BY <2>3 DEF NoNewWay
    <2>5. s \in GovernedSlots(heap, r)
      BY <2>1, <2>2, <2>4, GovernedSlotsAre DEF GovernedPart
    <2> QED
      BY <2>4, <2>5
  <1>2. StoresCopies <=> [][Copies]_vars
    BY DEF StoresCopies
  <1> HIDE DEF Copies
  <1> QED
    BY <1>1, <1>2, DInvInit, DInvNext, PTL DEF Spec

\* No call attaches a schema to a node that is there already, or takes it off
\* one: ApplySchema and WithoutSchema work on copies.
THEOREM SchemaKept == Spec => SchemaIsForLife
  <1> DEFINE Same == \A r \in DOMAIN heap \cap DOMAIN heap' :
                       /\ heap'[r].entry = heap[r].entry
                       /\ heap'[r].schema = heap[r].schema
  <1>1. StepOK \/ UNCHANGED vars => [Same]_vars
    BY DEF StepOK, SameSchemas
  <1>2. SchemaIsForLife <=> [][Same]_vars
    BY DEF SchemaIsForLife
  <1> HIDE DEF Same
  <1> QED
    BY <1>1, <1>2, DInvInit, DInvNext, PTL DEF Spec
=============================================================================
