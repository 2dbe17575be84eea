------------------------------ MODULE NodeHeap ------------------------------
(***************************************************************************)
(* The *jsonNode heap behind JSONValue (value.go).  A JSONValue is a       *)
(* pointer to a node, so two values may share one, and a mutator changes   *)
(* the node in place under every value that reaches it.                    *)
(*                                                                         *)
(* Only objects and arrays are nodes here: no operation changes a scalar   *)
(* node after it is built, so a scalar is kept in the slot that holds it.  *)
(* A slot is a scalar or Ref(r).  A node carries the two schema pointers   *)
(* of jsonNode: `schema` (is there an attached schema) and `entry` (the    *)
(* entry that governs this node).                                          *)
(*                                                                         *)
(* The heap is a function from the names of the nodes there are.  A name   *)
(* says where the node was built: in which cell, and at which place of the *)
(* value built there.  Nodes no client can reach any more are garbage      *)
(* collected, as in Go.                                                    *)
(***************************************************************************)
EXTENDS SchemaRules

CONSTANT MaxNodes  \* bound: nodes alive between two calls

ASSUME BoundsAssumption == MaxNodes \in 1..MaxDepth

\* The schema compiler rejects two children of one name, and children of any
\* entry but an object's.
ASSUME SchemaAssumption ==
  /\ IsFiniteSet(DOMAIN Schema) /\ Root \in DOMAIN Schema /\ NoEntry \notin DOMAIN Schema
  /\ \A e \in DOMAIN Schema :
       /\ Schema[e].name \in STRING /\ Schema[e].default \in Trees
       /\ Schema[e].items \in DOMAIN Schema \cup {NoEntry}
       /\ Schema[e].children \in Seq(DOMAIN Schema)
       /\ Schema[e].children # <<>> => Schema[e].kind = "object"
       /\ \A i, j \in DOMAIN Schema[e].children :
            Schema[Schema[e].children[i]].name = Schema[Schema[e].children[j]].name => i = j

\* The entries that an entry looks to for what is inside its value.
EntriesIn(e) == Range(Schema[e].children) \cup {Schema[e].items}

\* An entry is compiled from its own part of the schema text, the entries it
\* looks to from parts within that part: none is below itself.
ASSUME LevelsAssumption ==
  \A entries \in SUBSET DOMAIN Schema :
    entries # {} => \E e \in entries : EntriesIn(e) \cap entries = {}

Address(cell, path) == [cell |-> cell, path |-> path]
Ref(r)      == [kind |-> "ref", ref |-> r]
IsRef(slot) == slot.kind = "ref"

EmptyHeap == [r \in {} |-> Void]

ObjectNode(fields, attached, entry) ==
  [kind |-> "object", fields |-> fields, schema |-> attached, entry |-> entry]
ArrayNode(items, attached, entry) ==
  [kind |-> "array", items |-> items, schema |-> attached, entry |-> entry]

KindOf(heap, slot) == IF IsRef(slot) THEN heap[slot.ref].kind ELSE slot.kind
IsObject(heap, slot) == KindOf(heap, slot) = "object"
IsArray(heap, slot)  == KindOf(heap, slot) = "array"

\* Schema() and the governing entry of a value.
HasSchema(heap, slot) == IsRef(slot) /\ heap[slot.ref].schema
EntryOf(heap, slot)   == IF IsRef(slot) THEN heap[slot.ref].entry ELSE NoEntry

\* The parts of a container, be it a tree or a node.
Parts(c) == IF c.kind = "array" THEN c.items
            ELSE [i \in DOMAIN c.fields |-> c.fields[i].value]

Slots(node)   == Range(Parts(node))
RefsIn(slots) == {s.ref : s \in {t \in slots : IsRef(t)}}

Reach(heap, slots) ==
  LET reach[seen \in SUBSET DOMAIN heap] ==
        LET next == UNION {RefsIn(Slots(heap[r])) : r \in seen}
        IN  IF next \subseteq seen THEN seen ELSE reach[seen \cup next]
  IN  reach[RefsIn(slots)]

Collect(heap, slots) == [r \in Reach(heap, slots) |-> heap[r]]

-----------------------------------------------------------------------------
(* The tree a slot denotes.  No value is inside itself, so that none nests *)
(* deeper than there are nodes.                                            *)

TreeOf(node, parts) ==
  IF node.kind = "array" THEN Array(parts)
  ELSE Object([i \in DOMAIN parts |-> Field(node.fields[i].key, parts[i])])

View(heap, slot) ==
  LET view[depth \in Nat] ==
        IF depth = 0 THEN [r \in DOMAIN heap |-> Void]
        ELSE [r \in DOMAIN heap |->
                LET Part(s) == IF IsRef(s) THEN view[depth - 1][s.ref] ELSE s
                    slots   == Parts(heap[r])
                IN  TreeOf(heap[r], [i \in DOMAIN slots |-> Part(slots[i])])]
  IN  IF IsRef(slot) THEN view[MaxDepth][slot.ref] ELSE slot

-----------------------------------------------------------------------------
(* A fresh copy of a tree.  Every container in it becomes a node, and gets *)
(* the schema entry that its place calls for (attachSchema).               *)

PartEntry(tree, i, entry) == IF tree.kind = "array" THEN ItemEntry(entry)
                             ELSE ChildEntry(entry, tree.fields[i].key)

PartAt(place, i) == [tree  |-> Parts(place.tree)[i],
                     entry |-> PartEntry(place.tree, i, place.entry)]

ContainersIn(tree) == {i \in DOMAIN Parts(tree) : IsContainer(Parts(tree)[i])}

\* The containers of a tree and their entries, by the path that leads to them.
Layout(tree, entry) ==
  LET layout[depth \in Nat] ==
        IF depth = 0 THEN [path \in {<<>>} |-> [tree |-> tree, entry |-> entry]]
        ELSE LET above == layout[depth - 1]
                 ends  == {path \in DOMAIN above : Len(path) = depth - 1}
                 new   == UNION {{Append(path, i) : i \in ContainersIn(above[path].tree)} :
                                   path \in ends}
             IN  [path \in DOMAIN above \cup new |->
                    IF path \in DOMAIN above THEN above[path]
                    ELSE PartAt(above[Front(path)], Last(path))]
  IN  layout[Depth(tree)]

\* A default was read from the text of the schema: readers neither store Void
\* nor one key twice.
ASSUME DefaultsAssumption ==
  \A e \in DOMAIN Schema :
    IsContainer(Schema[e].default) =>
      LET layout == Layout(Schema[e].default, NoEntry)
      IN  \A path \in DOMAIN layout :
            LET tree == layout[path].tree
            IN  /\ \A i \in DOMAIN Parts(tree) : ~IsVoid(Parts(tree)[i])
                /\ tree.kind = "object" =>
                     \A i, j \in DOMAIN tree.fields :
                       tree.fields[i].key = tree.fields[j].key => i = j

FreshCell(heap) ==
  CHOOSE c \in 1..Cardinality(DOMAIN heap) + 1 : \A r \in DOMAIN heap : r.cell # c

NodeOf(tree, slots, attached, entry) ==
  IF tree.kind = "array" THEN ArrayNode(slots, attached, entry)
  ELSE ObjectNode([i \in DOMAIN slots |-> Field(tree.fields[i].key, slots[i])],
                  attached, entry)

\* The node of the container at `path` of a tree stored in `cell`.
NodeAtPlace(place, attached, cell, path) ==
  LET parts   == Parts(place.tree)
      Slot(i) == IF IsContainer(parts[i]) THEN Ref(Address(cell, Append(path, i)))
                                          ELSE parts[i]
  IN  NodeOf(place.tree, [i \in DOMAIN parts |-> Slot(i)], attached, place.entry)

StoreContainer(heap, tree, attached, entry) ==
  LET cell   == FreshCell(heap)
      layout == Layout(tree, entry)
      new    == {Address(cell, path) : path \in DOMAIN layout}
  IN  [heap |-> [r \in DOMAIN heap \cup new |->
                   IF r \in DOMAIN heap THEN heap[r]
                   ELSE NodeAtPlace(layout[r.path], attached, cell, r.path)],
       slot |-> Ref(Address(cell, <<>>))]

Store(heap, tree, attached, entry) ==
  IF IsContainer(tree) THEN StoreContainer(heap, tree, attached, entry)
                       ELSE [heap |-> heap, slot |-> tree]

\* cloneJSONValue: a deep copy that carries no schema.
cloneJSONValue(heap, slot) == Store(heap, View(heap, slot), FALSE, NoEntry)
=============================================================================
