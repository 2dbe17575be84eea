-------------------------- MODULE PatchApplyProofs --------------------------
(***************************************************************************)
(* Applying a patch, for every document, schema, patch and value.          *)
(*                                                                         *)
(* The inductive invariant is PInv: the document, the argument, the patch  *)
(* and the draft share no node (Owned), the draft is a tree, and there are *)
(* no other nodes.  An operation is looked at with the heap cut in two,    *)
(* what the caller and the patch own and the rest (RegionsOK): it writes   *)
(* only to the rest, where every node stays in one place although a removal*)
(* leaves what it cut out behind, as garbage no owner reaches.             *)
(*                                                                         *)
(* The second half is about the trees that the nodes of a draft denote,    *)
(* and what becomes of them when a node is edited in place.  A map from    *)
(* the nodes of the draft to trees tells what they denote when each tree   *)
(* is the node's own with the trees of its parts in it (Tells).  An edit   *)
(* of one node changes the trees of the nodes on the way to it and no      *)
(* other: the draft is a tree, so that the way down from its root is the   *)
(* only one (EditTells).  The bound on the depth of a View is not met      *)
(* while an operation runs, and is again when garbage has been collected   *)
(* (ViewTold, ToldInTrees).                                                *)
(***************************************************************************)
EXTENDS PatchRefinement, NodeHeapProofs

\* A heap in two parts: the nodes of the caller, which are never written, and
\* the others, the draft and what has been cut out of it.  Neither refers to
\* the other.  No node of the draft has a schema or stands in two places.
Draft(h, C) == DOMAIN h \ C

RegionsOK(h, C) ==
  /\ HeapOK(h) /\ C \subseteq DOMAIN h /\ Closed(h, C)
  /\ Closed(h, Draft(h, C)) /\ OnePlace(h, Draft(h, C))
  /\ \A r \in Draft(h, C) : ~h[r].schema /\ h[r].entry = NoEntry

\* The slot is the root of a draft.
RootOK(h, C, slot) == slot \in Links(Draft(h, C)) /\ Unplaced(h, Draft(h, C), slot)

\* The nodes of the caller are still there as they were.
Kept(h, new, C) == C \subseteq DOMAIN new /\ \A r \in C : new[r] = h[r]

LEMMA VoidRoot == \A h, C : RootOK(h, C, Void)
  BY ScalarKind DEF RootOK, Links, Unplaced, ScalarValues

LEMMA SlotsOfDraft ==
  ASSUME NEW h, NEW C, RegionsOK(h, C), NEW r \in Draft(h, C)
  PROVE  /\ h[r] \in NodesWith(Links(Draft(h, C)))
         /\ Slots(h[r]) \subseteq Links(Draft(h, C))
         /\ \A slot \in Slots(h[r]) : IsRef(slot) => slot.ref \in Draft(h, C)
         /\ r \in DOMAIN h /\ Once(Parts(h[r]))
  <1>1. /\ r \in DOMAIN h /\ h[r] \in NodesWith(Links(DOMAIN h))
        /\ RefsIn(Slots(h[r])) \subseteq Draft(h, C) /\ Draft(h, C) \subseteq DOMAIN h
    BY DEF RegionsOK, HeapOK, Draft, Closed
  <1>2. h[r] \in NodesWith(Links(Draft(h, C)))
    BY <1>1, NodesWithMore
  <1>3. Slots(h[r]) \subseteq Links(Draft(h, C))
    BY <1>2, NodeShape
  <1>4. \A slot \in Slots(h[r]) : IsRef(slot) => slot.ref \in Draft(h, C)
    BY <1>3, LinkOrScalar
  <1>5. Once(Parts(h[r]))
    BY DEF RegionsOK, OnePlace, Once
  <1> QED
    BY <1>1, <1>2, <1>3, <1>4, <1>5

LEMMA CloneDraft ==
  ASSUME NEW h, NEW C, RegionsOK(h, C), NEW value \in Links(DOMAIN h)
  PROVE  LET copy == cloneJSONValue(h, value)
         IN  /\ RegionsOK(copy.heap, C) /\ RootOK(copy.heap, C, copy.slot)
             /\ Kept(h, copy.heap, C) /\ Draft(h, C) \subseteq Draft(copy.heap, C)
             /\ \A r \in Draft(h, C) : copy.heap[r] = h[r]
             /\ \A slot : RootOK(h, C, slot) =>
                  RootOK(copy.heap, C, slot) /\ (IsRef(slot) => slot # copy.slot)
  <1> DEFINE copy == cloneJSONValue(h, value)
             new  == copy.heap
             N == DOMAIN new \ DOMAIN h
             D == Draft(h, C)
             E == Draft(new, C)
  <1>0. HeapOK(h)
    BY DEF RegionsOK
  <1>1. StoredIn(h, new, copy.slot, View(h, value), FALSE, NoEntry)
    BY <1>0, Cloned
  <1> HIDE DEF copy
  <1>2. /\ HeapOK(new) /\ DOMAIN h \subseteq DOMAIN new /\ \A r \in DOMAIN h : new[r] = h[r]
        /\ Closed(new, N) /\ OnePlace(new, N)
        /\ copy.slot \in Links(N) /\ Unplaced(new, N, copy.slot)
        /\ \A r \in N : new[r].schema = FALSE /\ new[r].entry = NoEntry
    BY <1>1 DEF StoredIn, Added
  <1>3. E = D \cup N /\ D \cap N = {} /\ D \subseteq DOMAIN h /\ C \subseteq DOMAIN h
    BY <1>2 DEF Draft, RegionsOK
  <1> HIDE DEF new, N, D, E
  <1>4. \A r \in D : new[r] = h[r] /\ Slots(new[r]) = Slots(h[r]) /\ Parts(new[r]) = Parts(h[r])
    BY <1>2, <1>3
  <1>5. \A r \in D : \A slot \in Slots(new[r]) : IsRef(slot) => slot.ref \in D
    BY <1>4, SlotsOfDraft DEF D
  <1>6. \A r \in N : Slots(new[r]) \subseteq Links(N)
    <2> SUFFICES ASSUME NEW r \in N PROVE Slots(new[r]) \subseteq Links(N)
      OBVIOUS
    <2>1. /\ r \in DOMAIN new /\ new[r] \in NodesWith(Links(DOMAIN new))
          /\ RefsIn(Slots(new[r])) \subseteq N /\ N \subseteq DOMAIN new
      BY <1>2 DEF HeapOK, Closed, N
    <2>2. new[r] \in NodesWith(Links(N))
      BY <2>1, NodesWithMore
    <2> QED
      BY <2>2, NodeShape
  <1>7. \A r \in N : \A slot \in Slots(new[r]) : IsRef(slot) => slot.ref \in N
    BY <1>6, LinkOrScalar
  <1>8. Closed(new, C) /\ Kept(h, new, C)
    BY <1>2, <1>3 DEF Closed, RegionsOK, Kept
  <1>9. Closed(new, E)
    <2>1. \A r \in D : RefsIn(Slots(new[r])) \subseteq D
      BY <1>4 DEF RegionsOK, Closed, D
    <2>2. \A r \in N : RefsIn(Slots(new[r])) \subseteq N
      BY <1>2 DEF Closed
    <2> QED
      BY <1>3, <2>1, <2>2 DEF Closed
  <1>10. \A r \in DOMAIN new : \A i \in DOMAIN Parts(new[r]) : Parts(new[r])[i] \in Slots(new[r])
    BY DEF Slots, Range
  <1>11. OnePlace(new, E)
    <2> SUFFICES ASSUME NEW p \in E, NEW q \in E,
                        NEW i \in DOMAIN Parts(new[p]), NEW j \in DOMAIN Parts(new[q]),
                        IsRef(Parts(new[p])[i]), Parts(new[p])[i] = Parts(new[q])[j]
                 PROVE  p = q /\ i = j
      BY DEF OnePlace
    <2>1. p \in DOMAIN new /\ q \in DOMAIN new
      BY DEF E, Draft
    <2>2. Parts(new[p])[i] \in Slots(new[p]) /\ Parts(new[q])[j] \in Slots(new[q])
      BY <1>10, <2>1
    <2>3. p \in D <=> q \in D
      BY <1>3, <1>5, <1>7, <2>2
    <2>4. CASE p \in D /\ q \in D
      <3>1. /\ i \in DOMAIN Parts(h[p]) /\ j \in DOMAIN Parts(h[q]) /\ IsRef(Parts(h[p])[i])
            /\ Parts(h[p])[i] = Parts(h[q])[j]
        BY <1>4, <2>4
      <3>2. OnePlace(h, D)
        BY DEF RegionsOK, D
      <3> QED
        BY <2>4, <3>1, <3>2 DEF OnePlace
    <2>5. CASE p \in N /\ q \in N
      BY <1>2, <2>5 DEF OnePlace
    <2> QED
      BY <1>3, <2>3, <2>4, <2>5
  <1>12. \A r \in E : ~new[r].schema /\ new[r].entry = NoEntry
    <2>1. \A r \in D : ~h[r].schema /\ h[r].entry = NoEntry
      BY DEF RegionsOK, D
    <2> QED
      BY <1>2, <1>3, <1>4, <2>1
  <1>13. RegionsOK(new, C)
    BY <1>2, <1>3, <1>8, <1>9, <1>11, <1>12 DEF RegionsOK, E
  <1>14. RootOK(new, C, copy.slot)
    <2>1. copy.slot \in Links(E)
      BY <1>2, <1>3, LinksWithin
    <2>2. IsRef(copy.slot) => copy.slot.ref \in N
      BY <1>2, LinkOrScalar
    <2>3. Unplaced(new, E, copy.slot)
      BY <1>2, <1>3, <1>5, <2>2 DEF Unplaced
    <2> QED
      BY <2>1, <2>3 DEF RootOK, E
  <1>15. ASSUME NEW slot, RootOK(h, C, slot)
         PROVE  RootOK(new, C, slot) /\ (IsRef(slot) => slot # copy.slot)
    <2>1. slot \in Links(D) /\ Unplaced(h, D, slot)
      BY <1>15 DEF RootOK, D
    <2>2. slot \in Links(E) /\ (IsRef(slot) => slot.ref \in D)
      BY <1>3, <2>1, LinksWithin, LinkOrScalar
    <2>3. Unplaced(new, E, slot)
      BY <1>3, <1>4, <1>7, <2>1, <2>2 DEF Unplaced
    <2>4. IsRef(copy.slot) => copy.slot.ref \in N
      BY <1>2, LinkOrScalar
    <2> QED
      BY <1>3, <2>2, <2>3, <2>4 DEF RootOK, E
  <1> QED
    BY <1>3, <1>4, <1>8, <1>13, <1>14, <1>15 DEF new, copy, D, E

\* A node of the draft may be given other parts: its own, and one root.
LEMMA EditDraft ==
  ASSUME NEW h, NEW C, RegionsOK(h, C), NEW root, RootOK(h, C, root),
         NEW slot, RootOK(h, C, slot), IsRef(slot) => slot # root,
         NEW r \in Draft(h, C), NEW node \in NodesWith(Links(Draft(h, C))),
         node.schema = h[r].schema, node.entry = h[r].entry,
         Rearranged(Parts(h[r]), Parts(node), slot)
  PROVE  LET new == [h EXCEPT ![r] = node]
         IN  RegionsOK(new, C) /\ RootOK(new, C, root) /\ Kept(h, new, C)
  <1> DEFINE new == [h EXCEPT ![r] = node]
             D == Draft(h, C)
  <1>1. /\ DOMAIN new = DOMAIN h /\ Draft(new, C) = D /\ r \in DOMAIN h /\ r \notin C
        /\ new[r] = node /\ \A q \in DOMAIN h : q # r => new[q] = h[q]
        /\ D \subseteq DOMAIN h /\ C \subseteq DOMAIN h
        /\ new = [q \in DOMAIN new |-> new[q]]
    BY DEF Draft, RegionsOK
  <1> HIDE DEF new, D
  <1>2. Kept(h, new, C) /\ Closed(new, C)
    BY <1>1 DEF Kept, Closed, RegionsOK
  <1>3. HeapOK(new)
    <2>1. \A q \in DOMAIN h : h[q] \in NodesWith(Links(DOMAIN h))
      BY DEF RegionsOK, HeapOK
    <2>2. node \in NodesWith(Links(DOMAIN h))
      <3>1. Links(D) \subseteq Links(DOMAIN h)
        BY <1>1, LinksWithin
      <3> QED
        BY <3>1, NodesWithin DEF D
    <2>3. \A q \in DOMAIN new : new[q] \in NodesWith(Links(DOMAIN new))
      BY <1>1, <2>1, <2>2
    <2>4. new \in [DOMAIN new -> NodesWith(Links(DOMAIN new))]
      BY <1>1, <2>3
    <2> QED
      BY <1>1, <2>4 DEF HeapOK, RegionsOK
  <1>4. \A q \in D : Slots(new[q]) \subseteq Links(D)
    <2>1. Slots(node) \subseteq Links(D)
      BY NodeShape DEF D
    <2>2. \A q \in D : Slots(h[q]) \subseteq Links(D)
      BY SlotsOfDraft DEF D
    <2> QED
      BY <1>1, <2>1, <2>2
  <1>5. Closed(new, D)
    BY <1>4, RefsOfLinks DEF Closed
  <1>6. OnePlace(h, D) /\ Unplaced(h, D, slot) /\ Unplaced(h, D, root) /\ root \in Links(D)
    BY DEF RegionsOK, RootOK, D
  <1>7. \A q \in D : \A i \in DOMAIN Parts(h[q]) : Parts(h[q])[i] \in Slots(h[q])
    BY DEF Slots, Range
  <1>8. r \in D
    BY DEF D
  <1>9. ASSUME NEW i \in DOMAIN Parts(node), IsRef(Parts(node)[i]),
               NEW q \in D, q # r, NEW j \in DOMAIN Parts(h[q])
        PROVE  Parts(node)[i] # Parts(h[q])[j]
    <2>1. CASE Parts(node)[i] = slot
      BY <1>6, <1>7, <1>9, <2>1 DEF Unplaced
    <2>2. CASE Parts(node)[i] # slot
      <3>1. PICK k \in DOMAIN Parts(h[r]) : Parts(h[r])[k] = Parts(node)[i]
        BY <1>9, <2>2 DEF Rearranged
      <3> QED
        BY <1>6, <1>8, <1>9, <3>1 DEF OnePlace
    <2> QED
      BY <2>1, <2>2
  <1>10. OnePlace(new, D)
    <2> SUFFICES ASSUME NEW p \in D, NEW q \in D,
                        NEW i \in DOMAIN Parts(new[p]), NEW j \in DOMAIN Parts(new[q]),
                        IsRef(Parts(new[p])[i]), Parts(new[p])[i] = Parts(new[q])[j]
                 PROVE  p = q /\ i = j
      BY DEF OnePlace
    <2>1. CASE p = r /\ q = r
      BY <1>1, <2>1 DEF Rearranged, Once
    <2>2. CASE p = r /\ q # r
      BY <1>1, <1>9, <2>2
    <2>3. CASE p # r /\ q = r
      BY <1>1, <1>9, <2>3
    <2>4. CASE p # r /\ q # r
      <3>1. new[p] = h[p] /\ new[q] = h[q]
        BY <1>1, <2>4
      <3> QED
        BY <1>6, <3>1 DEF OnePlace
    <2> QED
      BY <2>1, <2>2, <2>3, <2>4
  <1>11. Unplaced(new, D, root)
    <2> SUFFICES ASSUME IsRef(root), NEW p \in D, root \in Slots(new[p]) PROVE FALSE
      BY DEF Unplaced
    <2>1. p = r
      BY <1>1, <1>6 DEF Unplaced
    <2>2. PICK i \in DOMAIN Parts(node) : Parts(node)[i] = root
      BY <1>1, <2>1 DEF Slots, Range
    <2>3. CASE root = slot
      BY <2>3
    <2>4. CASE root # slot
      <3>1. PICK k \in DOMAIN Parts(h[r]) : Parts(h[r])[k] = root
        BY <2>2, <2>4 DEF Rearranged
      <3> QED
        BY <1>6, <1>7, <1>8, <3>1 DEF Unplaced
    <2> QED
      BY <2>3, <2>4
  <1>12. \A q \in D : ~new[q].schema /\ new[q].entry = NoEntry
    <2>1. \A q \in D : ~h[q].schema /\ h[q].entry = NoEntry
      BY DEF RegionsOK, D
    <2> QED
      BY <1>1, <1>8, <2>1
  <1>13. RegionsOK(new, C)
    BY <1>1, <1>2, <1>3, <1>5, <1>10, <1>12 DEF RegionsOK
  <1>14. RootOK(new, C, root)
    BY <1>1, <1>6, <1>11 DEF RootOK
  <1> QED
    BY <1>2, <1>13, <1>14 DEF new

-----------------------------------------------------------------------------
(* Where a pointer leads.                                                  *)

LEMMA IndexIsInt == \A segment : parseArrayIndex(segment) \in Int
  <1> SUFFICES ASSUME NEW segment PROVE parseArrayIndex(segment) \in Int
    OBVIOUS
  <1> DEFINE Spells(n) == ToString(n) = segment
  <1>1. parseArrayIndex(segment) =
          IF segment # "-" /\ \E n \in 0..MaxIndex : Spells(n)
            THEN CHOOSE n \in 0..MaxIndex : Spells(n) ELSE -1
    BY DEF parseArrayIndex, NoIndex
  <1> HIDE DEF Spells
  <1>2. MaxIndex \in Nat
    BY PatchAssumption
  <1> QED
    BY <1>1, <1>2

\* Of a container in the draft.
LEMMA DraftNode ==
  ASSUME NEW h, NEW C, RegionsOK(h, C), NEW current \in Links(Draft(h, C))
  PROVE  /\ IsObject(h, current) =>
              /\ current.ref \in Draft(h, C) /\ h[current.ref].kind = "object"
              /\ h[current.ref] \in ObjectNodes(Links(Draft(h, C)))
              /\ h[current.ref].fields \in Seq(FieldsOf(STRING, Links(Draft(h, C))))
         /\ IsArray(h, current) =>
              /\ current.ref \in Draft(h, C) /\ h[current.ref].kind = "array"
              /\ h[current.ref] \in ArrayNodes(Links(Draft(h, C)))
              /\ h[current.ref].items \in Seq(Links(Draft(h, C)))
  <1>1. CASE IsRef(current)
    <2>1. current.ref \in Draft(h, C)
      BY <1>1, LinkOrScalar
    <2>2. h[current.ref] \in NodesWith(Links(Draft(h, C)))
      BY <2>1, SlotsOfDraft
    <2> QED
      BY <1>1, <2>1, <2>2, NodeShape DEF IsObject, IsArray, KindOf
  <1>2. CASE ~IsRef(current)
    <2>1. ~IsContainer(current)
      BY <1>2, LinkOrScalar, ScalarKind
    <2> QED
      BY <1>2, <2>1 DEF IsObject, IsArray, KindOf, IsContainer
  <1> QED
    BY <1>1, <1>2

LEMMA ChildInDraft ==
  ASSUME NEW h, NEW C, RegionsOK(h, C), NEW current \in Links(Draft(h, C)), NEW segment
  PROVE  Child(h, current, segment) \in Links(Draft(h, C))
  <1> DEFINE V == Links(Draft(h, C))
  <1>1. CASE IsObject(h, current)
    <2>1. GetField(h[current.ref].fields, segment) \in V \cup {Void}
      BY <1>1, DraftNode, GetFieldIn
    <2> QED
      BY <1>1, <2>1, VoidLinks DEF Child
  <1>2. CASE ~IsObject(h, current) /\ IsArray(h, current)
    <2>1. h[current.ref].items \in Seq(V) /\ parseArrayIndex(segment) \in Int
      BY <1>2, DraftNode, IndexIsInt
    <2>2. Child(h, current, segment) =
            IF parseArrayIndex(segment) + 1 \in DOMAIN h[current.ref].items
              THEN h[current.ref].items[parseArrayIndex(segment) + 1] ELSE Void
      BY <1>2 DEF Child
    <2> HIDE DEF V
    <2> QED
      BY <2>1, <2>2, VoidLinks DEF V
  <1>3. CASE ~IsObject(h, current) /\ ~IsArray(h, current)
    BY <1>3, VoidLinks DEF Child
  <1> QED
    BY <1>1, <1>2, <1>3

TargetOK(h, C, target) ==
  target.ok =>
    /\ target.parent \in Draft(h, C) /\ target.value \in Links(Draft(h, C))
    /\ h[target.parent].kind = "object" => target.place \in STRING
    /\ h[target.parent].kind = "array" =>
         /\ target.place \in 0..Len(h[target.parent].items)
         /\ Exists(target) => target.place # Len(h[target.parent].items)

LEMMA TargetInDraft ==
  ASSUME NEW h, NEW C, RegionsOK(h, C), NEW current \in Links(Draft(h, C)),
         NEW segment \in STRING, NEW allowAppend
  PROVE  TargetOK(h, C, TargetIn(h, current, segment, allowAppend))
  <1> DEFINE V == Links(Draft(h, C))
             target == TargetIn(h, current, segment, allowAppend)
  <1>1. \A p, n, v : /\ Target(p, n, v).parent = p /\ Target(p, n, v).place = n
                     /\ Target(p, n, v).value = v
    BY DEF Target
  <1>2. CASE IsObject(h, current)
    <2>1. target = Target(current.ref, segment, GetField(h[current.ref].fields, segment))
      BY <1>2 DEF TargetIn
    <2>2. GetField(h[current.ref].fields, segment) \in V \cup {Void}
      BY <1>2, DraftNode, GetFieldIn
    <2> HIDE DEF target
    <2> QED
      BY <1>1, <1>2, <2>1, <2>2, VoidLinks, DraftNode DEF TargetOK, target
  <1>3. CASE ~IsObject(h, current) /\ IsArray(h, current)
    <2> DEFINE items == h[current.ref].items
               index == IF segment = "-" THEN Len(items) ELSE parseArrayIndex(segment)
    <2>1. /\ current.ref \in Draft(h, C) /\ h[current.ref].kind = "array" /\ items \in Seq(V)
      BY <1>3, DraftNode
    <2>2. index \in Int
      BY <2>1, IndexIsInt
    <2>3. target = IF index + 1 \in DOMAIN items THEN Target(current.ref, index, items[index + 1])
                   ELSE IF index = Len(items) /\ allowAppend
                     THEN Target(current.ref, index, Void) ELSE NoTarget
      BY <1>3 DEF TargetIn
    <2> HIDE DEF target, index
    <2>4. CASE index + 1 \in DOMAIN items
      <3>1. target.parent = current.ref /\ target.place = index /\ target.value = items[index + 1]
        BY <1>1, <2>3, <2>4
      <3>2. items[index + 1] \in V /\ index \in 0..Len(items) /\ index # Len(items)
        <4> HIDE DEF items, V
        <4> QED
          BY <2>1, <2>2, <2>4
      <3> QED
        BY <2>1, <3>1, <3>2 DEF TargetOK, target
    <2>5. CASE ~(index + 1 \in DOMAIN items) /\ index = Len(items) /\ allowAppend
      <3>1. target.parent = current.ref /\ target.place = index /\ target.value = Void
        BY <1>1, <2>3, <2>5
      <3>2. index \in 0..Len(items) /\ ~Exists(target)
        BY <2>2, <2>5, <3>1, VoidLinks DEF Exists
      <3> QED
        BY <2>1, <3>1, <3>2, VoidLinks DEF TargetOK, target
    <2>6. CASE ~(index + 1 \in DOMAIN items) /\ ~(index = Len(items) /\ allowAppend)
      BY <2>3, <2>6 DEF TargetOK, NoTarget, target
    <2> QED
      BY <2>4, <2>5, <2>6
  <1>4. CASE ~IsObject(h, current) /\ ~IsArray(h, current)
    BY <1>4 DEF TargetIn, TargetOK, NoTarget
  <1> QED
    BY <1>2, <1>3, <1>4

\* A pointer that starts in the draft stays in it.
LEMMA WalkIs ==
  ASSUME NEW h, NEW C, RegionsOK(h, C), NEW slot \in Links(Draft(h, C)), NEW segments
  PROVE  LET walk == Walk(h, slot, segments)
         IN  /\ walk \in [Nat -> Links(Draft(h, C))] /\ walk[0] = slot
             /\ \A n \in Nat : walk[n + 1] = Child(h, walk[n], segments[n + 1])
  <1> DEFINE V == Links(Draft(h, C))
             S == [n \in Nat |-> V]
             F == [n \in Nat |-> [x \in V |-> Child(h, x, segments[n + 1])]]
             Is(f) == f = [n \in Nat |-> IF n = 0 THEN slot ELSE Child(h, f[n - 1], segments[n])]
  <1>1. ASSUME NEW n \in Nat, NEW x \in V
        PROVE  F[n][x] \in V /\ F[n][x] = Child(h, x, segments[n + 1])
    BY ChildInDraft
  <1>2. \A n \in Nat : \A x \in S[n] : F[n][x] \in S[n + 1]
    BY <1>1
  <1> HIDE DEF F, V
  <1>3. PICK f : /\ f = [n \in Nat |-> IF n = 0 THEN slot ELSE F[n - 1][f[n - 1]]]
                 /\ \A n \in Nat : f[n] \in V
    <2>1. slot \in S[0]
      BY DEF V
    <2> HIDE DEF S
    <2>2. PICK f : /\ f = [n \in Nat |-> IF n = 0 THEN slot ELSE F[n - 1][f[n - 1]]]
                   /\ \A n \in Nat : f[n] \in S[n]
      BY <1>2, <2>1, Iteration
    <2>3. \A n \in Nat : f[n] \in V
      BY <2>2 DEF S
    <2> QED
      BY <2>2, <2>3
  <1>4. ASSUME NEW n \in Nat
        PROVE  f[n] = IF n = 0 THEN slot ELSE Child(h, f[n - 1], segments[n])
    <2>1. CASE n = 0
      BY <1>3, <2>1
    <2>2. CASE n # 0
      <3>1. n - 1 \in Nat /\ (n - 1) + 1 = n
        BY <2>2
      <3>2. f[n] = F[n - 1][f[n - 1]] /\ f[n - 1] \in V
        BY <1>3, <2>2, <3>1
      <3>3. F[n - 1][f[n - 1]] = Child(h, f[n - 1], segments[(n - 1) + 1])
        BY <1>1, <3>1, <3>2
      <3> QED
        BY <2>2, <3>1, <3>2, <3>3
    <2> QED
      BY <2>1, <2>2
  <1>5. Is(f)
    BY <1>3, <1>4
  <1> DEFINE current == CHOOSE g : Is(g)
  <1>6. Is(current)
    BY <1>5
  <1>7. Walk(h, slot, segments) = current
    BY Zenon DEF Walk
  <1> HIDE DEF current
  <1>8. current[0] = slot /\ \A n \in Nat : current[n + 1] = Child(h, current[n], segments[n + 1])
    BY <1>6
  <1>9. current \in [Nat -> V]
    <2> DEFINE T == {n \in Nat : current[n] \in V}
    <2>1. 0 \in T
      BY <1>8 DEF V
    <2>2. ASSUME NEW n \in Nat, n \in T PROVE n + 1 \in T
      BY <1>8, <2>2, ChildInDraft DEF V
    <2> HIDE DEF T
    <2>3. \A n \in Nat : n \in T
      BY <2>1, <2>2, Induction
    <2>4. \A n \in Nat : current[n] \in V
      BY <2>3 DEF T
    <2> QED
      BY <1>6, <2>4
  <1> QED
    BY <1>7, <1>8, <1>9 DEF V

LEMMA Resolved ==
  ASSUME NEW h, NEW C, RegionsOK(h, C), NEW slot \in Links(Draft(h, C)),
         NEW segments \in Seq(STRING), NEW allowAppend
  PROVE  TargetOK(h, C, resolvePointerTarget(h, slot, segments, allowAppend))
  <1> DEFINE last == Len(segments)
             end  == Walk(h, slot, segments)[last - 1]
  <1>1. CASE last = 0
    BY <1>1 DEF resolvePointerTarget, TargetOK, NoTarget
  <1>2. CASE last # 0
    <2>1. last - 1 \in Nat /\ segments[last] \in STRING
      BY <1>2
    <2>2. end \in Links(Draft(h, C))
      BY <2>1, WalkIs
    <2>3. resolvePointerTarget(h, slot, segments, allowAppend)
            = TargetIn(h, end, segments[last], allowAppend)
      BY <1>2 DEF resolvePointerTarget
    <2> HIDE DEF last, end
    <2> QED
      BY <2>1, <2>2, <2>3, TargetInDraft
  <1> QED
    BY <1>1, <1>2

-----------------------------------------------------------------------------
(* The operations.                                                         *)

\* The outcome is a draft again, and the nodes of the caller are kept.
OpOK(h, C, result) ==
  result.ok => /\ RegionsOK(result.heap, C) /\ RootOK(result.heap, C, result.slot)
               /\ Kept(h, result.heap, C)

LEMMA KeptTwice ==
  ASSUME NEW h, NEW k, NEW l, NEW C, Kept(h, k, C), Kept(k, l, C) PROVE Kept(h, l, C)
  BY DEF Kept

LEMMA BrokenOK == \A h, C : OpOK(h, C, Broken)
  BY DEF OpOK, Broken

LEMMA TargetStays ==
  ASSUME NEW h, NEW k, NEW C, NEW target, TargetOK(h, C, target),
         Draft(h, C) \subseteq Draft(k, C), \A r \in Draft(h, C) : k[r] = h[r]
  PROVE  TargetOK(k, C, target)
  <1>1. Links(Draft(h, C)) \subseteq Links(Draft(k, C))
    BY LinksWithin
  <1> QED
    BY <1>1 DEF TargetOK

\* A part of a root's draft is no root: the slot put in is in no node.
LEMMA RootInNoNode ==
  ASSUME NEW h, NEW C, NEW slot, RootOK(h, C, slot), NEW r \in Draft(h, C), IsRef(slot)
  PROVE  \A i \in DOMAIN Parts(h[r]) : Parts(h[r])[i] # slot
  BY DEF RootOK, Unplaced, Slots, Range

LEMMA ItemsPut ==
  ASSUME NEW h, NEW C, RegionsOK(h, C), NEW root, RootOK(h, C, root),
         NEW slot, RootOK(h, C, slot), IsRef(slot) => slot # root,
         NEW r \in Draft(h, C), h[r].kind = "array",
         NEW items \in Seq(Links(Draft(h, C))), Rearranged(h[r].items, items, slot)
  PROVE  OpOK(h, C, Result(EditItems(h, r, items), root))
  <1> DEFINE V == Links(Draft(h, C))
             node == [h[r] EXCEPT !.items = items]
  <1>1. h[r] \in ArrayNodes(V) /\ Parts(h[r]) = h[r].items
    BY SlotsOfDraft, NodeShape
  <1>2. /\ node \in NodesWith(V) /\ node.schema = h[r].schema /\ node.entry = h[r].entry
        /\ Parts(node) = items
    BY <1>1, ItemsEdited
  <1>3. EditItems(h, r, items) = [h EXCEPT ![r] = node]
    BY DEF EditItems
  <1> HIDE DEF node
  <1>4. /\ RegionsOK([h EXCEPT ![r] = node], C) /\ RootOK([h EXCEPT ![r] = node], C, root)
        /\ Kept(h, [h EXCEPT ![r] = node], C)
    BY <1>1, <1>2, EditDraft
  <1> QED
    BY <1>3, <1>4 DEF OpOK, Result

LEMMA FieldsPut ==
  ASSUME NEW h, NEW C, RegionsOK(h, C), NEW root, RootOK(h, C, root),
         NEW slot, RootOK(h, C, slot), IsRef(slot) => slot # root,
         NEW r \in Draft(h, C), h[r].kind = "object",
         NEW fields \in Seq(FieldsOf(STRING, Links(Draft(h, C)))),
         Rearranged(Parts(h[r]), ValuesIn(fields), slot)
  PROVE  OpOK(h, C, Result(EditFields(h, r, fields), root))
  <1> DEFINE V == Links(Draft(h, C))
             node == [h[r] EXCEPT !.fields = fields]
  <1>1. h[r] \in ObjectNodes(V)
    BY SlotsOfDraft, NodeShape
  <1>2. /\ node \in NodesWith(V) /\ node.schema = h[r].schema /\ node.entry = h[r].entry
        /\ Parts(node) = ValuesIn(fields)
    BY <1>1, FieldsEdited
  <1>3. EditFields(h, r, fields) = [h EXCEPT ![r] = node]
    BY DEF EditFields
  <1> HIDE DEF node
  <1>4. /\ RegionsOK([h EXCEPT ![r] = node], C) /\ RootOK([h EXCEPT ![r] = node], C, root)
        /\ Kept(h, [h EXCEPT ![r] = node], C)
    BY <1>1, <1>2, EditDraft
  <1> QED
    BY <1>3, <1>4 DEF OpOK, Result

\* What setField and removeField do to the parts of an object.
LEMMA PartsPut ==
  ASSUME NEW h, NEW C, RegionsOK(h, C), NEW slot, RootOK(h, C, slot),
         NEW r \in Draft(h, C), h[r].kind = "object", NEW key \in STRING
  PROVE  LET new == setField(h[r].fields, key, slot)
         IN  /\ new \in Seq(FieldsOf(STRING, Links(Draft(h, C))))
             /\ Rearranged(Parts(h[r]), ValuesIn(new), slot)
  <1> DEFINE V == Links(Draft(h, C))
             fields == h[r].fields
             parts  == ValuesIn(fields)
             new    == setField(fields, key, slot)
             i      == FieldIndex(fields, key)
  <1>1. /\ fields \in Seq(FieldsOf(STRING, V)) /\ Parts(h[r]) = parts /\ parts \in Seq(V)
        /\ Once(Parts(h[r])) /\ DOMAIN parts = DOMAIN fields
    BY SlotsOfDraft, NodeShape DEF ValuesIn
  <1>2. slot \in V /\ (IsRef(slot) => \A n \in DOMAIN parts : parts[n] # slot)
    BY <1>1, RootInNoNode DEF RootOK
  <1>3. /\ new \in Seq(FieldsOf(STRING, V)) /\ i \in 0..Len(fields)
        /\ ValuesIn(new) = IF i = 0 THEN Append(parts, slot) ELSE [parts EXCEPT ![i] = slot]
    <2>1. fields \in Seq(FieldsOf(STRING, V)) /\ slot \in V
      BY <1>1, <1>2
    <2> HIDE DEF V, fields
    <2> QED
      BY <2>1, FieldSet
  <1>4. Len(parts) = Len(fields)
    BY <1>1, ValuesOf DEF ValuesIn
  <1> HIDE DEF new, i, parts, fields, V
  <1>5. Rearranged(parts, ValuesIn(new), slot)
    <2>1. CASE i = 0
      BY <1>1, <1>2, <1>3, <2>1, AppendedParts
    <2>2. CASE i # 0
      <3>1. i \in 1..Len(parts)
        BY <1>3, <1>4, <2>2
      <3>2. Rearranged(parts, [parts EXCEPT ![i] = slot], slot)
        BY <1>1, <1>2, <3>1, ReplacedParts
      <3> QED
        BY <1>3, <2>2, <3>2
    <2> QED
      BY <2>1, <2>2
  <1> QED
    BY <1>1, <1>3, <1>5 DEF new, fields, V

LEMMA FieldPut ==
  ASSUME NEW h, NEW C, RegionsOK(h, C), NEW root, RootOK(h, C, root),
         NEW slot, RootOK(h, C, slot), IsRef(slot) => slot # root,
         NEW r \in Draft(h, C), h[r].kind = "object", NEW key \in STRING
  PROVE  OpOK(h, C, Result(EditFields(h, r, setField(h[r].fields, key, slot)), root))
  BY PartsPut, FieldsPut

LEMMA PartsCut ==
  ASSUME NEW h, NEW C, RegionsOK(h, C), NEW slot,
         NEW r \in Draft(h, C), h[r].kind = "object", NEW key
  PROVE  LET new == removeField(h[r].fields, key)
         IN  /\ new \in Seq(FieldsOf(STRING, Links(Draft(h, C))))
             /\ Rearranged(Parts(h[r]), ValuesIn(new), slot)
  <1> DEFINE V == Links(Draft(h, C))
             fields == h[r].fields
             parts  == ValuesIn(fields)
             new    == removeField(fields, key)
             i      == FieldIndex(fields, key)
  <1>1. /\ fields \in Seq(FieldsOf(STRING, V)) /\ Parts(h[r]) = parts /\ parts \in Seq(V)
        /\ Once(Parts(h[r]))
    BY SlotsOfDraft, NodeShape DEF ValuesIn
  <1>2. /\ new \in Seq(FieldsOf(STRING, V)) /\ i \in 0..Len(fields)
        /\ ValuesIn(new) = IF i = 0 THEN parts ELSE RemoveAt(parts, i)
    <2> HIDE DEF V, fields
    <2> QED
      BY <1>1, FieldRemoved
  <1>3. Len(parts) = Len(fields)
    BY <1>1, ValuesOf DEF ValuesIn
  <1> HIDE DEF new, i, parts, fields, V
  <1>4. Rearranged(parts, ValuesIn(new), slot)
    <2>1. CASE i = 0
      BY <1>1, <1>2, <2>1 DEF Rearranged
    <2>2. CASE i # 0
      <3>1. i \in 1..Len(parts)
        BY <1>2, <1>3, <2>2
      <3> QED
        BY <1>1, <1>2, <2>2, <3>1, RemovedParts
    <2> QED
      BY <2>1, <2>2
  <1> QED
    BY <1>1, <1>2, <1>4 DEF new, fields, V

LEMMA FieldCut ==
  ASSUME NEW h, NEW C, RegionsOK(h, C), NEW root, RootOK(h, C, root),
         NEW r \in Draft(h, C), h[r].kind = "object", NEW key
  PROVE  OpOK(h, C, Result(EditFields(h, r, removeField(h[r].fields, key)), root))
  <1>1. RootOK(h, C, Void) /\ ~IsRef(Void)
    BY VoidRoot, VoidLinks
  <1> QED
    BY <1>1, PartsCut, FieldsPut

LEMMA ArrayParts ==
  ASSUME NEW h, NEW C, RegionsOK(h, C), NEW r \in Draft(h, C), h[r].kind = "array"
  PROVE  h[r].items \in Seq(Links(Draft(h, C))) /\ Once(h[r].items) /\ Parts(h[r]) = h[r].items
  BY SlotsOfDraft, NodeShape

LEMMA AddedAtTarget ==
  ASSUME NEW copy, NEW C, RegionsOK(copy.heap, C), NEW root, RootOK(copy.heap, C, root),
         RootOK(copy.heap, C, copy.slot), IsRef(copy.slot) => copy.slot # root,
         NEW target, TargetOK(copy.heap, C, target), target.ok
  PROVE  OpOK(copy.heap, C, AddAtTarget(copy, target, root))
  <1> DEFINE h == copy.heap
             r == target.parent
             V == Links(Draft(h, C))
  <1>1. /\ r \in Draft(h, C) /\ (h[r].kind = "object" => target.place \in STRING)
        /\ h[r].kind = "array" => target.place \in 0..Len(h[r].items)
    BY DEF TargetOK
  <1>2. h[r].kind = "object" \/ h[r].kind = "array"
    BY <1>1, SlotsOfDraft, NodeShape
  <1>3. CASE h[r].kind = "array"
    <2> DEFINE items == h[r].items
               k == target.place + 1
    <2>1. items \in Seq(V) /\ Once(items) /\ Parts(h[r]) = items
      BY <1>1, <1>3, ArrayParts
    <2>2. copy.slot \in V /\ (IsRef(copy.slot) => \A i \in DOMAIN items : items[i] # copy.slot)
      BY <1>1, <2>1, RootInNoNode DEF RootOK
    <2>3. k \in 1..Len(items) + 1
      BY <1>1, <1>3
    <2>4. /\ InsertAt(items, k, copy.slot) \in Seq(V)
          /\ Rearranged(items, InsertAt(items, k, copy.slot), copy.slot)
      <3> HIDE DEF items, k, V
      <3> QED
        BY <2>1, <2>2, <2>3, InsertedParts
    <2>5. AddAtTarget(copy, target, root) = Result(EditItems(h, r, InsertAt(items, k, copy.slot)), root)
      BY <1>3 DEF AddAtTarget
    <2> HIDE DEF k
    <2> QED
      BY <1>1, <1>3, <2>4, <2>5, ItemsPut
  <1>4. CASE h[r].kind = "object"
    <2>1. AddAtTarget(copy, target, root)
            = Result(EditFields(h, r, setField(h[r].fields, target.place, copy.slot)), root)
      BY <1>4 DEF AddAtTarget
    <2> QED
      BY <1>1, <1>4, <2>1, FieldPut
  <1> QED
    BY <1>2, <1>3, <1>4

LEMMA PutThere ==
  ASSUME NEW copy, NEW C, RegionsOK(copy.heap, C), NEW root, RootOK(copy.heap, C, root),
         RootOK(copy.heap, C, copy.slot), IsRef(copy.slot) => copy.slot # root,
         NEW target, TargetOK(copy.heap, C, target), target.ok, Exists(target)
  PROVE  OpOK(copy.heap, C, PutAtTarget(copy, target, root))
  <1> DEFINE h == copy.heap
             r == target.parent
             V == Links(Draft(h, C))
  <1>1. /\ r \in Draft(h, C) /\ (h[r].kind = "object" => target.place \in STRING)
        /\ h[r].kind = "array" =>
             target.place \in 0..Len(h[r].items) /\ target.place # Len(h[r].items)
    BY DEF TargetOK
  <1>2. h[r].kind = "object" \/ h[r].kind = "array"
    BY <1>1, SlotsOfDraft, NodeShape
  <1>3. CASE h[r].kind = "array"
    <2> DEFINE items == h[r].items
               k == target.place + 1
    <2>1. items \in Seq(V) /\ Once(items) /\ Parts(h[r]) = items
      BY <1>1, <1>3, ArrayParts
    <2>2. copy.slot \in V /\ (IsRef(copy.slot) => \A i \in DOMAIN items : items[i] # copy.slot)
      BY <1>1, <2>1, RootInNoNode DEF RootOK
    <2>3. k \in 1..Len(items)
      BY <1>1, <1>3
    <2>4. /\ [items EXCEPT ![k] = copy.slot] \in Seq(V)
          /\ Rearranged(items, [items EXCEPT ![k] = copy.slot], copy.slot)
      <3> HIDE DEF items, k, V
      <3> QED
        BY <2>1, <2>2, <2>3, ReplacedParts
    <2>5. PutAtTarget(copy, target, root) = Result(EditItems(h, r, [items EXCEPT ![k] = copy.slot]), root)
      BY <1>3 DEF PutAtTarget
    <2> HIDE DEF k
    <2> QED
      BY <1>1, <1>3, <2>4, <2>5, ItemsPut
  <1>4. CASE h[r].kind = "object"
    <2>1. PutAtTarget(copy, target, root)
            = Result(EditFields(h, r, setField(h[r].fields, target.place, copy.slot)), root)
      BY <1>4 DEF PutAtTarget
    <2> QED
      BY <1>1, <1>4, <2>1, FieldPut
  <1> QED
    BY <1>2, <1>3, <1>4

\* What is done to a draft after a value has been cloned into it.
LEMMA AfterClone ==
  ASSUME NEW h, NEW k, NEW C, Kept(h, k, C), NEW result, OpOK(k, C, result)
  PROVE  OpOK(h, C, result)
  <1> SUFFICES ASSUME result.ok
               PROVE  RegionsOK(result.heap, C) /\ RootOK(result.heap, C, result.slot)
                      /\ Kept(h, result.heap, C)
    BY DEF OpOK
  <1>1. /\ RegionsOK(result.heap, C) /\ RootOK(result.heap, C, result.slot)
        /\ Kept(k, result.heap, C)
    BY DEF OpOK
  <1> QED
    BY <1>1, KeptTwice

LEMMA ResultOK ==
  ASSUME NEW h, NEW k, NEW C, RegionsOK(k, C), Kept(h, k, C), NEW root, RootOK(k, C, root)
  PROVE  OpOK(h, C, Result(k, root))
  BY DEF OpOK, Result

\* The clone of a value, the document, and a target in it.
LEMMA ClonedForTarget ==
  ASSUME NEW h, NEW C, RegionsOK(h, C), NEW slot, RootOK(h, C, slot),
         NEW value \in Links(DOMAIN h), NEW path \in Seq(STRING), NEW allowAppend
  PROVE  LET copy   == cloneJSONValue(h, value)
             target == resolvePointerTarget(h, slot, path, allowAppend)
         IN  /\ RegionsOK(copy.heap, C) /\ RootOK(copy.heap, C, slot)
             /\ RootOK(copy.heap, C, copy.slot) /\ (IsRef(copy.slot) => copy.slot # slot)
             /\ Kept(h, copy.heap, C) /\ TargetOK(copy.heap, C, target)
  <1> DEFINE copy   == cloneJSONValue(h, value)
             target == resolvePointerTarget(h, slot, path, allowAppend)
  <1>1. /\ RegionsOK(copy.heap, C) /\ RootOK(copy.heap, C, copy.slot)
        /\ Kept(h, copy.heap, C) /\ Draft(h, C) \subseteq Draft(copy.heap, C)
        /\ \A r \in Draft(h, C) : copy.heap[r] = h[r]
        /\ \A s : RootOK(h, C, s) =>
             RootOK(copy.heap, C, s) /\ (IsRef(s) => s # copy.slot)
    BY CloneDraft
  <1>2. TargetOK(h, C, target)
    BY Resolved DEF RootOK
  <1> HIDE DEF copy, target
  <1>3. TargetOK(copy.heap, C, target)
    BY <1>1, <1>2, TargetStays
  <1> QED
    BY <1>1, <1>3 DEF copy, target

LEMMA AddOK ==
  ASSUME NEW h, NEW C, RegionsOK(h, C), NEW slot, RootOK(h, C, slot),
         NEW value \in Links(DOMAIN h), NEW path \in Seq(STRING)
  PROVE  OpOK(h, C, applyAdd(h, slot, path, value))
  <1> DEFINE copy   == cloneJSONValue(h, value)
             target == resolvePointerTarget(h, slot, path, TRUE)
  <1>1. /\ RegionsOK(copy.heap, C) /\ RootOK(copy.heap, C, slot)
        /\ RootOK(copy.heap, C, copy.slot) /\ (IsRef(copy.slot) => copy.slot # slot)
        /\ Kept(h, copy.heap, C) /\ TargetOK(copy.heap, C, target)
    BY ClonedForTarget
  <1>2. applyAdd(h, slot, path, value) = IF IsVoid(value) THEN Broken
          ELSE IF path = <<>> THEN Result(copy.heap, copy.slot)
          ELSE IF target.ok THEN AddAtTarget(copy, target, slot) ELSE Broken
    BY DEF applyAdd, AddResolved
  <1> HIDE DEF copy, target
  <1>3. OpOK(h, C, Result(copy.heap, copy.slot))
    BY <1>1, ResultOK
  <1>4. target.ok => OpOK(h, C, AddAtTarget(copy, target, slot))
    <2> SUFFICES ASSUME target.ok PROVE OpOK(h, C, AddAtTarget(copy, target, slot))
      OBVIOUS
    <2>1. OpOK(copy.heap, C, AddAtTarget(copy, target, slot))
      BY <1>1, AddedAtTarget
    <2> QED
      BY <1>1, <2>1, AfterClone
  <1> QED
    BY <1>2, <1>3, <1>4, BrokenOK

LEMMA ReplaceOK ==
  ASSUME NEW h, NEW C, RegionsOK(h, C), NEW slot, RootOK(h, C, slot),
         NEW value \in Links(DOMAIN h), NEW path \in Seq(STRING)
  PROVE  OpOK(h, C, applyReplace(h, slot, path, value))
  <1> DEFINE copy   == cloneJSONValue(h, value)
             target == resolvePointerTarget(h, slot, path, FALSE)
  <1>1. /\ RegionsOK(copy.heap, C) /\ RootOK(copy.heap, C, slot)
        /\ RootOK(copy.heap, C, copy.slot) /\ (IsRef(copy.slot) => copy.slot # slot)
        /\ Kept(h, copy.heap, C) /\ TargetOK(copy.heap, C, target)
    BY ClonedForTarget
  <1>2. applyReplace(h, slot, path, value) = IF IsVoid(value) THEN Broken
          ELSE IF path = <<>> THEN Result(copy.heap, copy.slot)
          ELSE IF target.ok /\ Exists(target) THEN PutAtTarget(copy, target, slot) ELSE Broken
    BY DEF applyReplace, ReplaceResolved
  <1> HIDE DEF copy, target
  <1>3. OpOK(h, C, Result(copy.heap, copy.slot))
    BY <1>1, ResultOK
  <1>4. target.ok /\ Exists(target) => OpOK(h, C, PutAtTarget(copy, target, slot))
    <2> SUFFICES ASSUME target.ok, Exists(target) PROVE OpOK(h, C, PutAtTarget(copy, target, slot))
      OBVIOUS
    <2>1. OpOK(copy.heap, C, PutAtTarget(copy, target, slot))
      BY <1>1, PutThere
    <2> QED
      BY <1>1, <2>1, AfterClone
  <1> QED
    BY <1>2, <1>3, <1>4, BrokenOK

\* A removal also hands over a value that lives in the new heap.
RemovalOK(h, C, removal) ==
  /\ OpOK(h, C, removal)
  /\ removal.ok => removal.removed \in Links(DOMAIN removal.heap)

LEMMA RemovalIs ==
  ASSUME NEW h, NEW C, NEW k, NEW root, OpOK(h, C, Result(k, root)), NEW removed \in Links(DOMAIN k)
  PROVE  RemovalOK(h, C, Removal(k, root, removed))
  BY DEF RemovalOK, OpOK, Result, Removal

LEMMA RemoveItemOK ==
  ASSUME NEW h, NEW C, RegionsOK(h, C), NEW slot, RootOK(h, C, slot),
         NEW target, TargetOK(h, C, target), target.ok, Exists(target),
         h[target.parent].kind = "array"
  PROVE  RemovalOK(h, C, RemoveItem(h, slot, target))
  <1> DEFINE r == target.parent
             V == Links(Draft(h, C))
             items == h[r].items
             k == target.place + 1
             new == RemoveAt(items, k)
  <1>1. /\ r \in Draft(h, C) /\ target.value \in V
        /\ target.place \in 0..Len(items) /\ target.place # Len(items)
    BY DEF TargetOK
  <1>2. items \in Seq(V) /\ Once(items) /\ Parts(h[r]) = items
    BY <1>1, ArrayParts
  <1>3. k \in 1..Len(items)
    BY <1>1
  <1>4. new \in Seq(V) /\ Rearranged(items, new, Void)
    <2> HIDE DEF items, k, V
    <2> QED
      BY <1>2, <1>3, RemovedParts
  <1>5. RootOK(h, C, Void) /\ ~IsRef(Void)
    BY VoidRoot, VoidLinks
  <1>6. RemoveItem(h, slot, target) = Removal(EditItems(h, r, new), slot, target.value)
    BY DEF RemoveItem
  <1> HIDE DEF new
  <1>7. OpOK(h, C, Result(EditItems(h, r, new), slot))
    BY <1>1, <1>4, <1>5, ItemsPut
  <1>8. target.value \in Links(DOMAIN EditItems(h, r, new))
    <2>1. DOMAIN EditItems(h, r, new) = DOMAIN h /\ Draft(h, C) \subseteq DOMAIN h
      BY DEF EditItems, Draft
    <2> QED
      BY <1>1, <2>1, LinksWithin
  <1> QED
    BY <1>6, <1>7, <1>8, RemovalIs

LEMMA RemoveFieldOK ==
  ASSUME NEW h, NEW C, RegionsOK(h, C), NEW slot, RootOK(h, C, slot),
         NEW target, TargetOK(h, C, target), target.ok, h[target.parent].kind = "object"
  PROVE  RemovalOK(h, C, RemoveField(cloneJSONValue(h, target.value), slot, target))
  <1> DEFINE r == target.parent
             copy == cloneJSONValue(h, target.value)
             fields == copy.heap[r].fields
             new == EditFields(copy.heap, r, removeField(fields, target.place))
  <1>1. r \in Draft(h, C) /\ target.value \in Links(DOMAIN h)
    <2>1. Draft(h, C) \subseteq DOMAIN h
      BY DEF Draft
    <2> QED
      BY <2>1, LinksWithin DEF TargetOK
  <1>2. /\ RegionsOK(copy.heap, C) /\ RootOK(copy.heap, C, copy.slot)
        /\ Kept(h, copy.heap, C) /\ Draft(h, C) \subseteq Draft(copy.heap, C)
        /\ copy.heap[r] = h[r] /\ RootOK(copy.heap, C, slot)
    BY <1>1, CloneDraft
  <1>3. RemoveField(copy, slot, target) = Removal(new, slot, copy.slot)
    BY DEF RemoveField
  <1> HIDE DEF copy
  <1>4. OpOK(copy.heap, C, Result(new, slot))
    BY <1>1, <1>2, FieldCut
  <1>5. OpOK(h, C, Result(new, slot))
    BY <1>2, <1>4, AfterClone
  <1>6. copy.slot \in Links(DOMAIN new)
    <2>1. DOMAIN new = DOMAIN copy.heap /\ Draft(copy.heap, C) \subseteq DOMAIN copy.heap
      BY DEF EditFields, Draft
    <2> QED
      BY <1>2, <2>1, LinksWithin DEF RootOK
  <1> HIDE DEF new
  <1> QED
    BY <1>3, <1>5, <1>6, RemovalIs DEF copy

LEMMA RemoveOK ==
  ASSUME NEW h, NEW C, RegionsOK(h, C), NEW slot, RootOK(h, C, slot), NEW path \in Seq(STRING)
  PROVE  RemovalOK(h, C, applyRemove(h, slot, path))
  <1>1. CASE path = <<>>
    <2> DEFINE copy == cloneJSONValue(h, slot)
    <2>1. slot \in Links(DOMAIN h)
      <3>1. Draft(h, C) \subseteq DOMAIN h
        BY DEF Draft
      <3> QED
        BY <3>1, LinksWithin DEF RootOK
    <2>2. RegionsOK(copy.heap, C) /\ RootOK(copy.heap, C, copy.slot) /\ Kept(h, copy.heap, C)
      BY <2>1, CloneDraft
    <2>3. applyRemove(h, slot, path) = Removal(copy.heap, Void, copy.slot)
      BY <1>1 DEF applyRemove, RemoveRoot
    <2> HIDE DEF copy
    <2>4. OpOK(h, C, Result(copy.heap, Void))
      BY <2>2, VoidRoot, ResultOK
    <2>5. copy.slot \in Links(DOMAIN copy.heap)
      <3>1. Draft(copy.heap, C) \subseteq DOMAIN copy.heap
        BY DEF Draft
      <3> QED
        BY <2>2, <3>1, LinksWithin DEF RootOK
    <2> QED
      BY <2>3, <2>4, <2>5, RemovalIs
  <1>2. CASE path # <<>>
    <2> DEFINE target == resolvePointerTarget(h, slot, path, FALSE)
    <2>1. TargetOK(h, C, target)
      BY Resolved DEF RootOK
    <2>2. applyRemove(h, slot, path) =
            IF ~target.ok \/ ~Exists(target) THEN Broken
            ELSE IF h[target.parent].kind = "array" THEN RemoveItem(h, slot, target)
            ELSE RemoveField(cloneJSONValue(h, target.value), slot, target)
      BY <1>2 DEF applyRemove, RemoveResolved
    <2> HIDE DEF target
    <2>3. RemovalOK(h, C, Broken)
      BY BrokenOK DEF RemovalOK, Broken
    <2>4. ASSUME target.ok, Exists(target), h[target.parent].kind = "array"
          PROVE  RemovalOK(h, C, RemoveItem(h, slot, target))
      BY <2>1, <2>4, RemoveItemOK
    <2>5. ASSUME target.ok, h[target.parent].kind # "array"
          PROVE  RemovalOK(h, C, RemoveField(cloneJSONValue(h, target.value), slot, target))
      <3>1. h[target.parent].kind = "object"
        BY <2>1, <2>5, SlotsOfDraft, NodeShape DEF TargetOK
      <3> QED
        BY <2>1, <2>5, <3>1, RemoveFieldOK
    <2> QED
      BY <2>2, <2>3, <2>4, <2>5
  <1> QED
    BY <1>1, <1>2

LEMMA LookupIn ==
  ASSUME NEW h, NEW C, RegionsOK(h, C), NEW slot, RootOK(h, C, slot), NEW path \in Seq(STRING)
  PROVE  Lookup(h, slot, path) \in Links(DOMAIN h)
  <1> DEFINE target == resolvePointerTarget(h, slot, path, FALSE)
  <1>1. TargetOK(h, C, target)
    BY Resolved DEF RootOK
  <1>2. Lookup(h, slot, path) =
          IF path = <<>> THEN slot ELSE IF target.ok THEN target.value ELSE Void
    BY DEF Lookup, Found
  <1> HIDE DEF target
  <1>3. Lookup(h, slot, path) \in Links(Draft(h, C))
    BY <1>1, <1>2, VoidLinks DEF TargetOK, RootOK
  <1>4. Draft(h, C) \subseteq DOMAIN h
    BY DEF Draft
  <1> QED
    BY <1>3, <1>4, LinksWithin

LEMMA CopyOK ==
  ASSUME NEW h, NEW C, RegionsOK(h, C), NEW slot, RootOK(h, C, slot),
         NEW from \in Seq(STRING), NEW path \in Seq(STRING)
  PROVE  OpOK(h, C, applyCopy(h, slot, from, path))
  <1> DEFINE copy == cloneJSONValue(h, Lookup(h, slot, from))
  <1>1. /\ RegionsOK(copy.heap, C) /\ RootOK(copy.heap, C, copy.slot)
        /\ Kept(h, copy.heap, C) /\ RootOK(copy.heap, C, slot)
    BY LookupIn, CloneDraft
  <1>2. applyCopy(h, slot, from, path) = applyAdd(copy.heap, slot, path, copy.slot)
    BY DEF applyCopy, AddCopy
  <1> HIDE DEF copy
  <1>3. copy.slot \in Links(DOMAIN copy.heap)
    <2>1. Draft(copy.heap, C) \subseteq DOMAIN copy.heap
      BY DEF Draft
    <2> QED
      BY <1>1, <2>1, LinksWithin DEF RootOK
  <1>4. OpOK(copy.heap, C, applyAdd(copy.heap, slot, path, copy.slot))
    BY <1>1, <1>3, AddOK
  <1> QED
    BY <1>1, <1>2, <1>4, AfterClone

LEMMA MoveOK ==
  ASSUME NEW h, NEW C, RegionsOK(h, C), NEW slot, RootOK(h, C, slot),
         NEW from \in Seq(STRING), NEW path \in Seq(STRING)
  PROVE  OpOK(h, C, applyMove(h, slot, from, path))
  <1> DEFINE removal == applyRemove(h, slot, from)
  <1>1. RemovalOK(h, C, removal)
    BY RemoveOK
  <1>2. applyMove(h, slot, from, path) =
          IF IsStrictPrefix(from, path) THEN Broken
          ELSE IF removal.ok THEN applyAdd(removal.heap, removal.slot, path, removal.removed)
          ELSE Broken
    BY DEF applyMove, AddRemoved
  <1> HIDE DEF removal
  <1>3. ASSUME removal.ok
        PROVE  OpOK(h, C, applyAdd(removal.heap, removal.slot, path, removal.removed))
    <2>1. /\ RegionsOK(removal.heap, C) /\ RootOK(removal.heap, C, removal.slot)
          /\ Kept(h, removal.heap, C) /\ removal.removed \in Links(DOMAIN removal.heap)
      BY <1>1, <1>3 DEF RemovalOK, OpOK
    <2>2. OpOK(removal.heap, C, applyAdd(removal.heap, removal.slot, path, removal.removed))
      BY <2>1, AddOK
    <2> QED
      BY <2>1, <2>2, AfterClone
  <1> QED
    BY <1>2, <1>3, BrokenOK

LEMMA PatchOpOK ==
  ASSUME NEW h, NEW C, RegionsOK(h, C), NEW slot, RootOK(h, C, slot),
         NEW values, values \subseteq Links(DOMAIN h), NEW op \in Ops(values)
  PROVE  OpOK(h, C, applyPatchOp(h, slot, op))
  <1>0. Pointers \subseteq Seq(STRING)
    BY PatchAssumption
  <1>1. CASE op \in [op : {"remove"}, path : Pointers]
    <2>1. op.op = "remove" /\ op.path \in Seq(STRING)
      BY <1>0, <1>1
    <2>2. OpOK(h, C, applyRemove(h, slot, op.path))
      BY <2>1, RemoveOK DEF RemovalOK
    <2> QED
      BY <2>1, <2>2 DEF applyPatchOp
  <1>2. CASE op \in [op : {"add", "replace", "test"}, path : Pointers, value : values]
    <2>1. op.op \in {"add", "replace", "test"} /\ op.path \in Seq(STRING) /\ op.value \in Links(DOMAIN h)
      BY <1>0, <1>2
    <2>2. /\ OpOK(h, C, applyAdd(h, slot, op.path, op.value))
          /\ OpOK(h, C, applyReplace(h, slot, op.path, op.value))
      BY <2>1, AddOK, ReplaceOK
    <2>3. OpOK(h, C, applyTest(h, slot, op.path, op.value))
      <3>1. Kept(h, h, C)
        BY DEF Kept, RegionsOK
      <3> QED
        BY <3>1, ResultOK, BrokenOK DEF applyTest
    <2> QED
      BY <2>1, <2>2, <2>3 DEF applyPatchOp
  <1>3. CASE op \in [op : {"move", "copy"}, from : Pointers, path : Pointers]
    <2>1. op.op \in {"move", "copy"} /\ op.path \in Seq(STRING) /\ op.from \in Seq(STRING)
      BY <1>0, <1>3
    <2>2. OpOK(h, C, applyCopy(h, slot, op.from, op.path)) /\ OpOK(h, C, applyMove(h, slot, op.from, op.path))
      BY <2>1, CopyOK, MoveOK
    <2> QED
      BY <2>1, <2>2 DEF applyPatchOp
  <1> QED
    BY <1>1, <1>2, <1>3 DEF Ops

-----------------------------------------------------------------------------
(* The four owners: no two share a node, and the last one owns a tree.     *)

Apart(h, s, t) == Own(h, s) \cap Own(h, t) = {}

Owned(h, d, a, p, w) ==
  /\ HeapOK(h)
  /\ d \in Links(DOMAIN h) /\ a \in Links(DOMAIN h) /\ p \in Links(DOMAIN h) /\ w \in Links(DOMAIN h)
  /\ Apart(h, d, a) /\ Apart(h, d, p) /\ Apart(h, a, p)
  /\ Apart(h, d, w) /\ Apart(h, a, w) /\ Apart(h, p, w)
  /\ OnePlace(h, Own(h, w)) /\ Unplaced(h, Own(h, w), w)

\* What the caller and the patch own.
Others(h, d, a, p) == Own(h, d) \cup Own(h, a) \cup Own(h, p)

\* There is no garbage.
AllReached(h, d, a, p, w) == DOMAIN h = Others(h, d, a, p) \cup Own(h, w)

\* No schema is attached to the nodes, or governs them.
Bare(h, nodes) == \A r \in nodes : ~h[r].schema /\ h[r].entry = NoEntry

LEMMA OwnersReach ==
  ASSUME NEW h, HeapOK(h), NEW d \in Links(DOMAIN h), NEW a \in Links(DOMAIN h),
         NEW p \in Links(DOMAIN h), NEW w \in Links(DOMAIN h)
  PROVE  /\ \A T : T = {d, a, p} => Reach(h, T) = Others(h, d, a, p)
         /\ \A T : T = {d, a, p} \cup {w} => Reach(h, T) = Others(h, d, a, p) \cup Own(h, w)
  <1> DEFINE V == Links(DOMAIN h)
             D == {d}
             A == {a}
             P == {p}
             W == {w}
  <1>1. D \subseteq V /\ A \subseteq V /\ P \subseteq V /\ W \subseteq V
    OBVIOUS
  <1>2. {d, a, p} = (D \cup A) \cup P
    OBVIOUS
  <1>3. Others(h, d, a, p) = (Reach(h, D) \cup Reach(h, A)) \cup Reach(h, P) /\ Own(h, w) = Reach(h, W)
    BY DEF Others, Own
  <1>4. {w} = W
    OBVIOUS
  <1> HIDE DEF D, A, P, W
  <1>5. Reach(h, D \cup A) = Reach(h, D) \cup Reach(h, A)
    BY <1>1, ReachUnion
  <1>6. Reach(h, (D \cup A) \cup P) = Reach(h, D \cup A) \cup Reach(h, P)
    <2> DEFINE S == D \cup A
    <2>1. S \subseteq V
      BY <1>1
    <2> HIDE DEF S
    <2>2. Reach(h, S \cup P) = Reach(h, S) \cup Reach(h, P)
      BY <1>1, <2>1, ReachUnion
    <2> QED
      BY <2>2 DEF S
  <1>7. Reach(h, ((D \cup A) \cup P) \cup W) = Reach(h, (D \cup A) \cup P) \cup Reach(h, W)
    <2> DEFINE S == (D \cup A) \cup P
    <2>1. S \subseteq V
      BY <1>1
    <2> HIDE DEF S
    <2>2. Reach(h, S \cup W) = Reach(h, S) \cup Reach(h, W)
      BY <1>1, <2>1, ReachUnion
    <2> QED
      BY <2>2 DEF S
  <1> QED
    BY <1>2, <1>3, <1>4, <1>5, <1>6, <1>7

OwnersAre(S, d, a, p, w) == S = {d, a, p} \cup {w}

\* Collection leaves the owners what they own.
LEMMA CollectOwned ==
  ASSUME NEW h, NEW d, NEW a, NEW p, NEW w, Owned(h, d, a, p, w),
         NEW S, OwnersAre(S, d, a, p, w)
  PROVE  LET new == Collect(h, S)
         IN  /\ Owned(new, d, a, p, w) /\ AllReached(new, d, a, p, w)
             /\ Own(new, d) = Own(h, d) /\ Own(new, a) = Own(h, a)
             /\ Own(new, p) = Own(h, p) /\ Own(new, w) = Own(h, w)
             /\ \A r \in DOMAIN new : r \in DOMAIN h /\ new[r] = h[r]
  <1> DEFINE new == Collect(h, S)
  <1>1. HeapOK(h) /\ S \subseteq Links(DOMAIN h)
    BY DEF Owned, OwnersAre
  <1>2. d \in S /\ a \in S /\ p \in S /\ w \in S
    BY DEF OwnersAre
  <1>3. Reach(h, S) = Others(h, d, a, p) \cup Own(h, w)
    <2>1. /\ d \in Links(DOMAIN h) /\ a \in Links(DOMAIN h)
          /\ p \in Links(DOMAIN h) /\ w \in Links(DOMAIN h)
      BY DEF Owned
    <2>2. S = {d, a, p} \cup {w}
      BY DEF OwnersAre
    <2> QED
      BY <1>1, <2>1, <2>2, OwnersReach
  <1>4. /\ HeapOK(new) /\ DOMAIN new = Reach(h, S)
        /\ \A r \in DOMAIN new : r \in DOMAIN h /\ new[r] = h[r]
        /\ S \subseteq Links(DOMAIN new)
    BY <1>1, Collected
  <1>5. Closed(h, Reach(h, S)) /\ Reach(h, S) \subseteq DOMAIN h
    BY <1>1, Reached
  <1> HIDE DEF new
  <1>6. ASSUME NEW x \in S PROVE Own(new, x) = Own(h, x)
    <2> DEFINE N == DOMAIN new
    <2>1. x \in Links(N) /\ N \subseteq DOMAIN h /\ Closed(h, N) /\ \A r \in N : new[r] = h[r]
      BY <1>4, <1>5
    <2>2. N \subseteq DOMAIN new
      OBVIOUS
    <2> HIDE DEF N
    <2> QED
      BY <1>1, <1>4, <2>1, <2>2, OwnWithin
  <1>7. /\ Own(new, d) = Own(h, d) /\ Own(new, a) = Own(h, a)
        /\ Own(new, p) = Own(h, p) /\ Own(new, w) = Own(h, w)
    BY <1>2, <1>6
  <1>8. OnePlace(new, Own(new, w)) /\ Unplaced(new, Own(new, w), w)
    <2>1. \A r \in Own(h, w) : new[r] = h[r]
      BY <1>3, <1>4
    <2>2. OnePlace(h, Own(h, w)) /\ Unplaced(h, Own(h, w), w)
      BY DEF Owned
    <2>3. OnePlace(new, Own(h, w))
      BY <2>1, <2>2 DEF OnePlace
    <2>4. Unplaced(new, Own(h, w), w)
      BY <2>1, <2>2 DEF Unplaced
    <2> QED
      BY <1>7, <2>3, <2>4
  <1>9. Owned(new, d, a, p, w)
    BY <1>2, <1>4, <1>7, <1>8 DEF Owned, Apart
  <1>10. AllReached(new, d, a, p, w)
    BY <1>3, <1>4, <1>7 DEF AllReached, Others
  <1> QED
    BY <1>4, <1>7, <1>9, <1>10 DEF new

\* The draft put aside from what the others own.
LEMMA OwnedRegions ==
  ASSUME NEW h, NEW d, NEW a, NEW p, NEW w, Owned(h, d, a, p, w),
         AllReached(h, d, a, p, w), Bare(h, Own(h, w))
  PROVE  RegionsOK(h, Others(h, d, a, p)) /\ RootOK(h, Others(h, d, a, p), w)
  <1> DEFINE C == Others(h, d, a, p)
             D == Own(h, w)
  <1>1. /\ HeapOK(h) /\ d \in Links(DOMAIN h) /\ a \in Links(DOMAIN h)
        /\ p \in Links(DOMAIN h) /\ w \in Links(DOMAIN h)
    BY DEF Owned
  <1>2. DOMAIN h = C \cup D /\ C \cap D = {}
    BY DEF Owned, Apart, AllReached, Others
  <1>3. Closed(h, C)
    <2>1. Closed(h, Own(h, d)) /\ Closed(h, Own(h, a)) /\ Closed(h, Own(h, p))
      BY <1>1, OwnIs
    <2> QED
      BY <2>1 DEF Closed, Others
  <1>4. Closed(h, D) /\ w \in Links(D)
    BY <1>1, OwnIs
  <1>5. OnePlace(h, D) /\ Unplaced(h, D, w) /\ \A r \in D : ~h[r].schema /\ h[r].entry = NoEntry
    BY DEF Owned, Bare
  <1> HIDE DEF C, D
  <1>6. Draft(h, C) = D
    BY <1>2 DEF Draft
  <1> QED
    BY <1>1, <1>2, <1>3, <1>4, <1>5, <1>6 DEF RegionsOK, RootOK, C

\* The owners after the draft has been edited.
LEMMA RegionsOwned ==
  ASSUME NEW h, NEW d, NEW a, NEW p, NEW w, Owned(h, d, a, p, w),
         NEW new, NEW root, RegionsOK(new, Others(h, d, a, p)),
         RootOK(new, Others(h, d, a, p), root), Kept(h, new, Others(h, d, a, p))
  PROVE  /\ Owned(new, d, a, p, root) /\ Others(new, d, a, p) = Others(h, d, a, p)
         /\ Bare(new, Own(new, root))
  <1> DEFINE C == Others(h, d, a, p)
             E == Draft(new, C)
  <1>1. /\ HeapOK(h) /\ d \in Links(DOMAIN h) /\ a \in Links(DOMAIN h) /\ p \in Links(DOMAIN h)
    BY DEF Owned
  <1>2. /\ HeapOK(new) /\ C \subseteq DOMAIN new /\ \A r \in C : new[r] = h[r]
        /\ Closed(new, E) /\ OnePlace(new, E) /\ root \in Links(E) /\ Unplaced(new, E, root)
        /\ \A r \in E : ~new[r].schema /\ new[r].entry = NoEntry
        /\ E \subseteq DOMAIN new /\ E \cap C = {}
    BY DEF RegionsOK, RootOK, Kept, Draft
  <1>3. ASSUME NEW x \in Links(DOMAIN h), Own(h, x) \subseteq C
        PROVE  x \in Links(DOMAIN new) /\ Own(new, x) = Own(h, x)
    <2> DEFINE N == Own(h, x)
    <2>1. N \subseteq DOMAIN h /\ Closed(h, N) /\ x \in Links(N)
      BY <1>1, OwnIs
    <2>2. N \subseteq DOMAIN new /\ \A r \in N : new[r] = h[r]
      BY <1>2, <1>3
    <2> HIDE DEF C, N
    <2>3. Own(new, x) = Own(h, x)
      BY <1>1, <1>2, <2>1, <2>2, OwnWithin
    <2>4. x \in Links(DOMAIN new)
      BY <2>1, <2>2, LinksWithin
    <2> QED
      BY <2>3, <2>4
  <1>4. Own(h, d) \subseteq C /\ Own(h, a) \subseteq C /\ Own(h, p) \subseteq C
    BY DEF Others
  <1>5. /\ Own(new, d) = Own(h, d) /\ Own(new, a) = Own(h, a) /\ Own(new, p) = Own(h, p)
        /\ d \in Links(DOMAIN new) /\ a \in Links(DOMAIN new) /\ p \in Links(DOMAIN new)
    BY <1>1, <1>3, <1>4
  <1>6. root \in Links(DOMAIN new) /\ Own(new, root) \subseteq E
    <2>1. root \in Links(DOMAIN new) /\ E \in SUBSET DOMAIN new
      BY <1>2, LinksWithin
    <2> HIDE DEF C, E
    <2> QED
      BY <1>2, <2>1, OwnIs
  <1>7. OnePlace(new, Own(new, root)) /\ Unplaced(new, Own(new, root), root)
    BY <1>2, <1>6 DEF OnePlace, Unplaced
  <1>8. Bare(new, Own(new, root))
    BY <1>2, <1>6 DEF Bare
  <1>9. Owned(new, d, a, p, root)
    <2>1. Apart(h, d, a) /\ Apart(h, d, p) /\ Apart(h, a, p)
      BY DEF Owned
    <2> HIDE DEF C, E
    <2>2. /\ Apart(new, d, a) /\ Apart(new, d, p) /\ Apart(new, a, p)
          /\ Apart(new, d, root) /\ Apart(new, a, root) /\ Apart(new, p, root)
      BY <1>2, <1>4, <1>5, <1>6, <2>1 DEF Apart
    <2> QED
      BY <1>2, <1>5, <1>6, <1>7, <2>2 DEF Owned
  <1> QED
    BY <1>5, <1>8, <1>9 DEF Others

\* From its root down the value is governed by the schema.
Governed(h, slot) ==
  /\ IsRef(slot) => h[slot.ref].entry = Root
  /\ \A r \in Own(h, slot) : h[r].schema

PInv ==
  /\ Owned(heap, doc, argument, patchValue, working)
  /\ AllReached(heap, doc, argument, patchValue, working)
  /\ status \in {"applying", "done", "failed"} /\ applied \in 0..MaxOps
  /\ cfg.hasSchema \in BOOLEAN
  /\ status = "applying" => Bare(heap, Own(heap, working))
  /\ status = "done" /\ cfg.hasSchema => Governed(heap, working)
  /\ status = "failed" => working = Void

-----------------------------------------------------------------------------
(* The beginning.                                                          *)

LEMMA FourApart ==
  ASSUME NEW none, HeapOK(none), DOMAIN none = {},
         NEW h1, NEW d, NEW h2, NEW a, NEW h3, NEW p, NEW h4, NEW w,
         Added(none, h1, d), Added(h1, h2, a), Added(h2, h3, p), Added(h3, h4, w),
         Bare(h4, DOMAIN h4 \ DOMAIN h3)
  PROVE  /\ Owned(h4, d, a, p, w) /\ AllReached(h4, d, a, p, w)
         /\ Bare(h4, Own(h4, w))
  <1>1. HeapOK(h1) /\ d \in Links(DOMAIN h1) /\ Own(h1, d) = DOMAIN h1 \ DOMAIN none
    BY AddedApart
  <1>2. /\ HeapOK(h2) /\ DOMAIN h1 \subseteq DOMAIN h2
        /\ a \in Links(DOMAIN h2) /\ Own(h2, a) = DOMAIN h2 \ DOMAIN h1
        /\ d \in Links(DOMAIN h2) /\ Own(h2, d) = Own(h1, d)
    BY <1>1, AddedApart
  <1>3. /\ HeapOK(h3) /\ DOMAIN h2 \subseteq DOMAIN h3
        /\ p \in Links(DOMAIN h3) /\ Own(h3, p) = DOMAIN h3 \ DOMAIN h2
        /\ d \in Links(DOMAIN h3) /\ Own(h3, d) = Own(h2, d)
        /\ a \in Links(DOMAIN h3) /\ Own(h3, a) = Own(h2, a)
    BY <1>2, AddedApart
  <1>4. /\ HeapOK(h4) /\ DOMAIN h3 \subseteq DOMAIN h4
        /\ w \in Links(DOMAIN h4) /\ Own(h4, w) = DOMAIN h4 \ DOMAIN h3
        /\ d \in Links(DOMAIN h4) /\ Own(h4, d) = Own(h3, d)
        /\ a \in Links(DOMAIN h4) /\ Own(h4, a) = Own(h3, a)
        /\ p \in Links(DOMAIN h4) /\ Own(h4, p) = Own(h3, p)
    BY <1>3, AddedApart
  <1>5. /\ OnePlace(h4, Own(h4, w)) /\ Unplaced(h4, Own(h4, w), w)
        /\ Bare(h4, Own(h4, w))
    BY <1>4 DEF Added
  <1> DEFINE D == Own(h4, d)
             A == Own(h4, a)
             P == Own(h4, p)
             W == Own(h4, w)
  <1>6. /\ D = DOMAIN h1 /\ A = DOMAIN h2 \ DOMAIN h1 /\ P = DOMAIN h3 \ DOMAIN h2
        /\ W = DOMAIN h4 \ DOMAIN h3
    BY <1>1, <1>2, <1>3, <1>4
  <1>8. Apart(h4, d, a) /\ Apart(h4, d, p) /\ Apart(h4, a, p)
        /\ Apart(h4, d, w) /\ Apart(h4, a, w) /\ Apart(h4, p, w)
    BY <1>2, <1>3, <1>4, <1>6 DEF Apart
  <1>9. Owned(h4, d, a, p, w)
    BY <1>4, <1>5, <1>8 DEF Owned
  <1> HIDE DEF D, A, P, W
  <1>10. AllReached(h4, d, a, p, w)
    BY <1>2, <1>3, <1>4, <1>6 DEF AllReached, Others, D, A, P, W
  <1> QED
    BY <1>5, <1>9, <1>10

LEMMA FourStored ==
  ASSUME NEW document \in Trees, NEW attached \in BOOLEAN, NEW entry \in Entries
  PROVE  LET d == Store(EmptyHeap, document, attached, entry)
             a == Store(d.heap, Argument, FALSE, NoEntry)
             p == cloneJSONValue(a.heap, a.slot)
             w == cloneJSONValue(p.heap, d.slot)
         IN  /\ Owned(w.heap, d.slot, a.slot, p.slot, w.slot)
             /\ AllReached(w.heap, d.slot, a.slot, p.slot, w.slot)
             /\ Bare(w.heap, Own(w.heap, w.slot))
  <1> DEFINE d == Store(EmptyHeap, document, attached, entry)
             a == Store(d.heap, Argument, FALSE, NoEntry)
             p == cloneJSONValue(a.heap, a.slot)
             w == cloneJSONValue(p.heap, d.slot)
  <1>1. Added(EmptyHeap, d.heap, d.slot)
    BY EmptyHeapOK, Stored DEF StoredIn
  <1>2. HeapOK(d.heap) /\ d.slot \in Links(DOMAIN d.heap)
    BY <1>1, EmptyHeapOK, AddedApart
  <1> HIDE DEF d
  <1>3. Added(d.heap, a.heap, a.slot)
    BY <1>2, PatchAssumption, EntriesBelow, Stored DEF StoredIn
  <1> HIDE DEF a
  <1>4. HeapOK(a.heap) /\ a.slot \in Links(DOMAIN a.heap) /\ d.slot \in Links(DOMAIN a.heap)
    BY <1>2, <1>3, AddedApart
  <1>5. Added(a.heap, p.heap, p.slot)
    BY <1>4, Cloned DEF StoredIn
  <1>6. HeapOK(p.heap) /\ d.slot \in Links(DOMAIN p.heap)
    BY <1>4, <1>5, AddedApart
  <1> HIDE DEF p
  <1>7. Added(p.heap, w.heap, w.slot) /\ Bare(w.heap, DOMAIN w.heap \ DOMAIN p.heap)
    BY <1>6, Cloned DEF StoredIn, Bare
  <1> HIDE DEF w
  <1>8. /\ Owned(w.heap, d.slot, a.slot, p.slot, w.slot)
        /\ AllReached(w.heap, d.slot, a.slot, p.slot, w.slot)
        /\ Bare(w.heap, Own(w.heap, w.slot))
    BY <1>1, <1>3, <1>5, <1>7, EmptyHeapOK, FourApart
  <1> QED
    BY <1>8 DEF d, a, p, w

LEMMA InitInv == Init => PInv
  <1> SUFFICES ASSUME Init PROVE PInv
    OBVIOUS
  <1>1. PICK document \in Documents, attached \in BOOLEAN, supplied \in BOOLEAN :
          LET norm == normalizeValueForSchema(document, Root)
          IN  /\ attached => norm.ok /\ norm.value \in Trees
              /\ Begin(EmptyHeap, IF attached THEN norm.value ELSE document, attached, supplied)
    BY DEF Init
  <1> DEFINE tree  == IF attached THEN normalizeValueForSchema(document, Root).value ELSE document
             entry == IF attached THEN Root ELSE NoEntry
  <1>2. tree \in Trees /\ entry \in Entries
    BY <1>1, PatchAssumption, EntriesBelow
  <1>3. Begin(EmptyHeap, tree, attached, supplied)
    BY <1>1
  <1> HIDE DEF tree
  <1>4. /\ Owned(heap, doc, argument, patchValue, working)
        /\ AllReached(heap, doc, argument, patchValue, working)
        /\ Bare(heap, Own(heap, working))
    BY <1>2, <1>3, FourStored DEF Begin
  <1>5. cfg.hasSchema \in BOOLEAN
    BY <1>3 DEF Begin
  <1>6. status = "applying" /\ applied = 0 /\ 0 \in 0..MaxOps
    BY PatchAssumption DEF Init
  <1> QED
    BY <1>4, <1>5, <1>6 DEF PInv

-----------------------------------------------------------------------------
(* The steps.                                                              *)

\* The step keeps the draft at `slot` of `h`, where the caller's nodes are as
\* they were, and `h` is right for the status that comes.
MovesTo(h, slot) ==
  /\ Owned(h, doc, argument, patchValue, slot) /\ Keep(h, slot)
  /\ Kept(heap, h, Others(heap, doc, argument, patchValue))
  /\ Others(h, doc, argument, patchValue) = Others(heap, doc, argument, patchValue)
  /\ status' = "applying" => Bare(h, Own(h, slot))
  /\ status' = "done" /\ cfg.hasSchema => Governed(h, slot)
  /\ status' = "failed" => slot = Void
  /\ status' \in {"applying", "done", "failed"} /\ applied' \in 0..MaxOps

LEMMA ApplyingRegions ==
  ASSUME PInv, status = "applying"
  PROVE  /\ RegionsOK(heap, Others(heap, doc, argument, patchValue))
         /\ RootOK(heap, Others(heap, doc, argument, patchValue), working)
  BY OwnedRegions DEF PInv

LEMMA KeptSame == \A h, C : C \subseteq DOMAIN h => Kept(h, h, C)
  BY DEF Kept

\* Of a draft made from this one.
LEMMA DraftMoves ==
  ASSUME PInv, NEW h, NEW slot,
         RegionsOK(h, Others(heap, doc, argument, patchValue)),
         RootOK(h, Others(heap, doc, argument, patchValue), slot),
         Kept(heap, h, Others(heap, doc, argument, patchValue))
  PROVE  /\ Owned(h, doc, argument, patchValue, slot) /\ Bare(h, Own(h, slot))
         /\ Others(h, doc, argument, patchValue) = Others(heap, doc, argument, patchValue)
  <1>1. Owned(heap, doc, argument, patchValue, working)
    BY DEF PInv
  <1> QED
    BY <1>1, RegionsOwned

LEMMA ApplyMoves ==
  ASSUME PInv, NEW op \in Ops(Scalars \cup {patchValue}), Apply(op)
  PROVE  LET new == applyPatchOp(heap, working, op)
         IN  IF new.ok THEN MovesTo(new.heap, new.slot) ELSE MovesTo(heap, Void)
  <1> DEFINE C == Others(heap, doc, argument, patchValue)
             new == applyPatchOp(heap, working, op)
  <1>1. /\ status = "applying" /\ applied' = applied + 1 /\ applied < MaxOps
        /\ IF new.ok THEN status' = status   /\ Keep(new.heap, new.slot)
                     ELSE status' = "failed" /\ Keep(heap, Void)
    BY DEF Apply, Outcome
  <1>2. applied' \in 0..MaxOps
    BY <1>1, PatchAssumption DEF PInv
  <1>3. RegionsOK(heap, C) /\ RootOK(heap, C, working)
    BY <1>1, ApplyingRegions
  <1>4. Scalars \cup {patchValue} \subseteq Links(DOMAIN heap)
    <2>1. Scalars \subseteq Links(DOMAIN heap)
      BY PatchAssumption DEF Links
    <2>2. patchValue \in Links(DOMAIN heap)
      BY DEF PInv, Owned
    <2> QED
      BY <2>1, <2>2
  <1>5. OpOK(heap, C, new)
    BY <1>3, <1>4, PatchOpOK
  <1> HIDE DEF C
  <1> SUFFICES IF new.ok THEN MovesTo(new.heap, new.slot) ELSE MovesTo(heap, Void)
    OBVIOUS
  <1> HIDE DEF new
  <1>6. CASE new.ok
    <2>1. RegionsOK(new.heap, C) /\ RootOK(new.heap, C, new.slot) /\ Kept(heap, new.heap, C)
      BY <1>5, <1>6 DEF OpOK
    <2>2. /\ Owned(new.heap, doc, argument, patchValue, new.slot)
          /\ Bare(new.heap, Own(new.heap, new.slot))
          /\ Others(new.heap, doc, argument, patchValue) = C
      BY <2>1, DraftMoves DEF C
    <2>3. MovesTo(new.heap, new.slot)
      BY <1>1, <1>2, <1>6, <2>1, <2>2 DEF MovesTo, C
    <2> QED
      BY <1>6, <2>3
  <1>7. CASE ~new.ok
    <2>1. RootOK(heap, C, Void) /\ Kept(heap, heap, C)
      BY <1>3, VoidRoot, KeptSame DEF RegionsOK
    <2>2. Owned(heap, doc, argument, patchValue, Void)
      BY <1>3, <2>1, DraftMoves DEF C
    <2>3. MovesTo(heap, Void)
      BY <1>1, <1>2, <1>7, <2>1, <2>2 DEF MovesTo, C
    <2> QED
      BY <1>7, <2>3
  <1> QED
    BY <1>6, <1>7

LEMMA FinishMoves ==
  ASSUME PInv, Finish
  PROVE  LET norm == normalizeValueForSchema(View(heap, working), Root)
             new  == Store(heap, norm.value, TRUE, Root)
         IN  IF ~cfg.hasSchema THEN MovesTo(heap, working)
             ELSE IF ~norm.ok THEN MovesTo(heap, Void)
             ELSE norm.value \in Trees /\ MovesTo(new.heap, new.slot)
  <1> DEFINE C == Others(heap, doc, argument, patchValue)
             norm == normalizeValueForSchema(View(heap, working), Root)
             new  == Store(heap, norm.value, TRUE, Root)
  <1>1. /\ status = "applying" /\ applied' = applied
        /\ IF ~cfg.hasSchema THEN status' = "done" /\ Keep(heap, working)
           ELSE IF ~norm.ok THEN status' = "failed" /\ Keep(heap, Void)
           ELSE norm.value \in Trees /\ status' = "done" /\ Keep(new.heap, new.slot)
    BY DEF Finish
  <1>2. applied' \in 0..MaxOps
    BY <1>1 DEF PInv
  <1>3. RegionsOK(heap, C) /\ RootOK(heap, C, working)
    BY <1>1, ApplyingRegions
  <1>4. Kept(heap, heap, C)
    BY <1>3, KeptSame DEF RegionsOK
  <1> SUFFICES IF ~cfg.hasSchema THEN MovesTo(heap, working)
               ELSE IF ~norm.ok THEN MovesTo(heap, Void)
               ELSE norm.value \in Trees /\ MovesTo(new.heap, new.slot)
    OBVIOUS
  <1> HIDE DEF norm, C
  <1>5. CASE ~cfg.hasSchema
    <2>1. Owned(heap, doc, argument, patchValue, working)
      BY DEF PInv
    <2>2. MovesTo(heap, working)
      BY <1>1, <1>2, <1>4, <1>5, <2>1 DEF MovesTo, C
    <2> QED
      BY <1>5, <2>2
  <1>6. CASE cfg.hasSchema /\ ~norm.ok
    <2>1. Owned(heap, doc, argument, patchValue, Void)
      BY <1>3, <1>4, VoidRoot, DraftMoves DEF C
    <2>2. MovesTo(heap, Void)
      BY <1>1, <1>2, <1>4, <1>6, <2>1 DEF MovesTo, C
    <2> QED
      BY <1>6, <2>2
  <1>7. CASE cfg.hasSchema /\ norm.ok
    <2>1. norm.value \in Trees /\ status' = "done" /\ Keep(new.heap, new.slot)
      BY <1>1, <1>7
    <2>2. /\ HeapOK(heap) /\ doc \in Links(DOMAIN heap) /\ argument \in Links(DOMAIN heap)
          /\ patchValue \in Links(DOMAIN heap)
      BY DEF PInv, Owned
    <2>3. StoredIn(heap, new.heap, new.slot, norm.value, TRUE, Root)
      BY <2>1, <2>2, EntriesBelow, Stored
    <2> DEFINE N == DOMAIN new.heap \ DOMAIN heap
    <2> HIDE DEF new
    <2>4. /\ HeapOK(new.heap) /\ DOMAIN heap \subseteq DOMAIN new.heap
          /\ \A r \in DOMAIN heap : new.heap[r] = heap[r]
          /\ OnePlace(new.heap, N) /\ Unplaced(new.heap, N, new.slot)
          /\ IsRef(new.slot) => new.heap[new.slot.ref].entry = Root
          /\ \A r \in N : new.heap[r].schema = TRUE
      BY <2>3 DEF StoredIn, Added
    <2>5. /\ Own(new.heap, new.slot) = N /\ new.slot \in Links(DOMAIN new.heap)
          /\ \A x \in Links(DOMAIN heap) :
               /\ x \in Links(DOMAIN new.heap) /\ Own(new.heap, x) = Own(heap, x)
               /\ Own(heap, x) \subseteq DOMAIN heap
      BY <2>2, <2>3, AddedApart DEF StoredIn
    <2>6. /\ Own(new.heap, doc) = Own(heap, doc) /\ Own(new.heap, argument) = Own(heap, argument)
          /\ Own(new.heap, patchValue) = Own(heap, patchValue)
          /\ Own(heap, doc) \cap N = {} /\ Own(heap, argument) \cap N = {}
          /\ Own(heap, patchValue) \cap N = {}
          /\ doc \in Links(DOMAIN new.heap) /\ argument \in Links(DOMAIN new.heap)
          /\ patchValue \in Links(DOMAIN new.heap)
      BY <2>2, <2>5
    <2>7. Owned(new.heap, doc, argument, patchValue, new.slot)
      <3>1. Apart(heap, doc, argument) /\ Apart(heap, doc, patchValue) /\ Apart(heap, argument, patchValue)
        BY DEF PInv, Owned
      <3> HIDE DEF N
      <3> QED
        BY <2>4, <2>5, <2>6, <3>1 DEF Owned, Apart
    <2>8. Governed(new.heap, new.slot)
      BY <2>4, <2>5 DEF Governed
    <2>9. Kept(heap, new.heap, C)
      <3>1. C \subseteq DOMAIN heap
        BY <1>3 DEF RegionsOK
      <3> QED
        BY <2>4, <3>1 DEF Kept
    <2>10. MovesTo(new.heap, new.slot)
      BY <1>2, <2>1, <2>6, <2>7, <2>8, <2>9 DEF MovesTo, C, Others
    <2> QED
      BY <1>7, <2>1, <2>10
  <1> QED
    BY <1>5, <1>6, <1>7 DEF PInv

LEMMA NextMoves ==
  ASSUME PInv, Next PROVE \E h, slot : MovesTo(h, slot)
  BY ApplyMoves, FinishMoves DEF Next

LEMMA CallerIs ==
  ASSUME Owned(heap, doc, argument, patchValue, working)
  PROVE  /\ Caller = {doc, argument, patchValue}
         /\ Reach(heap, Caller) = Others(heap, doc, argument, patchValue)
         /\ Reach(heap, Caller \cup {working}) =
              Others(heap, doc, argument, patchValue) \cup Own(heap, working)
  <1>1. /\ HeapOK(heap) /\ doc \in Links(DOMAIN heap) /\ argument \in Links(DOMAIN heap)
        /\ patchValue \in Links(DOMAIN heap) /\ working \in Links(DOMAIN heap)
    BY DEF Owned
  <1>2. Caller = {doc, argument, patchValue}
    BY DEF Caller
  <1> DEFINE S == Caller
             T == Caller \cup {working}
  <1>3. S = {doc, argument, patchValue} /\ T = {doc, argument, patchValue} \cup {working}
    BY <1>2
  <1> HIDE DEF S, T
  <1>4. /\ Reach(heap, S) = Others(heap, doc, argument, patchValue)
        /\ Reach(heap, T) = Others(heap, doc, argument, patchValue) \cup Own(heap, working)
    BY <1>1, <1>3, OwnersReach
  <1> QED
    BY <1>2, <1>4 DEF S, T

\* What a step has kept when the garbage is gone.
LEMMA MovedTo ==
  ASSUME PInv, NEW h, NEW slot, MovesTo(h, slot)
  PROVE  /\ PInv'
         /\ \A r \in Others(heap, doc, argument, patchValue) : heap'[r] = heap[r]
  <1> DEFINE S == Caller \cup {slot}
             new == Collect(h, S)
             C == Others(heap, doc, argument, patchValue)
  <1>1. /\ Owned(h, doc, argument, patchValue, slot) /\ Keep(h, slot) /\ Kept(heap, h, C)
        /\ Others(h, doc, argument, patchValue) = C
        /\ status' = "applying" => Bare(h, Own(h, slot))
        /\ status' = "done" /\ cfg.hasSchema => Governed(h, slot)
        /\ status' = "failed" => slot = Void
        /\ status' \in {"applying", "done", "failed"} /\ applied' \in 0..MaxOps
    BY DEF MovesTo
  <1>2. /\ working' = slot /\ heap' = new
        /\ doc' = doc /\ argument' = argument /\ patchValue' = patchValue /\ cfg' = cfg
    BY <1>1 DEF Keep
  <1>3. /\ Owned(new, doc, argument, patchValue, slot)
        /\ AllReached(new, doc, argument, patchValue, slot)
        /\ Own(new, doc) = Own(h, doc) /\ Own(new, argument) = Own(h, argument)
        /\ Own(new, patchValue) = Own(h, patchValue) /\ Own(new, slot) = Own(h, slot)
        /\ \A r \in DOMAIN new : r \in DOMAIN h /\ new[r] = h[r]
    <2>1. OwnersAre(S, doc, argument, patchValue, slot)
      BY DEF Caller, OwnersAre
    <2> HIDE DEF S
    <2> QED
      BY <1>1, <2>1, CollectOwned
  <1> HIDE DEF new, C
  <1>4. Own(new, slot) \subseteq DOMAIN new /\ C \subseteq DOMAIN new
    BY <1>1, <1>3 DEF AllReached, Others
  <1>5. status' = "applying" => Bare(new, Own(new, slot))
    BY <1>1, <1>3, <1>4 DEF Bare
  <1>6. status' = "done" /\ cfg.hasSchema => Governed(new, slot)
    <2>1. IsRef(slot) => slot.ref \in Own(new, slot)
      <3>1. slot \in Links(Own(new, slot))
        BY <1>3, OwnIs DEF Owned
      <3> QED
        BY <3>1, LinkOrScalar
    <2>2. ASSUME Governed(h, slot) PROVE Governed(new, slot)
      <3>1. /\ IsRef(slot) => h[slot.ref].entry = Root
            /\ \A r \in Own(h, slot) : h[r].schema
        BY <2>2 DEF Governed
      <3> QED
        BY <1>3, <1>4, <2>1, <3>1 DEF Governed
    <2> QED
      BY <1>1, <2>2
  <1>7. PInv'
    <2>1. /\ Owned(heap, doc, argument, patchValue, working)'
          /\ AllReached(heap, doc, argument, patchValue, working)'
      BY <1>2, <1>3
    <2>2. /\ (status = "applying" => Bare(heap, Own(heap, working)))'
          /\ (status = "done" /\ cfg.hasSchema => Governed(heap, working))'
      BY <1>2, <1>5, <1>6
    <2>3. (cfg.hasSchema \in BOOLEAN)'
      BY <1>2 DEF PInv
    <2> QED
      BY <1>1, <1>2, <2>1, <2>2, <2>3 DEF PInv
  <1>8. \A r \in C : heap'[r] = heap[r]
    BY <1>1, <1>2, <1>3, <1>4 DEF Kept
  <1> QED
    BY <1>7, <1>8 DEF C

LEMMA StutterInv == PInv /\ UNCHANGED vars => PInv'
  BY DEF PInv, vars

LEMMA InductiveInv == Spec => []PInv
  <1>1. PInv /\ [Next]_vars => PInv'
    BY NextMoves, MovedTo, StutterInv
  <1> QED
    BY <1>1, InitInv, PTL DEF Spec

\* ApplySchema stores the normal form it found, and the patch is over: it
\* stays, and to normalise it once more would change nothing.
LEMMA StaysNormal ==
  ASSUME PInv, ResultNormal, [Next]_vars
  PROVE  ResultNormal'
  <1> SUFFICES ASSUME status' = "done", cfg'.hasSchema
               PROVE  normalizeValueForSchema(View(heap', working'), Root)
                        = Normal(View(heap', working'))
    BY DEF ResultNormal
  <1>1. CASE UNCHANGED vars
    BY <1>1 DEF ResultNormal, vars
  <1>2. CASE \E op \in Ops(Scalars \cup {patchValue}) : Apply(op)
    <2>1. PICK op \in Ops(Scalars \cup {patchValue}) : Apply(op)
      BY <1>2
    <2>2. status = "applying" /\ (status' = status \/ status' = "failed")
      BY <2>1 DEF Apply, Outcome
    <2> QED
      BY <2>2
  <1>3. CASE Finish
    <2> DEFINE norm == normalizeValueForSchema(View(heap, working), Root)
               new  == Store(heap, norm.value, TRUE, Root)
    <2>1. IF ~cfg.hasSchema THEN status' = "done" /\ Keep(heap, working)
          ELSE IF ~norm.ok THEN status' = "failed" /\ Keep(heap, Void)
          ELSE norm.value \in Trees /\ status' = "done" /\ Keep(new.heap, new.slot)
      BY <1>3 DEF Finish
    <2> HIDE DEF norm, new
    <2>2. cfg' = cfg
      BY <2>1 DEF Keep
    <2>3. norm.ok /\ norm.value \in Trees /\ Keep(new.heap, new.slot)
      BY <2>1, <2>2
    <2>4. /\ HeapOK(heap) /\ working \in Links(DOMAIN heap)
          /\ doc \in Links(DOMAIN heap) /\ argument \in Links(DOMAIN heap)
          /\ patchValue \in Links(DOMAIN heap)
      BY DEF PInv, Owned
    <2>5. StoredIn(heap, new.heap, new.slot, norm.value, TRUE, Root)
      BY <2>3, <2>4, EntriesBelow, Stored DEF new
    <2>6. View(new.heap, new.slot) = norm.value
      BY <2>3, <2>4, EntriesBelow, StoredView DEF new
    <2> DEFINE S == Caller \cup {new.slot}
    <2>7. HeapOK(new.heap) /\ S \subseteq Links(DOMAIN new.heap) /\ new.slot \in S
      <3>1. /\ HeapOK(new.heap) /\ DOMAIN heap \subseteq DOMAIN new.heap
            /\ new.slot \in Links(DOMAIN new.heap \ DOMAIN heap)
        BY <2>5 DEF StoredIn, Added
      <3>2. /\ Links(DOMAIN heap) \subseteq Links(DOMAIN new.heap)
            /\ new.slot \in Links(DOMAIN new.heap)
        BY <3>1, LinksWithin
      <3> QED
        BY <2>4, <3>1, <3>2 DEF Caller
    <2>8. heap' = Collect(new.heap, S) /\ working' = new.slot
      BY <2>3 DEF Keep
    <2> HIDE DEF S
    <2>9. View(heap', working') = norm.value
      BY <2>6, <2>7, <2>8, CollectedView
    <2>10. View(heap, working) \in Trees
      BY <2>4, ViewIsTree
    <2>11. Root \in Entries
      BY EntriesBelow
    <2>12. normalizeValueForSchema(norm.value, Root) = Normal(norm.value)
      BY <2>3, <2>10, <2>11, NormalIsStable DEF norm
    <2> QED
      BY <2>9, <2>12
  <1> QED
    BY <1>1, <1>2, <1>3 DEF Next

-----------------------------------------------------------------------------
(* The theorems.                                                           *)

\* ApplyPatch: what the caller, the patch and the draft hold is scalars and
\* nodes there are, nothing else is kept alive, and a patch that has failed
\* hands nothing out.
THEOREM PatchTypes == Spec => []TypeOK
  <1>1. PInv => TypeOK
    <2> SUFFICES ASSUME PInv PROVE TypeOK
      OBVIOUS
    <2>1. \A slot \in Caller : IsRef(slot) => slot.ref \in DOMAIN heap
      <3>1. doc \in Links(DOMAIN heap) /\ argument \in Links(DOMAIN heap) /\ patchValue \in Links(DOMAIN heap)
        BY DEF PInv, Owned
      <3>2. Caller = {doc, argument, patchValue}
        BY DEF Caller
      <3> QED
        BY <3>1, <3>2, LinkOrScalar
    <2>2. DOMAIN heap = Reach(heap, Caller \cup {working})
      BY CallerIs DEF PInv, AllReached
    <2> QED
      BY <2>1, <2>2, VoidLinks DEF PInv, TypeOK
  <1> QED
    BY <1>1, InductiveInv, PTL

\* ApplyPatch, newValueOp and applyAdd clone: whatever operations are applied,
\* the draft, the document, the value the client built the patch from and the
\* patch itself never come to share a node.
THEOREM OwnersApart == Spec => []Isolation
  <1>1. PInv => Isolation
    <2> SUFFICES ASSUME PInv PROVE Isolation
      OBVIOUS
    <2>1. /\ Apart(heap, doc, argument) /\ Apart(heap, doc, patchValue)
          /\ Apart(heap, argument, patchValue) /\ Apart(heap, doc, working)
          /\ Apart(heap, argument, working) /\ Apart(heap, patchValue, working)
      BY DEF PInv, Owned
    <2> DEFINE owners == <<{doc}, {argument}, {patchValue}, {working}>>
    <2>2. /\ Reach(heap, owners[1]) = Own(heap, doc) /\ Reach(heap, owners[2]) = Own(heap, argument)
          /\ Reach(heap, owners[3]) = Own(heap, patchValue) /\ Reach(heap, owners[4]) = Own(heap, working)
      BY DEF Own
    <2>3. DOMAIN owners = 1..4
      OBVIOUS
    <2> HIDE DEF owners
    <2>4. ASSUME NEW i \in 1..4, NEW j \in 1..4, i # j
          PROVE  Reach(heap, owners[i]) \cap Reach(heap, owners[j]) = {}
      <3>1. (i = 1 \/ i = 2 \/ i = 3 \/ i = 4) /\ (j = 1 \/ j = 2 \/ j = 3 \/ j = 4)
        OBVIOUS
      <3> QED
        BY <2>1, <2>2, <2>4, <3>1 DEF Apart
    <2> QED
      BY <2>3, <2>4 DEF Isolation, owners
  <1> QED
    BY <1>1, InductiveInv, PTL

\* applyMove and applyCopy put in a clone of what they take: no node ever stands
\* in two places of the draft, after any mixture of operations.
THEOREM DraftIsATree == Spec => []DraftIsTree
  <1>1. PInv => DraftIsTree
    <2> SUFFICES ASSUME PInv PROVE DraftIsTree
      OBVIOUS
    <2> DEFINE nodes == Own(heap, working)
               At(r, p) == {j \in DOMAIN Parts(heap[p]) : Parts(heap[p])[j] = Ref(r)}
               Places(r) == UNION {{<<p, i>> : i \in At(r, p)} : p \in nodes}
    <2>1. /\ HeapOK(heap) /\ working \in Links(DOMAIN heap)
          /\ OnePlace(heap, nodes) /\ Unplaced(heap, nodes, working)
      BY DEF PInv, Owned
    <2>2. /\ nodes \subseteq DOMAIN heap /\ Closed(heap, nodes) /\ working \in Links(nodes)
          /\ \A D \in SUBSET DOMAIN heap :
               Closed(heap, D) /\ working \in Links(D) => nodes \subseteq D
      BY <2>1, OwnIs
    <2> HIDE DEF nodes
    <2>3. \A r : IsRef(Ref(r)) /\ Ref(r).ref = r
      BY RefIs
    <2>4. ASSUME NEW r \in nodes, working = Ref(r) PROVE Places(r) = {}
      <3>1. \A p \in nodes : \A j \in DOMAIN Parts(heap[p]) : Parts(heap[p])[j] # Ref(r)
        BY <2>1, <2>3, <2>4 DEF Unplaced, Slots, Range
      <3> QED
        BY <3>1
    <2>5. ASSUME NEW r \in nodes, working # Ref(r)
          PROVE  \E p \in nodes : \E i \in At(r, p) : Places(r) = {<<p, i>>}
      <3>1. \E p \in nodes : \E i \in DOMAIN Parts(heap[p]) : Parts(heap[p])[i] = Ref(r)
        <4> SUFFICES ASSUME \A p \in nodes : \A i \in DOMAIN Parts(heap[p]) : Parts(heap[p])[i] # Ref(r)
                     PROVE  FALSE
          OBVIOUS
        <4> DEFINE D == nodes \ {r}
        <4>1. ASSUME NEW p \in D PROVE RefsIn(Slots(heap[p])) \subseteq D
          <5>1. RefsIn(Slots(heap[p])) \subseteq nodes
            BY <2>2 DEF Closed
          <5>2. Slots(heap[p]) \subseteq Links(DOMAIN heap)
            <6>1. heap[p] \in NodesWith(Links(DOMAIN heap))
              BY <2>1, <2>2 DEF HeapOK
            <6> QED
              BY <6>1, NodeShape
          <5>3. Ref(r) \notin Slots(heap[p])
            BY DEF Slots, Range
          <5>4. r \notin RefsIn(Slots(heap[p]))
            BY <5>2, <5>3, RefsOfLinks
          <5> QED
            BY <5>1, <5>4
        <4>2. Closed(heap, D)
          BY <4>1 DEF Closed
        <4>3. working \in Links(D)
          BY <2>2, <2>5 DEF Links
        <4>4. D \in SUBSET DOMAIN heap
          BY <2>2
        <4>5. nodes \subseteq D
          BY <2>2, <4>2, <4>3, <4>4
        <4> QED
          BY <2>5, <4>5
      <3>2. PICK p \in nodes : \E i \in DOMAIN Parts(heap[p]) : Parts(heap[p])[i] = Ref(r)
        BY <3>1
      <3>3. PICK i \in DOMAIN Parts(heap[p]) : Parts(heap[p])[i] = Ref(r)
        BY <3>2
      <3>4. \A q \in nodes : \A j \in DOMAIN Parts(heap[q]) :
              Parts(heap[q])[j] = Ref(r) => q = p /\ j = i
        BY <2>1, <2>3, <3>3 DEF OnePlace
      <3>5. i \in At(r, p) /\ \A q \in nodes : \A j \in At(r, q) : q = p /\ j = i
        BY <3>3, <3>4
      <3> HIDE DEF At
      <3>6. Places(r) = {<<p, i>>}
        BY <3>5
      <3> QED
        BY <3>5, <3>6
    <2>6. \A x : Cardinality({x}) = 1
      BY FS_Singleton
    <2>7. Cardinality({}) = 0
      BY FS_EmptySet
    <2>8. \A r \in nodes : Cardinality(Places(r)) = IF working = Ref(r) THEN 0 ELSE 1
      <3> HIDE DEF Places, At
      <3> QED
        BY <2>4, <2>5, <2>6, <2>7
    <2> QED
      BY <2>8 DEF DraftIsTree, nodes, Own
  <1> QED
    BY <1>1, InductiveInv, PTL

\* The operations run on a raw document: until the last one is done no node of
\* the draft has a schema, whatever the values of the operations brought along.
THEOREM RawUntilTheEnd == Spec => []DraftHasNoSchema
  <1>1. PInv => DraftHasNoSchema
    BY DEF PInv, DraftHasNoSchema, Bare, Own
  <1> QED
    BY <1>1, InductiveInv, PTL

\* ApplySchema comes last: the result of ApplyPatch is governed by the schema
\* from its root down when there is a schema to apply.
THEOREM GovernedAtTheEnd == Spec => []ResultGoverned
  <1>1. PInv => ResultGoverned
    BY DEF PInv, ResultGoverned, Governed, Own
  <1> QED
    BY <1>1, InductiveInv, PTL

\* patch.md: raw while the operations run, governed and in normal form when
\* ApplySchema is done.  What it returns is a fixed point of the normalisation
\* (NormalIsStable), and storing it keeps every part of it (StoredView).
THEOREM NormalAtTheEnd == Spec => []SchemaAtTheEnd
  <1>1. Init => ResultNormal
    BY DEF Init, ResultNormal
  <1>2. PInv /\ ResultNormal /\ [Next]_vars => ResultNormal'
    BY StaysNormal
  <1>3. Spec => []ResultNormal
    BY <1>1, <1>2, InductiveInv, PTL DEF Spec
  <1>4. DraftHasNoSchema /\ ResultGoverned /\ ResultNormal => SchemaAtTheEnd
    BY DEF SchemaAtTheEnd
  <1> QED
    BY <1>3, <1>4, RawUntilTheEnd, GovernedAtTheEnd, PTL

\* "The original document is never mutated" (patch_apply.go:4): no step writes to
\* a node the caller or the patch reaches.
THEOREM CallerKept == Spec => CallerUntouched
  <1>1. PInv /\ [Next]_vars => [\A r \in Reach(heap, Caller) : heap'[r] = heap[r]]_vars
    <2> SUFFICES ASSUME PInv, Next PROVE \A r \in Reach(heap, Caller) : heap'[r] = heap[r]
      BY DEF vars
    <2>1. PICK h, slot : MovesTo(h, slot)
      BY NextMoves
    <2>2. \A r \in Others(heap, doc, argument, patchValue) : heap'[r] = heap[r]
      BY <2>1, MovedTo
    <2> QED
      BY <2>2, CallerIs DEF PInv
  <1> QED
    BY <1>1, InductiveInv, PTL DEF Spec, CallerUntouched

-----------------------------------------------------------------------------
(* Trees of any depth.                                                     *)

LEMMA NestedUpTo ==
  ASSUME NEW n \in Nat, NEW m \in Nat, n <= m
  PROVE  Nested[n] \subseteq Nested[m]
  <1> DEFINE T == {k \in Nat : Nested[n] \subseteq Nested[n + k]}
  <1>1. 0 \in T
    OBVIOUS
  <1>2. ASSUME NEW k \in Nat, k \in T PROVE k + 1 \in T
    <2>1. n + k \in Nat /\ n + (k + 1) = (n + k) + 1
      OBVIOUS
    <2>2. Nested[n + k] \subseteq Nested[n + (k + 1)]
      BY <2>1, NestedGrows
    <2> QED
      BY <1>2, <2>2
  <1> HIDE DEF T
  <1>3. \A k \in Nat : k \in T
    BY <1>1, <1>2, Induction
  <1>4. m - n \in T /\ n + (m - n) = m
    BY <1>3
  <1> QED
    BY <1>4 DEF T

\* The parts of a container nest to some depth all of them.
LEMMA OneLevel ==
  ASSUME NEW s \in Seq(AllTrees)
  PROVE  \E n \in Nat : s \in Seq(Nested[n])
  <1> DEFINE T == {k \in Nat : \E n \in Nat : \A i \in DOMAIN s : i <= k => s[i] \in Nested[n]}
  <1>0. DOMAIN s = 1..Len(s) /\ Len(s) \in Nat /\ \A i \in DOMAIN s : s[i] \in AllTrees
    OBVIOUS
  <1>1. 0 \in T
    BY <1>0
  <1>2. ASSUME NEW k \in Nat, k \in T PROVE k + 1 \in T
    <2>1. PICK n \in Nat : \A i \in DOMAIN s : i <= k => s[i] \in Nested[n]
      BY <1>2
    <2>2. CASE k + 1 \in DOMAIN s
      <3>1. PICK m \in Nat : s[k + 1] \in Nested[m]
        BY <1>0, <2>2 DEF AllTrees
      <3> DEFINE l == n + m
      <3>2. l \in Nat /\ n <= l /\ m <= l
        OBVIOUS
      <3>3. Nested[n] \subseteq Nested[l] /\ Nested[m] \subseteq Nested[l]
        BY <3>2, NestedUpTo
      <3> HIDE DEF l
      <3>4. ASSUME NEW i \in DOMAIN s, i <= k + 1 PROVE s[i] \in Nested[l]
        <4>1. i \in Int /\ (i <= k \/ i = k + 1)
          BY <1>0, <3>4
        <4> QED
          BY <2>1, <3>1, <3>3, <4>1
      <3> QED
        BY <3>2, <3>4
    <2>3. CASE k + 1 \notin DOMAIN s
      <3>1. \A i \in DOMAIN s : i <= k + 1 => i <= k
        BY <1>0, <2>3
      <3> QED
        BY <2>1, <3>1
    <2> QED
      BY <2>2, <2>3
  <1> HIDE DEF T
  <1>3. Len(s) \in T
    BY <1>0, <1>1, <1>2, Induction
  <1>4. PICK n \in Nat : \A i \in DOMAIN s : i <= Len(s) => s[i] \in Nested[n]
    BY <1>3 DEF T
  <1>5. \A i \in DOMAIN s : s[i] \in Nested[n]
    BY <1>0, <1>4
  <1>6. s \in Seq(Nested[n])
    BY <1>5
  <1> QED
    BY <1>6

\* The fields whose values are trees of any depth nest to some depth.
LEMMA OneLevelFields ==
  ASSUME NEW fields \in Seq(FieldsOf(STRING, AllTrees))
  PROVE  \E n \in Nat : fields \in Seq(FieldsOf(STRING, Nested[n]))
  <1> DEFINE values == [i \in DOMAIN fields |-> fields[i].value]
  <1>1. values \in Seq(AllTrees) /\ DOMAIN values = DOMAIN fields
    BY ValuesOf
  <1>2. PICK n \in Nat : values \in Seq(Nested[n])
    <2> HIDE DEF values
    <2> QED
      BY <1>1, OneLevel
  <1>3. ASSUME NEW i \in DOMAIN fields PROVE fields[i] \in FieldsOf(STRING, Nested[n])
    <2>1. fields[i] \in FieldsOf(STRING, AllTrees)
      OBVIOUS
    <2>2. fields[i].value = values[i] /\ values[i] \in Nested[n]
      BY <1>2, <1>1
    <2> HIDE DEF values
    <2> QED
      BY <2>1, <2>2 DEF FieldsOf
  <1>4. fields \in Seq(FieldsOf(STRING, Nested[n]))
    BY <1>3
  <1> QED
    BY <1>4

\* A tree of any depth: a scalar, or a container of such trees.
LEMMA AnyTree ==
  /\ ScalarValues \subseteq AllTrees
  /\ \A items \in Seq(AllTrees) : Array(items) \in AllTrees
  /\ \A fields \in Seq(FieldsOf(STRING, AllTrees)) : Object(fields) \in AllTrees
  /\ \A tree \in AllTrees :
       /\ tree.kind = "array"  => tree = Array(tree.items) /\ tree.items \in Seq(AllTrees)
       /\ tree.kind = "object" => /\ tree = Object(tree.fields)
                                  /\ tree.fields \in Seq(FieldsOf(STRING, AllTrees))
       /\ tree.kind # "array" /\ tree.kind # "object" => tree \in ScalarValues
       /\ ~IsRef(tree)
  <1>1. ScalarValues \subseteq AllTrees
    BY NestedIs DEF AllTrees
  <1>2. ASSUME NEW items \in Seq(AllTrees) PROVE Array(items) \in AllTrees
    <2>1. PICK n \in Nat : items \in Seq(Nested[n])
      BY OneLevel
    <2>2. Array(items) \in ArraysOf(Nested[n])
      BY <2>1 DEF Array, ArraysOf
    <2>3. Array(items) \in Nested[n + 1] /\ n + 1 \in Nat
      BY <2>2, NestedIs DEF Around
    <2> QED
      BY <2>3 DEF AllTrees
  <1>3. ASSUME NEW fields \in Seq(FieldsOf(STRING, AllTrees)) PROVE Object(fields) \in AllTrees
    <2>1. PICK n \in Nat : fields \in Seq(FieldsOf(STRING, Nested[n]))
      BY OneLevelFields
    <2>2. Object(fields) \in ObjectsOf(Nested[n])
      BY <2>1 DEF Object, ObjectsOf
    <2>3. Object(fields) \in Nested[n + 1] /\ n + 1 \in Nat
      BY <2>2, NestedIs DEF Around
    <2> QED
      BY <2>3 DEF AllTrees
  <1>4. ASSUME NEW tree \in AllTrees
        PROVE  /\ tree.kind = "array"  => tree = Array(tree.items) /\ tree.items \in Seq(AllTrees)
               /\ tree.kind = "object" => /\ tree = Object(tree.fields)
                                          /\ tree.fields \in Seq(FieldsOf(STRING, AllTrees))
               /\ tree.kind # "array" /\ tree.kind # "object" => tree \in ScalarValues
               /\ ~IsRef(tree)
    <2>1. PICK n \in Nat : tree \in Nested[n]
      BY DEF AllTrees
    <2>2. ~IsRef(tree)
      BY <2>1, TreeShape
    <2>3. CASE tree \in ScalarValues
      <3>1. tree.kind # "array" /\ tree.kind # "object"
        BY <2>3, ScalarKind DEF IsContainer
      <3> QED
        BY <2>2, <2>3, <3>1
    <2>4. CASE tree \notin ScalarValues
      <3>1. n # 0 /\ n - 1 \in Nat /\ (n - 1) + 1 = n
        BY <2>1, <2>4, NestedIs
      <3>2. tree \in ObjectsOf(Nested[n - 1]) \cup ArraysOf(Nested[n - 1])
        BY <2>1, <2>4, <3>1, NestedIs DEF Around
      <3>3. Nested[n - 1] \subseteq AllTrees
        BY <3>1 DEF AllTrees
      <3>4. CASE tree \in ObjectsOf(Nested[n - 1])
        <4>1. /\ tree.kind = "object" /\ tree.fields \in Seq(FieldsOf(STRING, Nested[n - 1]))
              /\ tree = Object(tree.fields)
          BY <3>4 DEF ObjectsOf, Object
        <4>2. FieldsOf(STRING, Nested[n - 1]) \subseteq FieldsOf(STRING, AllTrees)
          BY <3>3 DEF FieldsOf
        <4>3. tree.fields \in Seq(FieldsOf(STRING, AllTrees))
          BY <4>1, <4>2
        <4> QED
          BY <2>2, <4>1, <4>3
      <3>5. CASE tree \in ArraysOf(Nested[n - 1])
        <4>1. /\ tree.kind = "array" /\ tree.items \in Seq(Nested[n - 1])
              /\ tree = Array(tree.items)
          BY <3>5 DEF ArraysOf, Array
        <4>2. tree.items \in Seq(AllTrees)
          BY <3>3, <4>1
        <4> QED
          BY <2>2, <4>1, <4>2
      <3> QED
        BY <3>2, <3>4, <3>5
    <2> QED
      BY <2>3, <2>4
  <1> QED
    BY <1>1, <1>2, <1>3, <1>4

-----------------------------------------------------------------------------
(* What the nodes of a heap denote.                                        *)

Denoted(trees, slot) == IF IsRef(slot) THEN trees[slot.ref] ELSE slot

\* `trees` tells what these nodes denote: each is as its parts have it.
Tells(h, trees, nodes) ==
  /\ trees \in [nodes -> AllTrees]
  /\ \A r \in nodes : trees[r] = TreeAt(h, trees, r)

ItemsShown(trees, items)   == [i \in DOMAIN items |-> Denoted(trees, items[i])]
FieldsShown(trees, fields) ==
  [i \in DOMAIN fields |-> Field(fields[i].key, Denoted(trees, fields[i].value))]

LEMMA DenotedIsTree ==
  ASSUME NEW D, NEW trees \in [D -> AllTrees], NEW slot \in Links(D)
  PROVE  Denoted(trees, slot) \in AllTrees
  <1>1. IsRef(slot) => slot.ref \in D
    BY LinkOrScalar
  <1>2. ~IsRef(slot) => slot \in AllTrees
    BY LinkOrScalar, AnyTree
  <1> QED
    BY <1>1, <1>2 DEF Denoted

LEMMA ShownParts ==
  ASSUME NEW D, NEW trees \in [D -> AllTrees]
  PROVE  /\ \A items \in Seq(Links(D)) :
              /\ ItemsShown(trees, items) \in Seq(AllTrees)
              /\ Len(ItemsShown(trees, items)) = Len(items)
              /\ DOMAIN ItemsShown(trees, items) = DOMAIN items
         /\ \A fields \in Seq(FieldsOf(STRING, Links(D))) :
              /\ FieldsShown(trees, fields) \in Seq(FieldsOf(STRING, AllTrees))
              /\ Len(FieldsShown(trees, fields)) = Len(fields)
              /\ DOMAIN FieldsShown(trees, fields) = DOMAIN fields
  <1>1. ASSUME NEW items \in Seq(Links(D))
        PROVE  /\ ItemsShown(trees, items) \in Seq(AllTrees)
               /\ Len(ItemsShown(trees, items)) = Len(items)
               /\ DOMAIN ItemsShown(trees, items) = DOMAIN items
    <2>1. DOMAIN items = 1..Len(items) /\ Len(items) \in Nat
      OBVIOUS
    <2>2. \A i \in DOMAIN items : Denoted(trees, items[i]) \in AllTrees
      BY DenotedIsTree
    <2>3. ItemsShown(trees, items) \in [1..Len(items) -> AllTrees]
      BY <2>1, <2>2 DEF ItemsShown
    <2> QED
      BY <2>1, <2>3, SequenceOf
  <1>2. ASSUME NEW fields \in Seq(FieldsOf(STRING, Links(D)))
        PROVE  /\ FieldsShown(trees, fields) \in Seq(FieldsOf(STRING, AllTrees))
               /\ Len(FieldsShown(trees, fields)) = Len(fields)
               /\ DOMAIN FieldsShown(trees, fields) = DOMAIN fields
    <2>1. DOMAIN fields = 1..Len(fields) /\ Len(fields) \in Nat
      OBVIOUS
    <2>2. \A i \in DOMAIN fields : fields[i].key \in STRING /\ fields[i].value \in Links(D)
      <3>1. \A i \in DOMAIN fields : fields[i] \in FieldsOf(STRING, Links(D))
        OBVIOUS
      <3> QED
        BY <3>1 DEF FieldsOf
    <2>3. \A i \in DOMAIN fields : Denoted(trees, fields[i].value) \in AllTrees
      BY <2>2, DenotedIsTree
    <2>4. \A i \in DOMAIN fields :
            Field(fields[i].key, Denoted(trees, fields[i].value)) \in FieldsOf(STRING, AllTrees)
      BY <2>2, <2>3 DEF Field, FieldsOf
    <2>5. FieldsShown(trees, fields) \in [1..Len(fields) -> FieldsOf(STRING, AllTrees)]
      BY <2>1, <2>4 DEF FieldsShown
    <2> QED
      BY <2>1, <2>5, SequenceOf
  <1> QED
    BY <1>1, <1>2

\* The tree of a node, by its kind.
LEMMA Shown ==
  ASSUME NEW h, NEW r, NEW D, h[r] \in NodesWith(Links(D)), NEW trees \in [D -> AllTrees]
  PROVE  /\ h[r].kind = "array" =>
              /\ h[r].items \in Seq(Links(D))
              /\ TreeAt(h, trees, r) = Array(ItemsShown(trees, h[r].items))
         /\ h[r].kind = "object" =>
              /\ h[r].fields \in Seq(FieldsOf(STRING, Links(D)))
              /\ TreeAt(h, trees, r) = Object(FieldsShown(trees, h[r].fields))
         /\ h[r].kind = "array" \/ h[r].kind = "object"
         /\ TreeAt(h, trees, r) \in AllTrees /\ TreeAt(h, trees, r).kind = h[r].kind
  <1> DEFINE node == h[r]
  <1>0. /\ node.kind = "object" \/ node.kind = "array"
        /\ node.kind = "object" => /\ node.fields \in Seq(FieldsOf(STRING, Links(D)))
                                   /\ Parts(node) = [i \in DOMAIN node.fields |-> node.fields[i].value]
        /\ node.kind = "array" => node.items \in Seq(Links(D)) /\ Parts(node) = node.items
    BY NodeShape
  <1>1. TreeAt(h, trees, r) =
          TreeOf(node, [i \in DOMAIN Parts(node) |-> Denoted(trees, Parts(node)[i])])
    BY DEF TreeAt, Denoted
  <1>2. \A items : Array(items).kind = "array"
    BY DEF Array
  <1>3. \A fields : Object(fields).kind = "object"
    BY DEF Object
  <1> HIDE DEF node
  <1>4. CASE node.kind = "array"
    <2>1. TreeAt(h, trees, r) = Array(ItemsShown(trees, node.items))
      BY <1>0, <1>1, <1>4 DEF TreeOf, ItemsShown
    <2>2. ItemsShown(trees, node.items) \in Seq(AllTrees)
      BY <1>0, <1>4, ShownParts
    <2> QED
      BY <1>0, <1>2, <1>4, <2>1, <2>2, AnyTree DEF node
  <1>5. CASE node.kind = "object"
    <2>1. TreeAt(h, trees, r) = Object(FieldsShown(trees, node.fields))
      <3> DEFINE parts == [i \in DOMAIN Parts(node) |-> Denoted(trees, Parts(node)[i])]
      <3>1. /\ DOMAIN parts = DOMAIN node.fields
            /\ \A i \in DOMAIN node.fields : parts[i] = Denoted(trees, node.fields[i].value)
        BY <1>0, <1>5
      <3> HIDE DEF parts
      <3>2. [i \in DOMAIN parts |-> Field(node.fields[i].key, parts[i])]
              = FieldsShown(trees, node.fields)
        BY <3>1 DEF FieldsShown
      <3>3. TreeOf(node, parts) = Object([i \in DOMAIN parts |-> Field(node.fields[i].key, parts[i])])
        BY <1>5 DEF TreeOf
      <3>4. TreeAt(h, trees, r) = TreeOf(node, parts)
        BY <1>1 DEF parts
      <3> QED
        BY <3>2, <3>3, <3>4
    <2>2. FieldsShown(trees, node.fields) \in Seq(FieldsOf(STRING, AllTrees))
      BY <1>0, <1>5, ShownParts
    <2> QED
      BY <1>0, <1>3, <1>5, <2>1, <2>2, AnyTree DEF node
  <1> QED
    BY <1>0, <1>4, <1>5 DEF node

-----------------------------------------------------------------------------
(* The operations on the parts of a node are those on the parts of a tree. *)

LEMMA ItemsEditedShown ==
  ASSUME NEW D, NEW trees \in [D -> AllTrees], NEW items \in Seq(Links(D)), NEW slot \in Links(D)
  PROVE  LET shown == ItemsShown(trees, items)
             new   == Denoted(trees, slot)
         IN  /\ \A k \in 1..Len(items) + 1 :
                  ItemsShown(trees, InsertAt(items, k, slot)) = InsertAt(shown, k, new)
             /\ ItemsShown(trees, InsertAt(items, Len(items) + 1, slot)) = Append(shown, new)
  <1> DEFINE shown == ItemsShown(trees, items)
             new   == Denoted(trees, slot)
             V     == Links(D)
             n     == Len(items)
  <1>1. /\ shown \in Seq(AllTrees) /\ Len(shown) = n /\ DOMAIN shown = DOMAIN items
        /\ DOMAIN items = 1..n /\ n \in Nat
    BY ShownParts
  <1>2. new \in AllTrees
    BY DenotedIsTree
  <1>3. \A i \in 1..n : shown[i] = Denoted(trees, items[i])
    BY <1>1 DEF ItemsShown
  <1>4. \A t \in Seq(V) : /\ ItemsShown(trees, t) \in Seq(AllTrees)
                          /\ DOMAIN ItemsShown(trees, t) = DOMAIN t
                          /\ \A i \in DOMAIN t : ItemsShown(trees, t)[i] = Denoted(trees, t[i])
    BY ShownParts DEF ItemsShown
  <1> HIDE DEF shown, new, n
  <1>5. ASSUME NEW k \in 1..n + 1
        PROVE  ItemsShown(trees, InsertAt(items, k, slot)) = InsertAt(shown, k, new)
    <2> DEFINE t == InsertAt(items, k, slot)
               u == InsertAt(shown, k, new)
    <2>1. /\ t \in Seq(V) /\ DOMAIN t = 1..n + 1
          /\ \A i \in 1..n + 1 :
               t[i] = IF i < k THEN items[i] ELSE IF i = k THEN slot ELSE items[i - 1]
      BY InsertAtIs DEF n
    <2>2. /\ u \in Seq(AllTrees) /\ DOMAIN u = 1..n + 1
          /\ \A i \in 1..n + 1 :
               u[i] = IF i < k THEN shown[i] ELSE IF i = k THEN new ELSE shown[i - 1]
      <3>1. shown \in Seq(AllTrees) /\ k \in 1..Len(shown) + 1
        BY <1>1
      <3>2. /\ u \in Seq(AllTrees) /\ DOMAIN u = 1..Len(shown) + 1
            /\ \A i \in 1..Len(shown) + 1 :
                 u[i] = IF i < k THEN shown[i] ELSE IF i = k THEN new ELSE shown[i - 1]
        BY <3>1, <1>2, InsertAtIs
      <3> QED
        BY <1>1, <3>2
    <2> HIDE DEF t, u, V
    <2>3. ASSUME NEW i \in 1..n + 1 PROVE ItemsShown(trees, t)[i] = u[i]
      <3>1. ItemsShown(trees, t)[i] = Denoted(trees, t[i])
        BY <1>4, <2>1
      <3>2. CASE i < k
        BY <1>1, <1>3, <2>1, <2>2, <3>1, <3>2
      <3>3. CASE i = k
        BY <2>1, <2>2, <3>1, <3>3 DEF new
      <3>4. CASE i > k
        <4>1. i - 1 \in 1..n
          BY <1>1, <3>4
        <4> QED
          BY <1>1, <1>3, <2>1, <2>2, <3>1, <3>4, <4>1
      <3> QED
        BY <1>1, <3>2, <3>3, <3>4
    <2>4. ItemsShown(trees, t) \in Seq(AllTrees) /\ DOMAIN ItemsShown(trees, t) = 1..n + 1
      BY <1>4, <2>1
    <2>5. Len(ItemsShown(trees, t)) = n + 1 /\ Len(u) = n + 1
      BY <1>1, <2>2, <2>4
    <2> QED
      BY <2>2, <2>3, <2>4, <2>5, SameSequence DEF t, u
  <1>6. InsertAt(shown, n + 1, new) = Append(shown, new)
    <2> DEFINE u == InsertAt(shown, n + 1, new)
               a == Append(shown, new)
    <2>1. /\ u \in Seq(AllTrees) /\ DOMAIN u = 1..n + 1
          /\ \A i \in 1..n + 1 :
               u[i] = IF i < n + 1 THEN shown[i] ELSE IF i = n + 1 THEN new ELSE shown[i - 1]
      BY <1>1, <1>2, InsertAtIs
    <2>2. a \in Seq(AllTrees) /\ Len(a) = n + 1
      BY <1>1, <1>2
    <2>3. \A i \in 1..n + 1 : a[i] = IF i < n + 1 THEN shown[i] ELSE new
      BY <1>1, <1>2
    <2> HIDE DEF u, a
    <2>4. Len(u) = n + 1 /\ \A i \in 1..n + 1 : u[i] = a[i]
      BY <1>1, <2>1, <2>3
    <2> QED
      BY <2>1, <2>2, <2>4, SameSequence DEF u, a
  <1>7. ItemsShown(trees, InsertAt(items, n + 1, slot)) = Append(shown, new)
    BY <1>1, <1>5, <1>6
  <1> QED
    BY <1>5, <1>7 DEF shown, new, n

LEMMA ItemsCutShown ==
  ASSUME NEW D, NEW trees \in [D -> AllTrees], NEW items \in Seq(Links(D)), NEW k \in 1..Len(items)
  PROVE  ItemsShown(trees, RemoveAt(items, k)) = RemoveAt(ItemsShown(trees, items), k)
  <1> DEFINE shown == ItemsShown(trees, items)
             V     == Links(D)
             n     == Len(items)
  <1>1. /\ shown \in Seq(AllTrees) /\ Len(shown) = n /\ DOMAIN shown = DOMAIN items
        /\ DOMAIN items = 1..n /\ n \in Nat
    BY ShownParts
  <1>3. \A i \in 1..n : shown[i] = Denoted(trees, items[i])
    BY <1>1 DEF ItemsShown
  <1>4. \A t \in Seq(V) : /\ ItemsShown(trees, t) \in Seq(AllTrees)
                          /\ DOMAIN ItemsShown(trees, t) = DOMAIN t
                          /\ \A i \in DOMAIN t : ItemsShown(trees, t)[i] = Denoted(trees, t[i])
    BY ShownParts DEF ItemsShown
  <1>5. k \in 1..n
    OBVIOUS
  <1> HIDE DEF shown, n
  <1>8. ItemsShown(trees, RemoveAt(items, k)) = RemoveAt(shown, k)
    <2> DEFINE t == RemoveAt(items, k)
               u == RemoveAt(shown, k)
    <2>1. /\ t \in Seq(V) /\ DOMAIN t = 1..n - 1
          /\ \A i \in 1..n - 1 : t[i] = IF i < k THEN items[i] ELSE items[i + 1]
      BY RemoveAtIs DEF n
    <2>2. /\ u \in Seq(AllTrees) /\ DOMAIN u = 1..n - 1
          /\ \A i \in 1..n - 1 : u[i] = IF i < k THEN shown[i] ELSE shown[i + 1]
      BY <1>1, <1>5, RemoveAtIs
    <2> HIDE DEF t, u, V
    <2>3. ASSUME NEW i \in 1..n - 1 PROVE ItemsShown(trees, t)[i] = u[i]
      <3>1. ItemsShown(trees, t)[i] = Denoted(trees, t[i])
        BY <1>4, <2>1
      <3>2. i \in 1..n /\ i + 1 \in 1..n
        BY <1>1
      <3> QED
        BY <1>3, <2>1, <2>2, <3>1, <3>2
    <2>4. ItemsShown(trees, t) \in Seq(AllTrees) /\ DOMAIN ItemsShown(trees, t) = 1..n - 1
      BY <1>4, <2>1
    <2>5. n - 1 \in Nat
      BY <1>1
    <2>6. Len(ItemsShown(trees, t)) = n - 1 /\ Len(u) = n - 1
      BY <2>2, <2>4, <2>5
    <2> QED
      BY <2>2, <2>3, <2>4, <2>6, SameSequence DEF t, u
  <1> QED
    BY <1>8 DEF shown

PutItem(items, k, new) == [items EXCEPT ![k] = new]

LEMMA ItemsPutShown ==
  ASSUME NEW D, NEW trees \in [D -> AllTrees], NEW items \in Seq(Links(D)), NEW k \in 1..Len(items),
         NEW slot \in Links(D)
  PROVE  ItemsShown(trees, PutItem(items, k, slot))
           = PutItem(ItemsShown(trees, items), k, Denoted(trees, slot))
  <1> DEFINE shown == ItemsShown(trees, items)
             new   == Denoted(trees, slot)
             V     == Links(D)
             n     == Len(items)
  <1>1. /\ shown \in Seq(AllTrees) /\ Len(shown) = n /\ DOMAIN shown = DOMAIN items
        /\ DOMAIN items = 1..n /\ n \in Nat
    BY ShownParts
  <1>3. \A i \in 1..n : shown[i] = Denoted(trees, items[i])
    BY <1>1 DEF ItemsShown
  <1>5. k \in 1..n
    OBVIOUS
  <1> HIDE DEF shown, new, n
  <1>8. ItemsShown(trees, [items EXCEPT ![k] = slot]) = [shown EXCEPT ![k] = new]
    <2> DEFINE t == [items EXCEPT ![k] = slot]
               u == [shown EXCEPT ![k] = new]
    <2>1. DOMAIN t = 1..n /\ \A i \in 1..n : t[i] = IF i = k THEN slot ELSE items[i]
      BY <1>1
    <2>2. DOMAIN u = 1..n /\ \A i \in 1..n : u[i] = IF i = k THEN new ELSE shown[i]
      BY <1>1
    <2>3. u = [i \in 1..n |-> u[i]]
      BY <1>1
    <2> HIDE DEF t, u
    <2>4. \A i \in 1..n : Denoted(trees, t[i]) = u[i]
      BY <1>3, <2>1, <2>2 DEF new
    <2> QED
      BY <2>1, <2>3, <2>4 DEF ItemsShown, t, u
  <1> QED
    BY <1>8 DEF shown, new, PutItem

LEMMA FieldShown ==
  ASSUME NEW D, NEW trees \in [D -> AllTrees], NEW fields \in Seq(FieldsOf(STRING, Links(D))),
         NEW key
  PROVE  LET shown == FieldsShown(trees, fields)
         IN  /\ FieldIndex(shown, key) = FieldIndex(fields, key)
             /\ GetField(shown, key) = Denoted(trees, GetField(fields, key))
  <1> DEFINE shown == FieldsShown(trees, fields)
             At(s) == {i \in 1..Len(s) : s[i].key = key}
  <1>1. /\ shown \in Seq(FieldsOf(STRING, AllTrees)) /\ Len(shown) = Len(fields)
        /\ DOMAIN shown = DOMAIN fields
    BY ShownParts
  <1>2. \A i \in DOMAIN fields : shown[i] = Field(fields[i].key, Denoted(trees, fields[i].value))
    BY DEF FieldsShown
  <1>3. \A k, v : Field(k, v).key = k /\ Field(k, v).value = v
    BY DEF Field
  <1>4. DOMAIN fields = 1..Len(fields)
    OBVIOUS
  <1> HIDE DEF shown
  <1>5. At(shown) = At(fields)
    BY <1>1, <1>2, <1>3, <1>4
  <1>6. \A s : FieldIndex(s, key) = IF At(s) # {} THEN Min(At(s)) ELSE 0
    BY DEF FieldIndex, SelectInSeq
  <1> HIDE DEF At
  <1>7. FieldIndex(shown, key) = FieldIndex(fields, key)
    BY <1>5, <1>6
  <1>8. FieldIndex(fields, key) \in 0..Len(fields)
    BY FieldIndexIn
  <1>9. GetField(shown, key) = Denoted(trees, GetField(fields, key))
    <2>1. CASE FieldIndex(fields, key) = 0
      BY <1>7, <2>1, VoidLinks DEF GetField, Denoted
    <2>2. CASE FieldIndex(fields, key) # 0
      <3>1. FieldIndex(fields, key) \in DOMAIN fields
        BY <1>4, <1>8, <2>2
      <3> QED
        BY <1>2, <1>3, <1>7, <2>2, <3>1 DEF GetField
    <2> QED
      BY <2>1, <2>2
  <1> QED
    BY <1>7, <1>9 DEF shown

LEMMA Appended ==
  ASSUME NEW F, NEW s \in Seq(F), NEW x \in F
  PROVE  /\ Append(s, x) \in Seq(F) /\ Len(Append(s, x)) = Len(s) + 1
         /\ \A k \in 1..Len(s) + 1 : Append(s, x)[k] = IF k = Len(s) + 1 THEN x ELSE s[k]
  OBVIOUS

LEMMA FieldsEditedShown ==
  ASSUME NEW D, NEW trees \in [D -> AllTrees], NEW fields \in Seq(FieldsOf(STRING, Links(D))),
         NEW key \in STRING
  PROVE  LET shown == FieldsShown(trees, fields)
         IN  /\ \A slot \in Links(D) :
                  FieldsShown(trees, setField(fields, key, slot))
                    = setField(shown, key, Denoted(trees, slot))
             /\ FieldsShown(trees, removeField(fields, key)) = removeField(shown, key)
  <1> DEFINE shown == FieldsShown(trees, fields)
             V == FieldsOf(STRING, Links(D))
             W == FieldsOf(STRING, AllTrees)
             n == Len(fields)
             i == FieldIndex(fields, key)
             FieldOf(f) == Field(f.key, Denoted(trees, f.value))
  <1>1. /\ shown \in Seq(W) /\ Len(shown) = n /\ DOMAIN shown = 1..n /\ DOMAIN fields = 1..n
        /\ n \in Nat
    BY ShownParts
  <1>2. \A k \in 1..n : shown[k] = FieldOf(fields[k])
    BY <1>1 DEF FieldsShown
  <1>3. FieldIndex(shown, key) = i /\ i \in 0..n
    BY FieldShown, FieldIndexIn
  <1>4. \A k, v : Field(k, v).key = k /\ Field(k, v).value = v
    BY DEF Field
  <1>5. \A t \in Seq(V) : /\ FieldsShown(trees, t) \in Seq(W) /\ Len(FieldsShown(trees, t)) = Len(t)
                          /\ DOMAIN FieldsShown(trees, t) = DOMAIN t
                          /\ \A k \in DOMAIN t : FieldsShown(trees, t)[k] = FieldOf(t[k])
    BY ShownParts DEF FieldsShown
  <1>6. fields \in Seq(V)
    OBVIOUS
  <1>7. \A k \in 1..n : fields[k] \in V /\ shown[k] \in W
    BY <1>1
  <1> HIDE DEF shown, n, i
  <1>8. ASSUME NEW slot \in Links(D)
        PROVE  FieldsShown(trees, setField(fields, key, slot))
                 = setField(shown, key, Denoted(trees, slot))
    <2> DEFINE new == Denoted(trees, slot)
               t   == setField(fields, key, slot)
               u   == setField(shown, key, new)
    <2>1. new \in AllTrees
      BY DenotedIsTree
    <2>2. Field(key, slot) \in V /\ Field(key, new) \in W /\ FieldOf(Field(key, slot)) = Field(key, new)
      BY <1>4, <2>1 DEF Field, FieldsOf
    <2>3. CASE i = 0
      <3>1. t = Append(fields, Field(key, slot)) /\ u = Append(shown, Field(key, new))
        BY <1>3, <2>3 DEF setField, i
      <3> HIDE DEF FieldOf, new, V, W
      <3>2. /\ t \in Seq(V) /\ Len(t) = n + 1 /\ DOMAIN t = 1..n + 1
            /\ \A k \in 1..n + 1 : t[k] = IF k = n + 1 THEN Field(key, slot) ELSE fields[k]
        BY <1>1, <1>6, <2>2, <3>1 DEF n
      <3>3. /\ u \in Seq(W) /\ Len(u) = n + 1
            /\ \A k \in 1..n + 1 : u[k] = IF k = n + 1 THEN Field(key, new) ELSE shown[k]
        <4>1. shown \in Seq(W) /\ Field(key, new) \in W
          BY <1>1, <2>2
        <4>2. u = Append(shown, Field(key, new))
          BY <3>1
        <4> DEFINE x == Field(key, new)
        <4> HIDE DEF u, x
        <4>3. /\ Append(shown, x) \in Seq(W) /\ Len(Append(shown, x)) = Len(shown) + 1
              /\ \A k \in 1..Len(shown) + 1 :
                   Append(shown, x)[k] = IF k = Len(shown) + 1 THEN x ELSE shown[k]
          <5>1. shown \in Seq(W) /\ x \in W
            BY <4>1 DEF x
          <5> QED
            BY <5>1, Appended
        <4> QED
          BY <1>1, <4>2, <4>3 DEF x
      <3> HIDE DEF t, u
      <3>4. ASSUME NEW k \in 1..n + 1 PROVE FieldsShown(trees, t)[k] = u[k]
        <4>1. FieldsShown(trees, t)[k] = FieldOf(t[k])
          BY <1>5, <3>2
        <4>2. k = n + 1 \/ k \in 1..n
          BY <1>1
        <4> QED
          BY <1>1, <1>2, <2>2, <3>2, <3>3, <4>1, <4>2
      <3>5. FieldsShown(trees, t) \in Seq(W) /\ Len(FieldsShown(trees, t)) = n + 1
        BY <1>5, <3>2
      <3> QED
        BY <3>3, <3>4, <3>5, SameSequence DEF t, u, new
    <2>4. CASE i # 0
      <3> DEFINE f == [fields[i] EXCEPT !.value = slot]
                 g == [shown[i] EXCEPT !.value = new]
      <3>0. i \in 1..n
        BY <1>1, <1>3, <2>4
      <3>1. t = [fields EXCEPT ![i] = f] /\ u = [shown EXCEPT ![i] = g]
        BY <1>3, <2>4 DEF setField, i
      <3>2. f \in V /\ f.key = fields[i].key /\ f.value = slot
        BY <1>7, <3>0 DEF FieldsOf
      <3>3. g \in W /\ g = Field(fields[i].key, new)
        <4>1. shown[i] = Field(fields[i].key, Denoted(trees, fields[i].value)) /\ shown[i] \in W
          BY <1>2, <1>7, <3>0
        <4>2. g = Field(fields[i].key, new)
          BY <4>1 DEF Field
        <4>3. g \in W
          BY <2>1, <4>1 DEF FieldsOf
        <4> QED
          BY <4>2, <4>3
      <3>4. FieldOf(f) = g
        BY <3>2, <3>3
      <3> HIDE DEF f, g, FieldOf, new, V, W
      <3>5. /\ t \in Seq(V) /\ Len(t) = n /\ DOMAIN t = 1..n
            /\ \A k \in 1..n : t[k] = IF k = i THEN f ELSE fields[k]
        BY <1>1, <1>6, <3>0, <3>1, <3>2 DEF n
      <3>6. /\ u \in Seq(W) /\ Len(u) = n
            /\ \A k \in 1..n : u[k] = IF k = i THEN g ELSE shown[k]
        BY <1>1, <3>0, <3>1, <3>3
      <3> HIDE DEF t, u
      <3>7. \A k \in 1..n : FieldsShown(trees, t)[k] = u[k]
        BY <1>2, <1>5, <3>4, <3>5, <3>6
      <3>8. FieldsShown(trees, t) \in Seq(W) /\ Len(FieldsShown(trees, t)) = n
        BY <1>5, <3>5
      <3> QED
        BY <3>6, <3>7, <3>8, SameSequence DEF t, u, new
    <2> QED
      BY <2>3, <2>4
  <1>9. FieldsShown(trees, removeField(fields, key)) = removeField(shown, key)
    <2>1. CASE i = 0
      BY <1>3, <2>1 DEF removeField, i, shown
    <2>2. CASE i # 0
      <3> DEFINE t == RemoveAt(fields, i)
                 u == RemoveAt(shown, i)
      <3>0. i \in 1..n
        BY <1>1, <1>3, <2>2
      <3>1. removeField(fields, key) = t /\ removeField(shown, key) = u
        BY <1>3, <2>2 DEF removeField, i
      <3> HIDE DEF FieldOf, V, W
      <3>2. /\ t \in Seq(V) /\ DOMAIN t = 1..n - 1
            /\ \A k \in 1..n - 1 : t[k] = IF k < i THEN fields[k] ELSE fields[k + 1]
        <4>1. i \in 1..Len(fields)
          BY <3>0 DEF n
        <4> QED
          BY <1>6, <4>1, RemoveAtIs DEF n
      <3>3. /\ u \in Seq(W) /\ DOMAIN u = 1..n - 1
            /\ \A k \in 1..n - 1 : u[k] = IF k < i THEN shown[k] ELSE shown[k + 1]
        <4>1. i \in 1..Len(shown) /\ shown \in Seq(W)
          BY <1>1, <3>0
        <4>2. /\ u \in Seq(W) /\ DOMAIN u = 1..Len(shown) - 1
              /\ \A k \in 1..Len(shown) - 1 : u[k] = IF k < i THEN shown[k] ELSE shown[k + 1]
          BY <4>1, RemoveAtIs
        <4> QED
          BY <1>1, <4>2
      <3> HIDE DEF t, u
      <3>4. ASSUME NEW k \in 1..n - 1 PROVE FieldsShown(trees, t)[k] = u[k]
        <4>1. k \in 1..n /\ k + 1 \in 1..n
          BY <1>1
        <4>2. FieldsShown(trees, t)[k] = FieldOf(t[k])
          BY <1>5, <3>2
        <4> QED
          BY <1>2, <3>2, <3>3, <4>1, <4>2
      <3>5. n - 1 \in Nat
        BY <1>1, <3>0
      <3>6. /\ FieldsShown(trees, t) \in Seq(W) /\ DOMAIN FieldsShown(trees, t) = 1..n - 1
        BY <1>5, <3>2
      <3>7. Len(FieldsShown(trees, t)) = n - 1 /\ Len(u) = n - 1
        BY <3>3, <3>5, <3>6
      <3>8. FieldsShown(trees, t) = u
        BY <3>3, <3>4, <3>6, <3>7, SameSequence
      <3> QED
        BY <3>1, <3>8
    <2> QED
      BY <2>1, <2>2
  <1> QED
    BY <1>8, <1>9 DEF shown

\* What a node denotes depends on what its parts denote.
LEMMA SameShown ==
  ASSUME NEW h, NEW new, NEW r, new[r] = h[r], NEW trees, NEW more,
         \A i \in DOMAIN Parts(h[r]) : Denoted(more, Parts(h[r])[i]) = Denoted(trees, Parts(h[r])[i])
  PROVE  TreeAt(new, more, r) = TreeAt(h, trees, r)
  <1> DEFINE slots == Parts(h[r])
             All(t) == [i \in DOMAIN slots |-> Denoted(t, slots[i])]
  <1>1. TreeAt(new, more, r) = TreeOf(h[r], All(more)) /\ TreeAt(h, trees, r) = TreeOf(h[r], All(trees))
    BY DEF TreeAt, Denoted
  <1> HIDE DEF slots
  <1>2. All(more) = All(trees)
    BY DEF slots
  <1> HIDE DEF All
  <1> QED
    BY <1>1, <1>2

LEMMA SameNodeShown ==
  ASSUME NEW h, NEW r, NEW trees, NEW more,
         \A i \in DOMAIN Parts(h[r]) : Denoted(more, Parts(h[r])[i]) = Denoted(trees, Parts(h[r])[i])
  PROVE  TreeAt(h, more, r) = TreeAt(h, trees, r)
  <1>1. h[r] = h[r]
    OBVIOUS
  <1> QED
    BY <1>1, SameShown
-----------------------------------------------------------------------------
(* Where a location leads, in the nodes and in the tree.                   *)

\* The kind of what a slot of the draft denotes.
LEMMA DraftShown ==
  ASSUME NEW h, NEW C, RegionsOK(h, C), NEW trees, Tells(h, trees, Draft(h, C)),
         NEW current \in Links(Draft(h, C))
  PROVE  LET tree == Denoted(trees, current)
             node == h[current.ref]
         IN  /\ tree \in AllTrees
             /\ tree.kind = "object" <=> IsObject(h, current)
             /\ tree.kind = "array" <=> IsArray(h, current)
             /\ IsObject(h, current) =>
                  /\ IsRef(current) /\ node.kind = "object" /\ current.ref \in Draft(h, C)
                  /\ node.fields \in Seq(FieldsOf(STRING, Links(Draft(h, C))))
                  /\ tree = Object(FieldsShown(trees, node.fields))
             /\ IsArray(h, current) =>
                  /\ IsRef(current) /\ node.kind = "array" /\ current.ref \in Draft(h, C)
                  /\ node.items \in Seq(Links(Draft(h, C)))
                  /\ tree = Array(ItemsShown(trees, node.items))
             /\ IsRef(current) => IsObject(h, current) \/ IsArray(h, current)
  <1> DEFINE D == Draft(h, C)
  <1>1. trees \in [D -> AllTrees] /\ \A r \in D : trees[r] = TreeAt(h, trees, r)
    BY DEF Tells
  <1>2. Denoted(trees, current) \in AllTrees
    BY <1>1, DenotedIsTree
  <1>3. CASE IsRef(current)
    <2>1. current.ref \in D /\ h[current.ref] \in NodesWith(Links(D))
      BY <1>3, LinkOrScalar, SlotsOfDraft
    <2>2. Denoted(trees, current) = TreeAt(h, trees, current.ref)
      BY <1>1, <1>3, <2>1 DEF Denoted
    <2>3. /\ IsObject(h, current) <=> h[current.ref].kind = "object"
          /\ IsArray(h, current) <=> h[current.ref].kind = "array"
      BY <1>3 DEF IsObject, IsArray, KindOf
    <2> HIDE DEF D
    <2> QED
      BY <1>1, <1>2, <1>3, <2>1, <2>2, <2>3, Shown DEF D
  <1>4. CASE ~IsRef(current)
    <2>1. current \in ScalarValues /\ Denoted(trees, current) = current
      BY <1>4, LinkOrScalar DEF Denoted
    <2>2. current.kind # "object" /\ current.kind # "array"
      BY <2>1, ScalarKind DEF IsContainer
    <2>3. ~IsObject(h, current) /\ ~IsArray(h, current)
      BY <1>4, <2>2 DEF IsObject, IsArray, KindOf
    <2> QED
      BY <1>2, <1>4, <2>1, <2>2, <2>3
  <1> QED
    BY <1>3, <1>4

LEMMA ChildShown ==
  ASSUME NEW h, NEW C, RegionsOK(h, C), NEW trees, Tells(h, trees, Draft(h, C)),
         NEW current \in Links(Draft(h, C)), NEW segment
  PROVE  ChildAt(Denoted(trees, current), segment) = Denoted(trees, Child(h, current, segment))
  <1> DEFINE D     == Draft(h, C)
             tree  == Denoted(trees, current)
             node  == h[current.ref]
             index == parseArrayIndex(segment)
             child == Child(h, current, segment)
  <1>1. trees \in [D -> AllTrees]
    BY DEF Tells
  <1>2. /\ tree.kind = "object" <=> IsObject(h, current)
        /\ tree.kind = "array" <=> IsArray(h, current)
        /\ IsObject(h, current) =>
             /\ node.fields \in Seq(FieldsOf(STRING, Links(D)))
             /\ tree = Object(FieldsShown(trees, node.fields))
        /\ IsArray(h, current) =>
             /\ node.items \in Seq(Links(D)) /\ tree = Array(ItemsShown(trees, node.items))
    BY DraftShown
  <1>3. Denoted(trees, Void) = Void
    BY VoidLinks DEF Denoted
  <1> HIDE DEF D, tree
  <1>4. CASE IsObject(h, current)
    <2>1. child = GetField(node.fields, segment)
      BY <1>4 DEF Child
    <2>2. ChildAt(tree, segment) = GetField(tree.fields, segment)
      BY <1>2, <1>4 DEF ChildAt
    <2>3. tree.fields = FieldsShown(trees, node.fields)
      BY <1>2, <1>4 DEF Object
    <2>4. GetField(FieldsShown(trees, node.fields), segment)
            = Denoted(trees, GetField(node.fields, segment))
      BY <1>1, <1>2, <1>4, FieldShown
    <2> QED
      BY <2>1, <2>2, <2>3, <2>4 DEF tree
  <1>5. CASE IsArray(h, current) /\ ~IsObject(h, current)
    <2>1. tree.items = ItemsShown(trees, node.items) /\ DOMAIN tree.items = DOMAIN node.items
      BY <1>2, <1>5 DEF Array, ItemsShown
    <2>2. tree.kind = "array"
      BY <1>2, <1>5
    <2>3. CASE index + 1 \in DOMAIN node.items
      <3>1. child = node.items[index + 1]
        BY <1>5, <2>3 DEF Child
      <3>2. ChildAt(tree, segment) = tree.items[index + 1]
        BY <2>1, <2>2, <2>3 DEF ChildAt
      <3>3. tree.items[index + 1] = Denoted(trees, node.items[index + 1])
        BY <2>1, <2>3 DEF ItemsShown
      <3> QED
        BY <3>1, <3>2, <3>3 DEF tree
    <2>4. CASE index + 1 \notin DOMAIN node.items
      <3>1. child = Void
        BY <1>5, <2>4 DEF Child
      <3>2. ChildAt(tree, segment) = Void
        BY <2>1, <2>2, <2>4 DEF ChildAt
      <3> QED
        BY <1>3, <3>1, <3>2 DEF tree
    <2> QED
      BY <2>3, <2>4
  <1>6. CASE ~IsArray(h, current) /\ ~IsObject(h, current)
    <2>1. child = Void
      BY <1>6 DEF Child
    <2>2. tree.kind # "object" /\ tree.kind # "array"
      BY <1>2, <1>6
    <2>3. ChildAt(tree, segment) = Void
      BY <2>2 DEF ChildAt
    <2> QED
      BY <1>3, <2>1, <2>3 DEF tree
  <1> QED
    BY <1>4, <1>5, <1>6

LEMMA ChildIsTree ==
  ASSUME NEW tree \in AllTrees, NEW token PROVE ChildAt(tree, token) \in AllTrees
  <1>0. Void \in AllTrees
    BY AnyTree, VoidLinks DEF Links, ScalarValues
  <1>1. CASE tree.kind = "object"
    <2>1. tree.fields \in Seq(FieldsOf(STRING, AllTrees))
      BY <1>1, AnyTree
    <2>2. GetField(tree.fields, token) \in AllTrees \cup {Void}
      BY <2>1, GetFieldIn
    <2> QED
      BY <1>0, <1>1, <2>2 DEF ChildAt
  <1>2. CASE tree.kind = "array" /\ parseArrayIndex(token) + 1 \in DOMAIN tree.items
    <2>1. tree.items \in Seq(AllTrees)
      BY <1>2, AnyTree
    <2>2. tree.items[parseArrayIndex(token) + 1] \in AllTrees
      BY <1>2, <2>1
    <2> QED
      BY <1>2, <2>2 DEF ChildAt
  <1>3. CASE /\ tree.kind # "object"
             /\ ~(tree.kind = "array" /\ parseArrayIndex(token) + 1 \in DOMAIN tree.items)
    BY <1>0, <1>3 DEF ChildAt
  <1> QED
    BY <1>1, <1>2, <1>3

LEMMA AlongIs ==
  ASSUME NEW tree \in AllTrees, NEW path
  PROVE  LET along == Along(tree, path)
         IN  /\ along \in [Nat -> AllTrees] /\ along[0] = tree
             /\ \A n \in Nat : along[n + 1] = ChildAt(along[n], path[n + 1])
  <1> DEFINE V == AllTrees
             S == [n \in Nat |-> V]
             F == [n \in Nat |-> [x \in V |-> ChildAt(x, path[n + 1])]]
             Is(f) == f = [n \in Nat |-> IF n = 0 THEN tree ELSE ChildAt(f[n - 1], path[n])]
  <1>1. ASSUME NEW n \in Nat, NEW x \in V
        PROVE  F[n][x] \in V /\ F[n][x] = ChildAt(x, path[n + 1])
    BY ChildIsTree
  <1>2. \A n \in Nat : \A x \in S[n] : F[n][x] \in S[n + 1]
    BY <1>1
  <1> HIDE DEF F, V
  <1>3. PICK f : /\ f = [n \in Nat |-> IF n = 0 THEN tree ELSE F[n - 1][f[n - 1]]]
                 /\ \A n \in Nat : f[n] \in V
    <2>1. tree \in S[0]
      BY DEF V
    <2> HIDE DEF S
    <2>2. PICK f : /\ f = [n \in Nat |-> IF n = 0 THEN tree ELSE F[n - 1][f[n - 1]]]
                   /\ \A n \in Nat : f[n] \in S[n]
      BY <1>2, <2>1, Iteration
    <2>3. \A n \in Nat : f[n] \in V
      BY <2>2 DEF S
    <2> QED
      BY <2>2, <2>3
  <1>4. ASSUME NEW n \in Nat
        PROVE  f[n] = IF n = 0 THEN tree ELSE ChildAt(f[n - 1], path[n])
    <2>1. CASE n = 0
      BY <1>3, <2>1
    <2>2. CASE n # 0
      <3>1. n - 1 \in Nat /\ (n - 1) + 1 = n
        BY <2>2
      <3>2. f[n] = F[n - 1][f[n - 1]] /\ f[n - 1] \in V
        BY <1>3, <2>2, <3>1
      <3>3. F[n - 1][f[n - 1]] = ChildAt(f[n - 1], path[(n - 1) + 1])
        BY <1>1, <3>1, <3>2
      <3> QED
        BY <2>2, <3>1, <3>2, <3>3
    <2> QED
      BY <2>1, <2>2
  <1>5. Is(f)
    BY <1>3, <1>4
  <1> DEFINE along == CHOOSE g : Is(g)
  <1>6. Is(along)
    BY <1>5
  <1>7. Along(tree, path) = along
    BY Zenon DEF Along
  <1> HIDE DEF along
  <1>8. along[0] = tree /\ \A n \in Nat : along[n + 1] = ChildAt(along[n], path[n + 1])
    BY <1>6
  <1>9. along \in [Nat -> V]
    <2> DEFINE T == {n \in Nat : along[n] \in V}
    <2>1. 0 \in T
      BY <1>8 DEF V
    <2>2. ASSUME NEW n \in Nat, n \in T PROVE n + 1 \in T
      BY <1>8, <2>2, ChildIsTree DEF V
    <2> HIDE DEF T
    <2>3. \A n \in Nat : n \in T
      BY <2>1, <2>2, Induction
    <2>4. \A n \in Nat : along[n] \in V
      BY <2>3 DEF T
    <2> QED
      BY <1>6, <2>4
  <1> QED
    BY <1>7, <1>8, <1>9 DEF V

\* What stands along the path is what the nodes on the way denote.
LEMMA WalkShown ==
  ASSUME NEW h, NEW C, RegionsOK(h, C), NEW trees, Tells(h, trees, Draft(h, C)),
         NEW slot \in Links(Draft(h, C)), NEW path
  PROVE  \A n \in Nat : Along(Denoted(trees, slot), path)[n] = Denoted(trees, Walk(h, slot, path)[n])
  <1> DEFINE along == Along(Denoted(trees, slot), path)
             walk  == Walk(h, slot, path)
             T == {n \in Nat : along[n] = Denoted(trees, walk[n])}
  <1>1. Denoted(trees, slot) \in AllTrees
    BY DenotedIsTree DEF Tells
  <1>2. along[0] = Denoted(trees, slot) /\ \A n \in Nat : along[n + 1] = ChildAt(along[n], path[n + 1])
    BY <1>1, AlongIs
  <1>3. /\ walk \in [Nat -> Links(Draft(h, C))] /\ walk[0] = slot
        /\ \A n \in Nat : walk[n + 1] = Child(h, walk[n], path[n + 1])
    BY WalkIs
  <1> HIDE DEF along, walk
  <1>4. 0 \in T
    BY <1>2, <1>3
  <1>5. ASSUME NEW n \in Nat, n \in T PROVE n + 1 \in T
    <2>1. walk[n] \in Links(Draft(h, C))
      BY <1>3
    <2>2. ChildAt(Denoted(trees, walk[n]), path[n + 1])
            = Denoted(trees, Child(h, walk[n], path[n + 1]))
      BY <2>1, ChildShown
    <2> QED
      BY <1>2, <1>3, <1>5, <2>2
  <1> HIDE DEF T
  <1>6. \A n \in Nat : n \in T
    BY <1>4, <1>5, Induction
  <1> QED
    BY <1>6 DEF T, along, walk

-----------------------------------------------------------------------------
(* The way down to a node is the only one.                                 *)

\* A child that is a node stands in its parent.
LEMMA ChildPlace ==
  ASSUME NEW h, NEW C, RegionsOK(h, C), NEW current \in Links(Draft(h, C)), NEW segment,
         IsRef(Child(h, current, segment))
  PROVE  /\ IsRef(current) /\ current.ref \in Draft(h, C)
         /\ IsObject(h, current) \/ IsArray(h, current)
         /\ \E k \in DOMAIN Parts(h[current.ref]) :
              Parts(h[current.ref])[k] = Child(h, current, segment)
  <1> DEFINE node  == h[current.ref]
             index == parseArrayIndex(segment)
             i     == FieldIndex(node.fields, segment)
  <1>0. ~IsRef(Void)
    BY VoidLinks
  <1>1. IsObject(h, current) \/ IsArray(h, current)
    BY <1>0 DEF Child
  <1>2. IsRef(current)
    <2>1. CASE ~IsRef(current)
      <3>1. current \in ScalarValues
        BY <2>1, LinkOrScalar
      <3>2. current.kind # "object" /\ current.kind # "array"
        BY <3>1, ScalarKind DEF IsContainer
      <3> QED
        BY <1>1, <2>1, <3>2 DEF IsObject, IsArray, KindOf
    <2> QED
      BY <2>1
  <1>3. current.ref \in Draft(h, C)
    BY <1>2, LinkOrScalar
  <1>4. CASE IsObject(h, current)
    <2>1. node.kind = "object" /\ node.fields \in Seq(FieldsOf(STRING, Links(Draft(h, C))))
      BY <1>4, DraftNode
    <2>2. i \in 0..Len(node.fields)
      BY <2>1, FieldIndexIn
    <2>3. Child(h, current, segment) = GetField(node.fields, segment)
      BY <1>4 DEF Child
    <2> HIDE DEF i, node
    <2>4. i # 0 /\ Child(h, current, segment) = node.fields[i].value
      BY <1>0, <2>3 DEF GetField, i
    <2>5. i \in DOMAIN node.fields
      BY <2>1, <2>2, <2>4
    <2>6. Parts(node) = [k \in DOMAIN node.fields |-> node.fields[k].value]
      BY <2>1 DEF Parts
    <2> QED
      BY <1>2, <1>3, <1>4, <2>4, <2>5, <2>6 DEF node
  <1>5. CASE ~IsObject(h, current)
    <2>1. IsArray(h, current) /\ node.kind = "array"
      BY <1>1, <1>5, DraftNode
    <2>2. Child(h, current, segment)
            = IF index + 1 \in DOMAIN node.items THEN node.items[index + 1] ELSE Void
      BY <1>5, <2>1 DEF Child
    <2>3. Parts(node) = node.items
      BY <2>1 DEF Parts
    <2> HIDE DEF index, node
    <2>4. index + 1 \in DOMAIN node.items
      BY <1>0, <2>2
    <2> QED
      BY <1>2, <1>3, <2>1, <2>2, <2>3, <2>4 DEF node
  <1> QED
    BY <1>4, <1>5

\* The first n + 1 stations of a walk, each in the one before, the first in none.
Way(h, D, c, n) ==
  /\ \A j \in 0..n : IsRef(c[j]) /\ c[j].ref \in D /\ c[j] = Ref(c[j].ref)
  /\ \A i, j \in 0..n : c[i].ref = c[j].ref => i = j
  /\ \A j \in 0..n : \A q \in D : \A k \in DOMAIN Parts(h[q]) :
       Parts(h[q])[k] = c[j] => j # 0 /\ c[j - 1] = Ref(q)

LEMMA WayDown ==
  ASSUME NEW h, NEW C, RegionsOK(h, C), NEW root, RootOK(h, C, root), NEW path,
         NEW n \in Nat, IsRef(Walk(h, root, path)[n])
  PROVE  Way(h, Draft(h, C), Walk(h, root, path), n)
  <1> DEFINE D == Draft(h, C)
             c == Walk(h, root, path)
  <1>0. root \in Links(D) /\ Unplaced(h, D, root) /\ OnePlace(h, D)
    BY DEF RootOK, RegionsOK
  <1>1. /\ c \in [Nat -> Links(D)] /\ c[0] = root
        /\ \A j \in Nat : c[j + 1] = Child(h, c[j], path[j + 1])
    BY <1>0, WalkIs
  <1> HIDE DEF c
  <1>2. ASSUME NEW j \in Nat, IsRef(c[j + 1])
        PROVE  /\ IsRef(c[j]) /\ c[j].ref \in D
               /\ \E k \in DOMAIN Parts(h[c[j].ref]) : Parts(h[c[j].ref])[k] = c[j + 1]
    <2>1. c[j] \in Links(Draft(h, C)) /\ c[j + 1] = Child(h, c[j], path[j + 1])
      BY <1>1
    <2> QED
      BY <1>2, <2>1, ChildPlace
  <1>3. ASSUME NEW j \in 0..n PROVE IsRef(c[j])
    <2> DEFINE T == {k \in Nat : k <= n => IsRef(c[n - k])}
    <2>1. 0 \in T
      BY DEF c
    <2>2. ASSUME NEW k \in Nat, k \in T PROVE k + 1 \in T
      <3> SUFFICES ASSUME k + 1 <= n PROVE IsRef(c[n - (k + 1)])
        OBVIOUS
      <3>1. n - (k + 1) \in Nat /\ (n - (k + 1)) + 1 = n - k /\ k <= n
        OBVIOUS
      <3>2. IsRef(c[n - k])
        BY <2>2, <3>1
      <3> QED
        BY <1>2, <3>1, <3>2
    <2> HIDE DEF T
    <2>3. n - j \in T
      BY <2>1, <2>2, Induction
    <2>4. n - j \in Nat /\ n - j <= n /\ n - (n - j) = j
      OBVIOUS
    <2> QED
      BY <2>3, <2>4 DEF T
  <1>4. ASSUME NEW j \in 0..n PROVE c[j].ref \in D /\ c[j] = Ref(c[j].ref)
    <2>1. j \in Nat /\ c[j] \in Links(D)
      BY <1>1
    <2>2. IsRef(c[j])
      BY <1>3
    <2> HIDE DEF D
    <2> QED
      BY <2>1, <2>2, LinkOrScalar
  <1>5. ASSUME NEW j \in 0..n, NEW q \in D, NEW k \in DOMAIN Parts(h[q]), Parts(h[q])[k] = c[j]
        PROVE  j # 0 /\ c[j - 1] = Ref(q)
    <2>1. j # 0
      <3>1. c[j] \in Slots(h[q])
        BY <1>5 DEF Slots, Range
      <3>2. j = 0 => c[j] = root /\ IsRef(root)
        BY <1>1, <1>3
      <3> QED
        BY <1>0, <3>1, <3>2 DEF Unplaced
    <2>2. j - 1 \in Nat /\ (j - 1) + 1 = j /\ j - 1 \in 0..n
      BY <2>1
    <2> DEFINE p == c[j - 1].ref
    <2>3. p \in D /\ \E i \in DOMAIN Parts(h[p]) : Parts(h[p])[i] = c[j]
      BY <1>2, <1>3, <2>2
    <2>4. PICK i \in DOMAIN Parts(h[p]) : Parts(h[p])[i] = c[j]
      BY <2>3
    <2>5. p = q
      BY <1>0, <1>3, <1>5, <2>3, <2>4 DEF OnePlace
    <2> QED
      BY <1>4, <2>1, <2>2, <2>5
  <1>6. ASSUME NEW j \in 0..n, j # 0
        PROVE  \E k \in DOMAIN Parts(h[c[j - 1].ref]) : Parts(h[c[j - 1].ref])[k] = c[j]
    <2>1. j - 1 \in Nat /\ (j - 1) + 1 = j
      BY <1>6
    <2> QED
      BY <1>2, <1>3, <2>1
  <1>7. \A i, j \in 0..n : c[i].ref = c[j].ref => i = j
    <2> DEFINE T == {i \in Nat : i <= n => \A j \in 0..n : c[i] = c[j] => i = j}
    <2>1. 0 \in T
      <3> SUFFICES ASSUME NEW j \in 0..n, c[0] = c[j], j # 0 PROVE FALSE
        OBVIOUS
      <3>1. PICK k \in DOMAIN Parts(h[c[j - 1].ref]) : Parts(h[c[j - 1].ref])[k] = c[j]
        BY <1>6
      <3>2. j - 1 \in 0..n /\ 0 \in 0..n
        OBVIOUS
      <3>3. c[j - 1].ref \in D
        BY <1>4, <3>2
      <3> QED
        BY <1>5, <3>1, <3>2, <3>3
    <2>2. ASSUME NEW i \in Nat, i \in T PROVE i + 1 \in T
      <3> SUFFICES ASSUME i + 1 <= n, NEW j \in 0..n, c[i + 1] = c[j] PROVE i + 1 = j
        OBVIOUS
      <3>1. i + 1 \in 0..n /\ i + 1 # 0 /\ (i + 1) - 1 = i /\ i \in 0..n /\ i <= n
        OBVIOUS
      <3>2. PICK k \in DOMAIN Parts(h[c[i].ref]) : Parts(h[c[i].ref])[k] = c[i + 1]
        BY <1>6, <3>1
      <3>3. c[i].ref \in D /\ c[i] = Ref(c[i].ref)
        BY <1>4, <3>1
      <3>4. j # 0 /\ c[j - 1] = c[i]
        BY <1>5, <3>2, <3>3
      <3>5. j - 1 \in 0..n
        BY <3>4
      <3>6. i = j - 1
        BY <2>2, <3>1, <3>4, <3>5
      <3> QED
        BY <3>6
    <2> HIDE DEF T
    <2>3. \A i \in Nat : i \in T
      BY <2>1, <2>2, Induction
    <2> SUFFICES ASSUME NEW i \in 0..n, NEW j \in 0..n, c[i].ref = c[j].ref PROVE i = j
      OBVIOUS
    <2>4. c[i] = c[j]
      BY <1>4
    <2>5. i \in Nat /\ i <= n /\ i \in T
      BY <2>3
    <2> QED
      BY <2>4, <2>5 DEF T
  <1> QED
    BY <1>3, <1>4, <1>5, <1>7 DEF Way, c

-----------------------------------------------------------------------------
(* An edit of one node.                                                    *)

\* Where a child of a node denotes something else.
LEMMA ChildReplaced ==
  ASSUME NEW h, NEW C, RegionsOK(h, C),
         NEW trees, Tells(h, trees, Draft(h, C)), NEW more \in [Draft(h, C) -> AllTrees],
         NEW current \in Links(Draft(h, C)), NEW segment \in STRING,
         IsRef(Child(h, current, segment)),
         \A i \in DOMAIN Parts(h[current.ref]) :
           Parts(h[current.ref])[i] # Child(h, current, segment)
             => Denoted(more, Parts(h[current.ref])[i]) = Denoted(trees, Parts(h[current.ref])[i])
  PROVE  TreeAt(h, more, current.ref)
           = ReplaceChild(Denoted(trees, current), segment, Denoted(more, Child(h, current, segment)))
  <1> DEFINE D     == Draft(h, C)
             r     == current.ref
             node  == h[r]
             parts == Parts(node)
             index == parseArrayIndex(segment)
             child == Child(h, current, segment)
             tree  == Denoted(trees, current)
             new   == Denoted(more, child)
  <1>0. ~IsRef(Void)
    BY VoidLinks
  <1>1. /\ IsRef(current) /\ r \in D
        /\ IsObject(h, current) \/ IsArray(h, current)
    BY ChildPlace
  <1>2. /\ IsObject(h, current) =>
             /\ node.kind = "object" /\ tree.kind = "object"
             /\ node.fields \in Seq(FieldsOf(STRING, Links(D)))
             /\ tree = Object(FieldsShown(trees, node.fields))
        /\ IsArray(h, current) =>
             /\ node.kind = "array" /\ tree.kind = "array"
             /\ node.items \in Seq(Links(D)) /\ tree = Array(ItemsShown(trees, node.items))
    BY DraftShown
  <1>3. /\ node \in NodesWith(Links(D)) /\ Once(parts)
    BY <1>1, SlotsOfDraft
  <1>4. /\ node.kind = "array" => TreeAt(h, more, r) = Array(ItemsShown(more, node.items))
        /\ node.kind = "object" => TreeAt(h, more, r) = Object(FieldsShown(more, node.fields))
    <2> HIDE DEF D, r
    <2> QED
      BY <1>3, Shown DEF D
  <1>5. \A i \in DOMAIN parts : parts[i] # child => Denoted(more, parts[i]) = Denoted(trees, parts[i])
    OBVIOUS
  <1>6. IsRef(child)
    OBVIOUS
  <1>7. \A i, j \in DOMAIN parts : parts[i] = child /\ parts[j] = child => i = j
    BY <1>3, <1>6 DEF Once
  <1> HIDE DEF D, r, node, tree, new, parts
  <1>8. CASE IsObject(h, current)
    <2> DEFINE fields == node.fields
               i == FieldIndex(fields, segment)
               shown == FieldsShown(trees, fields)
    <2>1. i \in 0..Len(fields) /\ DOMAIN fields = 1..Len(fields)
      BY <1>2, <1>8, FieldIndexIn
    <2>2. child = GetField(fields, segment)
      BY <1>8 DEF Child, node, r
    <2>3. i # 0 /\ child = fields[i].value
      BY <1>0, <1>6, <2>2 DEF GetField
    <2>4. i \in DOMAIN fields
      BY <2>1, <2>3
    <2>5. parts = [k \in DOMAIN fields |-> fields[k].value]
      BY <1>2, <1>8 DEF Parts, parts
    <2>6. FieldIndex(shown, segment) = i
      <3>1. trees \in [D -> AllTrees]
        BY DEF Tells, D
      <3> QED
        BY <1>2, <1>8, <3>1, FieldShown
    <2>7. setField(shown, segment, new) = [shown EXCEPT ![i] = [shown[i] EXCEPT !.value = new]]
      BY <2>3, <2>6 DEF setField
    <2> HIDE DEF i, child
    <2>8. DOMAIN shown = DOMAIN fields /\ shown[i] = Field(fields[i].key, Denoted(trees, fields[i].value))
      BY <2>4 DEF FieldsShown
    <2>9. [shown[i] EXCEPT !.value = new] = Field(fields[i].key, new)
      BY <2>8 DEF Field
    <2>10. ASSUME NEW k \in DOMAIN fields
           PROVE  Field(fields[k].key, Denoted(more, fields[k].value))
                    = IF k = i THEN Field(fields[i].key, new) ELSE shown[k]
      <3>1. CASE k = i
        BY <2>3, <3>1 DEF new, child
      <3>2. CASE k # i
        <4>1. parts[k] # child
          BY <1>7, <2>3, <2>4, <2>5, <3>2
        <4>2. Denoted(more, fields[k].value) = Denoted(trees, fields[k].value)
          BY <1>5, <2>5, <4>1
        <4> QED
          BY <3>2, <4>2 DEF FieldsShown
      <3> QED
        BY <3>1, <3>2
    <2>11. FieldsShown(more, fields) = setField(shown, segment, new)
      <3> DEFINE f == Field(fields[i].key, new)
      <3>1. setField(shown, segment, new) = [shown EXCEPT ![i] = f]
        BY <2>7, <2>9
      <3>2. \A k \in DOMAIN fields :
              Field(fields[k].key, Denoted(more, fields[k].value)) = IF k = i THEN f ELSE shown[k]
        BY <2>10
      <3>3. shown = [k \in DOMAIN fields |-> shown[k]]
        BY DEF FieldsShown
      <3> HIDE DEF f, shown
      <3>4. [shown EXCEPT ![i] = f] = [k \in DOMAIN fields |-> IF k = i THEN f ELSE shown[k]]
        BY <2>4, <3>3
      <3> QED
        BY <3>1, <3>2, <3>4 DEF FieldsShown
    <2>12. ReplaceChild(tree, segment, new) = Object(setField(tree.fields, segment, new))
      BY <1>2, <1>8 DEF ReplaceChild
    <2>13. tree.fields = shown
      BY <1>2, <1>8 DEF Object
    <2> QED
      BY <1>2, <1>4, <1>8, <2>11, <2>12, <2>13 DEF tree, new, r, child
  <1>9. CASE ~IsObject(h, current)
    <2> DEFINE items == node.items
               i == index + 1
               shown == ItemsShown(trees, items)
    <2>1. IsArray(h, current) /\ node.kind = "array" /\ tree.kind = "array" /\ tree = Array(shown)
      BY <1>1, <1>2, <1>9
    <2>2. child = IF i \in DOMAIN items THEN items[i] ELSE Void
      BY <1>9, <2>1 DEF Child, node, r
    <2>3. parts = items
      BY <2>1 DEF Parts, parts
    <2> HIDE DEF i, child
    <2>4. i \in DOMAIN items /\ child = items[i]
      BY <1>0, <1>6, <2>2 DEF child
    <2>5. ASSUME NEW k \in DOMAIN items
          PROVE  Denoted(more, items[k]) = IF k = i THEN new ELSE shown[k]
      <3>1. CASE k = i
        BY <2>4, <3>1 DEF new, child
      <3>2. CASE k # i
        <4>1. parts[k] # child
          BY <1>7, <2>3, <2>4, <3>2
        <4> QED
          BY <1>5, <2>3, <3>2, <4>1 DEF ItemsShown
      <3> QED
        BY <3>1, <3>2
    <2>6. shown = [k \in DOMAIN items |-> shown[k]]
      BY DEF ItemsShown
    <2> HIDE DEF shown
    <2>7. [shown EXCEPT ![i] = new] = [k \in DOMAIN items |-> IF k = i THEN new ELSE shown[k]]
      BY <2>4, <2>6
    <2>8. ItemsShown(more, items) = [shown EXCEPT ![i] = new]
      BY <2>5, <2>7 DEF ItemsShown
    <2>9. ReplaceChild(tree, segment, new) = Array([shown EXCEPT ![i] = new])
      BY <2>1 DEF ReplaceChild, Array, i
    <2> QED
      BY <1>4, <2>1, <2>8, <2>9 DEF tree, new, r, child
  <1> QED
    BY <1>8, <1>9

LEMMA ChildPutIsTree ==
  ASSUME NEW tree \in AllTrees, IsContainer(tree), NEW token \in STRING, NEW child \in AllTrees
  PROVE  ReplaceChild(tree, token, child) \in AllTrees
  <1>1. CASE tree.kind = "object"
    <2>1. tree.fields \in Seq(FieldsOf(STRING, AllTrees))
      BY <1>1, AnyTree
    <2>2. setField(tree.fields, token, child) \in Seq(FieldsOf(STRING, AllTrees))
      BY <2>1, FieldSet
    <2> QED
      BY <1>1, <2>2, AnyTree DEF ReplaceChild
  <1>2. CASE tree.kind # "object"
    <2>1. tree.kind = "array"
      BY <1>2 DEF IsContainer
    <2>2. tree.items \in Seq(AllTrees)
      BY <2>1, AnyTree
    <2> DEFINE k == parseArrayIndex(token) + 1
               t == [tree.items EXCEPT ![k] = child]
    <2>3. t \in Seq(AllTrees)
      <3>1. DOMAIN t = DOMAIN tree.items /\ \A i \in DOMAIN t : t[i] \in AllTrees
        BY <2>2
      <3>2. tree.items \in [1..Len(tree.items) -> AllTrees] /\ Len(tree.items) \in Nat
        BY <2>2
      <3>3. t \in [1..Len(tree.items) -> AllTrees]
        BY <3>1, <3>2
      <3> HIDE DEF t
      <3> QED
        BY <3>2, <3>3, SequenceOf
    <2> QED
      BY <1>2, <2>3, AnyTree DEF ReplaceChild
  <1> QED
    BY <1>1, <1>2

\* What the recursive definition of PutAt says.
LEMMA PutAtIs ==
  ASSUME NEW tree \in AllTrees, NEW path \in Seq(STRING), NEW new \in AllTrees,
         \A n \in 0..Len(path) - 1 : IsContainer(Along(tree, path)[n])
  PROVE  \E put : /\ put \in [0..Len(path) -> AllTrees] /\ put[0] = new
                  /\ \A n \in 1..Len(path) :
                       put[n] = ReplaceChild(Along(tree, path)[Len(path) - n],
                                             path[(Len(path) - n) + 1], put[n - 1])
                  /\ PutAt(tree, path, new) = put[Len(path)]
  <1> DEFINE last  == Len(path)
             along == Along(tree, path)
             Put(n, x) == ReplaceChild(along[last - n], path[(last - n) + 1], x)
             V == AllTrees
             S == [n \in Nat |-> V]
             F == [n \in Nat |-> [x \in V |-> IF n < last THEN Put(n + 1, x) ELSE x]]
             Is(f) == f = [n \in 0..last |-> IF n = 0 THEN new ELSE Put(n, f[n - 1])]
  <1>0. last \in Nat
    OBVIOUS
  <1>1. ASSUME NEW n \in 1..last, NEW x \in V PROVE Put(n, x) \in V
    <2>1. last - n \in 0..last - 1 /\ last - n \in Nat /\ (last - n) + 1 \in 1..last
      BY <1>0
    <2>2. along[last - n] \in V
      BY <2>1, AlongIs
    <2>3. IsContainer(along[last - n]) /\ path[(last - n) + 1] \in STRING
      BY <2>1
    <2> HIDE DEF last, along
    <2> QED
      BY <2>2, <2>3, ChildPutIsTree
  <1> HIDE DEF Put
  <1>2. ASSUME NEW n \in Nat, NEW x \in V
        PROVE  F[n][x] \in V /\ (n < last => F[n][x] = Put(n + 1, x))
    <2>1. CASE n < last
      <3>1. n + 1 \in 1..last
        BY <1>0, <2>1
      <3>2. Put(n + 1, x) \in V
        BY <1>1, <3>1
      <3> QED
        BY <2>1, <3>2
    <2>2. CASE ~(n < last)
      BY <2>2
    <2> QED
      BY <2>1, <2>2
  <1>3. \A n \in Nat : \A x \in S[n] : F[n][x] \in S[n + 1]
    BY <1>2
  <1> HIDE DEF F, V, last
  <1>4. PICK f : /\ f = [n \in Nat |-> IF n = 0 THEN new ELSE F[n - 1][f[n - 1]]]
                 /\ \A n \in Nat : f[n] \in V
    <2>1. new \in S[0]
      BY DEF V
    <2> HIDE DEF S
    <2>2. PICK f : /\ f = [n \in Nat |-> IF n = 0 THEN new ELSE F[n - 1][f[n - 1]]]
                   /\ \A n \in Nat : f[n] \in S[n]
      BY <1>3, <2>1, Iteration
    <2>3. \A n \in Nat : f[n] \in V
      BY <2>2 DEF S
    <2> QED
      BY <2>2, <2>3
  <1> DEFINE g == [n \in 0..last |-> f[n]]
  <1>5. ASSUME NEW n \in 0..last
        PROVE  g[n] = IF n = 0 THEN new ELSE Put(n, g[n - 1])
    <2>1. CASE n = 0
      BY <1>0, <1>4, <2>1
    <2>2. CASE n # 0
      <3>1. n - 1 \in Nat /\ (n - 1) + 1 = n /\ n - 1 \in 0..last /\ n - 1 < last /\ n \in Nat
        BY <1>0, <2>2
      <3>2. f[n] = F[n - 1][f[n - 1]] /\ f[n - 1] \in V
        BY <1>4, <2>2, <3>1
      <3>3. F[n - 1][f[n - 1]] = Put((n - 1) + 1, f[n - 1])
        BY <1>2, <3>1, <3>2
      <3> QED
        BY <2>2, <3>1, <3>2, <3>3
    <2> QED
      BY <2>1, <2>2
  <1>6. Is(g)
    <2> DEFINE t == [n \in 0..last |-> IF n = 0 THEN new ELSE Put(n, g[n - 1])]
    <2>1. \A n \in 0..last : t[n] = g[n]
      BY <1>5
    <2>2. DOMAIN t = 0..last /\ DOMAIN g = 0..last
      OBVIOUS
    <2>3. g = t
      BY <2>1, <2>2
    <2> QED
      BY <2>3
  <1> HIDE DEF g
  <1> DEFINE put == CHOOSE f2 : Is(f2)
  <1>7. Is(put)
    BY <1>6
  <1>8. PutAt(tree, path, new) = put[last]
    BY Zenon DEF PutAt, Put, last
  <1> HIDE DEF put
  <1>9. put[0] = new /\ \A n \in 1..last : put[n] = Put(n, put[n - 1])
    <2>1. \A n \in 0..last : put[n] = IF n = 0 THEN new ELSE Put(n, put[n - 1])
      BY <1>7
    <2>2. 0 \in 0..last /\ \A n \in 1..last : n \in 0..last /\ n # 0
      BY <1>0
    <2> QED
      BY <2>1, <2>2
  <1>10. put \in [0..last -> V]
    <2> DEFINE T == {n \in Nat : n <= last => put[n] \in V}
    <2>1. 0 \in T
      BY <1>9 DEF V
    <2>2. ASSUME NEW n \in Nat, n \in T PROVE n + 1 \in T
      <3> SUFFICES ASSUME n + 1 <= last PROVE put[n + 1] \in V
        OBVIOUS
      <3>1. n + 1 \in 1..last /\ n <= last /\ (n + 1) - 1 = n
        BY <1>0
      <3>2. put[n + 1] = Put(n + 1, put[n])
        BY <1>9, <3>1
      <3> QED
        BY <1>1, <2>2, <3>1, <3>2
    <2> HIDE DEF T
    <2>3. \A n \in Nat : n \in T
      BY <2>1, <2>2, Induction
    <2>4. \A n \in 0..last : put[n] \in V
      BY <2>3 DEF T
    <2> QED
      BY <1>7, <2>4
  <1> QED
    BY <1>8, <1>9, <1>10 DEF Put, V, last

\* After an edit of the node r the root denotes the tree; the slot that was put
\* in and what stood in the node denote what they did.
EditTold(h, C, trees, root, r, slot, new, tree) ==
  \E more : /\ Tells(new, more, Draft(new, C)) /\ Denoted(more, root) = tree
            /\ Denoted(more, slot) = Denoted(trees, slot)
            /\ \A i \in DOMAIN Parts(h[r]) :
                 Denoted(more, Parts(h[r])[i]) = Denoted(trees, Parts(h[r])[i])

\* The trees after an edit of the node at the end of a path: those on the way
\* to it change, what stands in the node and the slot put in do not.
LEMMA EditTells ==
  ASSUME NEW h, NEW C, RegionsOK(h, C), NEW root, RootOK(h, C, root),
         NEW trees, Tells(h, trees, Draft(h, C)), NEW path \in Seq(STRING),
         IsRef(Walk(h, root, path)[Len(path)]), NEW at, at = Walk(h, root, path)[Len(path)].ref,
         NEW slot, RootOK(h, C, slot), IsRef(slot) => slot # root,
         NEW node \in NodesWith(Links(Draft(h, C))),
         Rearranged(Parts(h[at]), Parts(node), slot)
  PROVE  EditTold(h, C, trees, root, at, slot, [h EXCEPT ![at] = node],
                  PutAt(Denoted(trees, root), path, TreeAt([h EXCEPT ![at] = node], trees, at)))
  <1> DEFINE D     == Draft(h, C)
             n     == Len(path)
             c     == Walk(h, root, path)
             r     == c[n].ref
             new   == [h EXCEPT ![r] = node]
             tree  == Denoted(trees, root)
             along == Along(tree, path)
             X     == TreeAt(new, trees, r)
             On(q) == {j \in 0..n : c[j].ref = q}
  <1>0. /\ n \in Nat /\ 0 \in 0..n /\ n \in 0..n
        /\ root \in Links(D) /\ slot \in Links(D) /\ Unplaced(h, D, slot)
    BY DEF RootOK
  <1>1. Way(h, D, c, n)
    BY WayDown
  <1>2. /\ c \in [Nat -> Links(D)] /\ c[0] = root
        /\ \A j \in Nat : c[j + 1] = Child(h, c[j], path[j + 1])
    BY <1>0, WalkIs
  <1>3. trees \in [D -> AllTrees] /\ \A q \in D : trees[q] = TreeAt(h, trees, q)
    BY DEF Tells
  <1>4. \A j \in Nat : along[j] = Denoted(trees, c[j])
    BY <1>0, WalkShown
  <1>5. tree \in AllTrees
    BY <1>0, <1>3, DenotedIsTree
  <1> HIDE DEF c, tree, along
  <1>23. at = r
    BY DEF c
  <1>6. ASSUME NEW j \in 0..n
        PROVE  IsRef(c[j]) /\ c[j].ref \in D /\ c[j] = Ref(c[j].ref) /\ c[j] \in Links(D) /\ j \in Nat
    BY <1>1, <1>2 DEF Way
  <1>7. \A i, j \in 0..n : c[i].ref = c[j].ref => i = j
    BY <1>1 DEF Way
  <1>8. ASSUME NEW j \in 0..n, NEW q \in D, NEW k \in DOMAIN Parts(h[q]), Parts(h[q])[k] = c[j]
        PROVE  j # 0 /\ j - 1 \in 0..n /\ q = c[j - 1].ref
    <2>1. j # 0 /\ c[j - 1] = Ref(q)
      BY <1>1, <1>8 DEF Way
    <2> QED
      BY <2>1, RefIs
  <1>9. r \in D /\ D \subseteq DOMAIN h /\ Draft(new, C) = D
    BY <1>0, <1>6 DEF Draft, r
  <1>10. new[r] = node /\ \A q \in D : q # r => new[q] = h[q]
    BY <1>9
  <1> HIDE DEF new, D
  <1>11. X \in AllTrees
    BY <1>3, <1>10, Shown DEF D
  <1>12. \A j \in 0..n - 1 : IsContainer(along[j])
    <2> SUFFICES ASSUME NEW j \in 0..n - 1 PROVE IsContainer(along[j])
      OBVIOUS
    <2>1. j \in 0..n /\ j \in Nat
      BY <1>0
    <2>2. IsRef(c[j]) /\ c[j] \in Links(Draft(h, C))
      BY <1>6, <2>1 DEF D
    <2>3. Denoted(trees, c[j]).kind = "object" \/ Denoted(trees, c[j]).kind = "array"
      BY <2>2, DraftShown
    <2> QED
      BY <1>4, <2>1, <2>3 DEF IsContainer
  <1>13. PICK put : /\ put \in [0..n -> AllTrees] /\ put[0] = X
                    /\ \A k \in 1..n :
                         put[k] = ReplaceChild(along[n - k], path[(n - k) + 1], put[k - 1])
                    /\ PutAt(tree, path, X) = put[n]
    <2> HIDE DEF X
    <2> QED
      BY <1>5, <1>11, <1>12, PutAtIs DEF along
  <1> DEFINE more == [q \in D |-> IF On(q) # {} THEN put[n - (CHOOSE j \in On(q) : TRUE)]
                                  ELSE trees[q]]
  <1>14. ASSUME NEW j \in 0..n PROVE more[c[j].ref] = put[n - j] /\ Denoted(more, c[j]) = put[n - j]
    <2>1. On(c[j].ref) = {j}
      BY <1>7
    <2>2. c[j].ref \in D /\ IsRef(c[j])
      BY <1>6
    <2>3. (CHOOSE i \in On(c[j].ref) : TRUE) = j
      BY <2>1
    <2> HIDE DEF On
    <2> QED
      BY <2>1, <2>2, <2>3 DEF Denoted
  <1>15. ASSUME NEW q \in D, \A j \in 0..n : c[j].ref # q PROVE more[q] = trees[q]
    BY <1>15
  <1>16. more \in [D -> AllTrees]
    <2>1. ASSUME NEW q \in D PROVE more[q] \in AllTrees
      <3>1. CASE \E j \in 0..n : c[j].ref = q
        <4>1. PICK j \in 0..n : c[j].ref = q
          BY <3>1
        <4>2. n - j \in 0..n
          BY <1>0
        <4> HIDE DEF more
        <4> QED
          BY <1>13, <1>14, <4>1, <4>2
      <3>2. CASE ~\E j \in 0..n : c[j].ref = q
        <4>1. more[q] = trees[q]
          BY <1>15, <3>2
        <4> HIDE DEF more
        <4> QED
          BY <1>3, <4>1
      <3> QED
        BY <3>1, <3>2
    <2> QED
      BY <2>1
  <1> HIDE DEF more, On
  <1>17. ASSUME NEW x \in Links(D), \A j \in 0..n : x # c[j]
         PROVE  Denoted(more, x) = Denoted(trees, x)
    <2>1. CASE IsRef(x)
      <3>1. x.ref \in D /\ x = Ref(x.ref)
        BY <2>1, LinkOrScalar
      <3>2. \A j \in 0..n : c[j].ref # x.ref
        BY <1>6, <1>17, <3>1
      <3> QED
        BY <1>15, <2>1, <3>1, <3>2 DEF Denoted
    <2>2. CASE ~IsRef(x)
      BY <2>2 DEF Denoted
    <2> QED
      BY <2>1, <2>2
  <1>18. Denoted(more, slot) = Denoted(trees, slot)
    <2>1. ASSUME NEW j \in 0..n, slot = c[j] PROVE FALSE
      <3>1. IsRef(slot)
        BY <1>6, <2>1
      <3>2. CASE j = 0
        BY <1>2, <2>1, <3>1, <3>2
      <3>3. CASE j # 0
        <4>1. j - 1 \in Nat /\ (j - 1) + 1 = j /\ j - 1 \in 0..n
          BY <1>0, <3>3
        <4>2. c[j - 1] \in Links(Draft(h, C)) /\ c[j] = Child(h, c[j - 1], path[j]) /\ c[j - 1].ref \in D
          BY <1>2, <1>6, <4>1 DEF D
        <4>3. PICK k \in DOMAIN Parts(h[c[j - 1].ref]) : Parts(h[c[j - 1].ref])[k] = c[j]
          BY <2>1, <3>1, <4>2, ChildPlace
        <4>4. slot \in Slots(h[c[j - 1].ref])
          BY <2>1, <4>3 DEF Slots, Range
        <4> QED
          BY <1>0, <3>1, <4>2, <4>4 DEF Unplaced
      <3> QED
        BY <3>2, <3>3
    <2> QED
      BY <1>0, <1>17, <2>1
  <1>19. ASSUME NEW i \in DOMAIN Parts(h[r])
         PROVE  Denoted(more, Parts(h[r])[i]) = Denoted(trees, Parts(h[r])[i])
    <2>1. ASSUME NEW j \in 0..n, Parts(h[r])[i] = c[j] PROVE FALSE
      <3>1. j - 1 \in 0..n /\ c[n].ref = c[j - 1].ref
        BY <1>8, <1>9, <2>1 DEF r
      <3>2. n = j - 1
        BY <1>0, <1>7, <3>1
      <3> QED
        BY <1>0, <3>2
    <2>2. Parts(h[r])[i] \in Links(D)
      <3>1. h[r] \in NodesWith(Links(D))
        BY <1>9, SlotsOfDraft DEF D
      <3> HIDE DEF r
      <3>2. Parts(h[r]) \in Seq(Links(D))
        BY <3>1, NodeShape
      <3> QED
        BY <3>2
    <2> QED
      BY <1>17, <2>1, <2>2
  <1>20. ASSUME NEW q \in D PROVE more[q] = TreeAt(new, more, q)
    <2>1. CASE q = r
      <3>1. \A i \in DOMAIN Parts(node) :
              Denoted(more, Parts(node)[i]) = Denoted(trees, Parts(node)[i])
        <4> SUFFICES ASSUME NEW i \in DOMAIN Parts(node)
                     PROVE  Denoted(more, Parts(node)[i]) = Denoted(trees, Parts(node)[i])
          OBVIOUS
        <4>1. CASE ~IsRef(Parts(node)[i])
          BY <4>1 DEF Denoted
        <4>2. CASE IsRef(Parts(node)[i])
          <5>1. Parts(node)[i] = slot \/ \E k \in DOMAIN Parts(h[r]) : Parts(h[r])[k] = Parts(node)[i]
            BY <1>23, <4>2 DEF Rearranged, c
          <5> HIDE DEF r
          <5> QED
            BY <1>18, <1>19, <5>1
        <4> QED
          BY <4>1, <4>2
      <3>2. TreeAt(new, more, r) = X
        <4> HIDE DEF r
        <4>1. \A i \in DOMAIN Parts(new[r]) :
                Denoted(more, Parts(new[r])[i]) = Denoted(trees, Parts(new[r])[i])
          BY <1>10, <3>1
        <4> HIDE DEF X, n
        <4>3. TreeAt(new, more, r) = TreeAt(new, trees, r)
          BY <4>1, SameNodeShown
        <4> QED
          BY <4>3 DEF X
      <3>3. more[r] = put[n - n]
        BY <1>0, <1>14 DEF r
      <3> QED
        BY <1>0, <1>13, <2>1, <3>2, <3>3
    <2>2. CASE q # r /\ \E j \in 0..n : c[j].ref = q
      <3>1. PICK j \in 0..n : c[j].ref = q
        BY <2>2
      <3>2. j # n /\ j + 1 \in 0..n /\ j \in Nat /\ n - j \in 1..n /\ n - (n - j) = j
            /\ (n - j) - 1 = n - (j + 1) /\ j + 1 \in 1..n
        BY <1>0, <2>2, <3>1 DEF r
      <3>3. new[q] = h[q]
        BY <1>10, <2>2
      <3>4. TreeAt(new, more, q) = TreeAt(h, more, q)
        BY <3>3, SameShown
      <3> DEFINE child == Child(h, c[j], path[j + 1])
      <3>5. child = c[j + 1] /\ IsRef(child) /\ c[j] \in Links(Draft(h, C)) /\ path[j + 1] \in STRING
        <4>1. child = c[j + 1]
          BY <1>2, <3>2
        <4>2. IsRef(c[j + 1])
          BY <1>6, <3>2
        <4>3. c[j] \in Links(D)
          BY <1>6
        <4>4. path[j + 1] \in STRING
          <5>1. j + 1 \in 1..Len(path)
            BY <3>2
          <5> HIDE DEF n, r, X, child
          <5> QED
            BY <5>1
        <4> HIDE DEF child, n
        <4> QED
          BY <4>1, <4>2, <4>3, <4>4 DEF D
      <3>6. ASSUME NEW i \in DOMAIN Parts(h[q]), Parts(h[q])[i] # child
            PROVE  Denoted(more, Parts(h[q])[i]) = Denoted(trees, Parts(h[q])[i])
        <4>1. ASSUME NEW l \in 0..n, Parts(h[q])[i] = c[l] PROVE FALSE
          <5>1. l # 0 /\ l - 1 \in 0..n /\ c[j].ref = c[l - 1].ref
            BY <1>8, <3>1, <4>1
          <5>2. j = l - 1
            BY <1>7, <5>1
          <5>3. l = j + 1
            BY <3>2, <5>2
          <5> QED
            BY <3>5, <3>6, <4>1, <5>3
        <4>2. Parts(h[q])[i] \in Links(D)
          <5>1. h[q] \in NodesWith(Links(D))
            BY SlotsOfDraft DEF D
          <5>2. Parts(h[q]) \in Seq(Links(D))
            BY <5>1, NodeShape
          <5> QED
            BY <5>2
        <4> QED
          BY <1>17, <4>1, <4>2
      <3>7. TreeAt(h, more, q) = ReplaceChild(Denoted(trees, c[j]), path[j + 1], Denoted(more, child))
        <4> HIDE DEF child
        <4>1. more \in [Draft(h, C) -> AllTrees]
          BY <1>16 DEF D
        <4>2. \A i \in DOMAIN Parts(h[c[j].ref]) :
                Parts(h[c[j].ref])[i] # child
                  => Denoted(more, Parts(h[c[j].ref])[i]) = Denoted(trees, Parts(h[c[j].ref])[i])
          BY <3>1, <3>6
        <4> DEFINE here    == c[j]
                   token == path[j + 1]
        <4>3. child = Child(h, here, token)
          BY DEF child
        <4>4. here \in Links(Draft(h, C)) /\ token \in STRING /\ IsRef(child)
          BY <3>5
        <4>5. \A i \in DOMAIN Parts(h[here.ref]) :
                Parts(h[here.ref])[i] # Child(h, here, token)
                  => Denoted(more, Parts(h[here.ref])[i]) = Denoted(trees, Parts(h[here.ref])[i])
          BY <4>2, <4>3
        <4>6. IsRef(Child(h, here, token))
          BY <4>3, <4>4
        <4> HIDE DEF here, token, n, r, X
        <4>7. TreeAt(h, more, here.ref) = ReplaceChild(Denoted(trees, here), token, Denoted(more, Child(h, here, token)))
          BY <4>1, <4>4, <4>5, <4>6, ChildReplaced
        <4> QED
          BY <3>1, <4>3, <4>7 DEF here, token
      <3>8. Denoted(more, child) = put[n - (j + 1)]
        BY <1>14, <3>2, <3>5
      <3>9. put[n - j] = ReplaceChild(along[j], path[j + 1], put[n - (j + 1)])
        BY <1>13, <3>2
      <3>10. along[j] = Denoted(trees, c[j])
        BY <1>4, <3>2
      <3>11. more[q] = put[n - j]
        BY <1>14, <3>1
      <3> HIDE DEF child
      <3> QED
        BY <3>4, <3>7, <3>8, <3>9, <3>10, <3>11
    <2>3. CASE q # r /\ ~\E j \in 0..n : c[j].ref = q
      <3>1. \A i \in DOMAIN Parts(h[q]) :
              Denoted(more, Parts(h[q])[i]) = Denoted(trees, Parts(h[q])[i])
        <4> SUFFICES ASSUME NEW i \in DOMAIN Parts(h[q])
                     PROVE  Denoted(more, Parts(h[q])[i]) = Denoted(trees, Parts(h[q])[i])
          OBVIOUS
        <4>1. \A j \in 0..n : Parts(h[q])[i] # c[j]
          BY <1>8, <2>3
        <4>2. h[q] \in NodesWith(Links(D))
          BY SlotsOfDraft DEF D
        <4>3. Parts(h[q]) \in Seq(Links(D))
          BY <4>2, NodeShape
        <4>4. Parts(h[q])[i] \in Links(D)
          BY <4>3
        <4> QED
          BY <1>17, <4>1, <4>4
      <3>2. new[q] = h[q]
        BY <1>10, <2>3
      <3>3. TreeAt(new, more, q) = TreeAt(h, trees, q)
        BY <3>1, <3>2, SameShown
      <3>4. more[q] = trees[q]
        BY <1>15, <2>3
      <3> QED
        BY <1>3, <3>3, <3>4
    <2> QED
      BY <2>1, <2>2, <2>3
  <1>21. Tells(new, more, Draft(new, C))
    BY <1>9, <1>16, <1>20 DEF Tells
  <1>22. Denoted(more, root) = PutAt(tree, path, X)
    <2>1. Denoted(more, c[0]) = put[n - 0] /\ n - 0 = n
      BY <1>0, <1>14
    <2> QED
      BY <1>2, <1>13, <2>1
  <1> QED
    <2>1. new = [h EXCEPT ![at] = node] /\ X = TreeAt(new, trees, at)
      <3> HIDE DEF r
      <3> QED
        BY <1>23 DEF new
    <2> HIDE DEF r, X
    <2>2. \A i \in DOMAIN Parts(h[at]) : Denoted(more, Parts(h[at])[i]) = Denoted(trees, Parts(h[at])[i])
      BY <1>19, <1>23
    <2> QED
      BY <1>18, <1>21, <1>22, <2>1, <2>2 DEF tree, EditTold

-----------------------------------------------------------------------------
(* What the nodes denote, and what a client sees.                          *)

\* A node denotes a container of what its parts denote.
LEMMA PartsShown ==
  ASSUME NEW h, NEW D, NEW trees, Tells(h, trees, D), NEW r \in D, h[r] \in NodesWith(Links(D))
  PROVE  /\ trees[r] \in AllTrees /\ IsContainer(trees[r]) /\ trees[r].kind = h[r].kind
         /\ DOMAIN Parts(trees[r]) = DOMAIN Parts(h[r])
         /\ \A i \in DOMAIN Parts(h[r]) :
              /\ Parts(h[r])[i] \in Links(D)
              /\ Parts(trees[r])[i] = Denoted(trees, Parts(h[r])[i])
  <1>1. trees \in [D -> AllTrees] /\ trees[r] = TreeAt(h, trees, r)
    BY DEF Tells
  <1>2. \A i \in DOMAIN Parts(h[r]) : Parts(h[r])[i] \in Links(D)
    <2>1. Parts(h[r]) \in Seq(Links(D))
      BY NodeShape
    <2> QED
      BY <2>1
  <1>3. CASE h[r].kind = "array"
    <2>1. /\ h[r].items \in Seq(Links(D))
          /\ trees[r] = Array(ItemsShown(trees, h[r].items)) /\ trees[r] \in AllTrees
      BY <1>1, <1>3, Shown
    <2>2. Parts(h[r]) = h[r].items
      BY <1>3, NodeShape
    <2>3. Parts(trees[r]) = ItemsShown(trees, h[r].items) /\ trees[r].kind = "array"
      BY <2>1 DEF Parts, Array
    <2> QED
      BY <1>2, <1>3, <2>1, <2>2, <2>3 DEF ItemsShown, IsContainer
  <1>4. CASE h[r].kind = "object"
    <2>1. /\ h[r].fields \in Seq(FieldsOf(STRING, Links(D)))
          /\ trees[r] = Object(FieldsShown(trees, h[r].fields)) /\ trees[r] \in AllTrees
      BY <1>1, <1>4, Shown
    <2>2. /\ Parts(h[r]) = [i \in DOMAIN h[r].fields |-> h[r].fields[i].value]
          /\ DOMAIN Parts(h[r]) = DOMAIN h[r].fields
      BY <1>4, NodeShape
    <2>3. trees[r].kind = "object" /\ trees[r].fields = FieldsShown(trees, h[r].fields)
      BY <2>1 DEF Object
    <2>4. DOMAIN FieldsShown(trees, h[r].fields) = DOMAIN h[r].fields
      BY DEF FieldsShown
    <2>5. \A i \in DOMAIN h[r].fields :
            FieldsShown(trees, h[r].fields)[i].value = Denoted(trees, h[r].fields[i].value)
      BY DEF FieldsShown, Field
    <2>6. Parts(trees[r]) = [i \in DOMAIN h[r].fields |-> FieldsShown(trees, h[r].fields)[i].value]
      BY <2>3, <2>4 DEF Parts
    <2> QED
      BY <1>2, <1>4, <2>1, <2>2, <2>3, <2>5, <2>6 DEF IsContainer
  <1>5. h[r].kind = "array" \/ h[r].kind = "object"
    BY NodeShape
  <1> QED
    BY <1>3, <1>4, <1>5

\* Nodes referring to one another only.
ClosedPart(h, D) == HeapOK(h) /\ D \subseteq DOMAIN h /\ Closed(h, D)

LEMMA NodesOfPart ==
  ASSUME NEW h, NEW D, ClosedPart(h, D), NEW r \in D
  PROVE  h[r] \in NodesWith(Links(D))
  <1>1. h[r] \in NodesWith(Links(DOMAIN h))
    BY DEF ClosedPart, HeapOK
  <1>2. RefsIn(Slots(h[r])) \subseteq D
    BY DEF ClosedPart, Closed
  <1> QED
    BY <1>1, <1>2, NodesWithMore DEF ClosedPart

\* A client sees what the nodes denote, if it is not too deep to be seen.
LEMMA ViewTold ==
  ASSUME NEW h, NEW D, ClosedPart(h, D), NEW trees, Tells(h, trees, D),
         NEW slot \in Links(D), Denoted(trees, slot) \in Trees
  PROVE  View(h, slot) = Denoted(trees, slot)
  <1>1. PICK view : /\ Viewing(h, view)
                    /\ \A s : View(h, s) = IF IsRef(s) THEN view[MaxDepth][s.ref] ELSE s
    BY ViewIs DEF ClosedPart
  <1> DEFINE T == {n \in Nat : \A r \in D : trees[r] \in Nested[n] => view[n][r] = trees[r]}
  <1>2. 0 \in T
    <2>1. ASSUME NEW r \in D PROVE trees[r] \notin Nested[0]
      <3>1. IsContainer(trees[r])
        BY NodesOfPart, PartsShown
      <3> QED
        BY <3>1, NestedIs, ScalarKind
    <2> QED
      BY <2>1
  <1>3. ASSUME NEW n \in Nat, n \in T PROVE n + 1 \in T
    <2> SUFFICES ASSUME NEW r \in D, trees[r] \in Nested[n + 1] PROVE view[n + 1][r] = trees[r]
      OBVIOUS
    <2> DEFINE parts == Parts(h[r])
    <2>1. /\ IsContainer(trees[r]) /\ DOMAIN Parts(trees[r]) = DOMAIN parts
          /\ \A i \in DOMAIN parts : /\ parts[i] \in Links(D)
                                     /\ Parts(trees[r])[i] = Denoted(trees, parts[i])
      BY NodesOfPart, PartsShown
    <2>2. n + 1 \in Nat /\ (n + 1) - 1 = n
      OBVIOUS
    <2>3. \A i \in DOMAIN Parts(trees[r]) : Parts(trees[r])[i] \in Nested[n]
      BY <2>1, <2>2, PartsNest
    <2> HIDE DEF parts
    <2>4. ASSUME NEW i \in DOMAIN parts
          PROVE  Denoted(view[n], parts[i]) = Denoted(trees, parts[i])
      <3>1. Denoted(trees, parts[i]) \in Nested[n] /\ parts[i] \in Links(D)
        BY <2>1, <2>3
      <3>2. CASE IsRef(parts[i])
        <4>1. parts[i].ref \in D
          BY <3>1, <3>2, LinkOrScalar
        <4> QED
          BY <1>3, <3>1, <3>2, <4>1 DEF Denoted
      <3>3. CASE ~IsRef(parts[i])
        BY <3>3 DEF Denoted
      <3> QED
        BY <3>2, <3>3
    <2>5. TreeAt(h, view[n], r) = TreeAt(h, trees, r)
      BY <2>4, SameNodeShown DEF parts
    <2>6. view[n + 1][r] = TreeAt(h, view[n], r)
      BY <1>1 DEF Viewing, ClosedPart
    <2> QED
      BY <2>5, <2>6 DEF Tells
  <1> HIDE DEF T
  <1>4. \A n \in Nat : n \in T
    BY <1>2, <1>3, Induction
  <1>5. MaxDepth \in T
    BY <1>4, DepthAssumption
  <1>6. CASE IsRef(slot)
    <2>1. slot.ref \in D
      BY <1>6, LinkOrScalar
    <2> QED
      BY <1>1, <1>5, <1>6, <2>1 DEF T, Denoted, Trees
  <1>7. CASE ~IsRef(slot)
    BY <1>1, <1>7 DEF Denoted
  <1> QED
    BY <1>6, <1>7

\* Nodes that can be told what they denote are not inside themselves.
LEMMA ToldGrounded ==
  ASSUME NEW h, NEW D, ClosedPart(h, D), NEW trees, Tells(h, trees, D),
         NEW nodes, nodes \subseteq D, nodes # {}
  PROVE  \E r \in nodes : RefsIn(Slots(h[r])) \cap nodes = {}
  <1> DEFINE T == {n \in Nat : \E r \in nodes : trees[r] \in Nested[n]}
  <1>1. T # {}
    <2>1. PICK r \in nodes : TRUE
      OBVIOUS
    <2>2. trees[r] \in AllTrees
      BY DEF Tells
    <2> QED
      BY <2>2 DEF AllTrees
  <1>2. PICK m \in T : \A n \in T : m <= n
    <2> HIDE DEF T
    <2>1. T \subseteq Nat
      BY DEF T
    <2> QED
      BY <1>1, <2>1, Least
  <1>3. PICK r \in nodes : trees[r] \in Nested[m]
    OBVIOUS
  <1>4. ASSUME NEW q \in RefsIn(Slots(h[r])), q \in nodes PROVE FALSE
    <2>1. PICK s \in Slots(h[r]) : IsRef(s) /\ s.ref = q
      BY DEF RefsIn
    <2>2. PICK i \in DOMAIN Parts(h[r]) : Parts(h[r])[i] = s
      BY DEF Slots, Range
    <2>3. /\ IsContainer(trees[r]) /\ i \in DOMAIN Parts(trees[r])
          /\ Parts(trees[r])[i] = Denoted(trees, s)
      BY <2>2, NodesOfPart, PartsShown
    <2>4. m \in Nat /\ m # 0 /\ Parts(trees[r])[i] \in Nested[m - 1]
      BY <1>3, <2>3, PartsNest
    <2>5. trees[q] \in Nested[m - 1]
      BY <2>1, <2>3, <2>4 DEF Denoted
    <2>6. m - 1 \in T
      BY <1>4, <2>4, <2>5
    <2> QED
      BY <1>2, <2>4, <2>6
  <1> QED
    BY <1>4

\* Few nodes denote nothing deep.
LEMMA ToldInTrees ==
  ASSUME NEW h, NEW D, ClosedPart(h, D), NEW trees, Tells(h, trees, D),
         Cardinality(D) <= MaxDepth, NEW slot \in Links(D)
  PROVE  Denoted(trees, slot) \in Trees
  <1> DEFINE g    == [r \in D |-> h[r]]
             V(q) == View(g, Ref(q))
             seen == [q \in DOMAIN g |-> View(g, Ref(q))]
  <1>1. DOMAIN g = D /\ \A r \in D : g[r] = h[r]
    OBVIOUS
  <1>2. HeapOK(g)
    <2>1. IsFiniteSet(D)
      BY FS_Subset DEF ClosedPart, HeapOK
    <2>2. \A r \in D : g[r] \in NodesWith(Links(D))
      BY NodesOfPart
    <2> QED
      BY <2>1, <2>2 DEF HeapOK
  <1>3. Grounded(g)
    <2> SUFFICES ASSUME NEW nodes \in SUBSET DOMAIN g, nodes # {}
                 PROVE  \E r \in nodes : RefsIn(Slots(g[r])) \cap nodes = {}
      BY DEF Grounded
    <2>1. PICK r \in nodes : RefsIn(Slots(h[r])) \cap nodes = {}
      BY <1>1, ToldGrounded
    <2> QED
      BY <1>1, <2>1
  <1> HIDE DEF g
  <1>4. seen \in [D -> Trees]
    <2>1. CASE D = {}
      BY <1>1, <2>1
    <2>2. CASE D # {}
      BY <1>1, <1>2, <1>3, <2>2, ViewUnfolds
    <2> QED
      BY <2>1, <2>2
  <1>5. ASSUME NEW r \in D PROVE seen[r] = TreeAt(h, seen, r)
    <2>1. View(g, Ref(r)) = TreeAt(g, seen, r)
      BY <1>1, <1>2, <1>3, ViewUnfolds
    <2>2. seen[r] = View(g, Ref(r))
      BY <1>1
    <2> HIDE DEF seen
    <2>3. g[r] = h[r] /\ \A i \in DOMAIN Parts(h[r]) :
            Denoted(seen, Parts(h[r])[i]) = Denoted(seen, Parts(h[r])[i])
      BY <1>1
    <2>4. TreeAt(g, seen, r) = TreeAt(h, seen, r)
      BY <2>3, SameShown
    <2> QED
      BY <2>1, <2>2, <2>4
  <1> HIDE DEF seen
  <1> DEFINE wrong == {r \in D : seen[r] # trees[r]}
  <1>6. wrong = {}
    <2> SUFFICES ASSUME wrong # {} PROVE FALSE
      OBVIOUS
    <2>1. PICK r \in wrong : RefsIn(Slots(h[r])) \cap wrong = {}
      <3>1. wrong \subseteq D
        OBVIOUS
      <3> HIDE DEF wrong
      <3> QED
        BY <3>1, ToldGrounded
    <2>2. ASSUME NEW i \in DOMAIN Parts(h[r])
          PROVE  Denoted(seen, Parts(h[r])[i]) = Denoted(trees, Parts(h[r])[i])
      <3>1. Parts(h[r])[i] \in Links(D) /\ Parts(h[r])[i] \in Slots(h[r])
        BY NodesOfPart, NodeShape, PartsShown
      <3>2. CASE IsRef(Parts(h[r])[i])
        <4>1. Parts(h[r])[i].ref \in D /\ Parts(h[r])[i].ref \in RefsIn(Slots(h[r]))
          BY <3>1, <3>2, LinkOrScalar DEF RefsIn
        <4> QED
          BY <2>1, <3>2, <4>1 DEF Denoted
      <3>3. CASE ~IsRef(Parts(h[r])[i])
        BY <3>3 DEF Denoted
      <3> QED
        BY <3>2, <3>3
    <2>3. TreeAt(h, seen, r) = TreeAt(h, trees, r)
      BY <2>2, SameNodeShown
    <2> QED
      BY <1>5, <2>3 DEF Tells
  <1>7. CASE IsRef(slot)
    <2>1. slot.ref \in D
      BY <1>7, LinkOrScalar
    <2> QED
      BY <1>4, <1>6, <1>7, <2>1 DEF Denoted
  <1>8. CASE ~IsRef(slot)
    <2>1. slot \in ScalarValues
      BY <1>8, LinkOrScalar
    <2> QED
      BY <1>8, <2>1, ScalarsNest, DepthAssumption DEF Denoted, Trees
  <1> QED
    BY <1>7, <1>8

-----------------------------------------------------------------------------
(* A value cloned into the heap of the draft.                              *)

\* A tree with the kind, the parts and the keys of another is the other.
LEMMA SameContainer ==
  ASSUME NEW tree \in AllTrees, IsContainer(tree), NEW other \in AllTrees, IsContainer(other),
         other.kind = tree.kind, DOMAIN Parts(other) = DOMAIN Parts(tree),
         \A i \in DOMAIN Parts(tree) : Parts(other)[i] = Parts(tree)[i],
         tree.kind = "object" =>
           \A i \in DOMAIN Parts(tree) : other.fields[i].key = tree.fields[i].key
  PROVE  other = tree
  <1>1. PICK n \in Nat : tree \in Nested[n]
    BY DEF AllTrees
  <1>2. PICK m \in Nat : other \in Nested[m]
    BY DEF AllTrees
  <1> QED
    BY <1>1, <1>2, SameTree

\* The keys of what an object denotes.
LEMMA KeysShown ==
  ASSUME NEW h, NEW D, NEW trees \in [D -> AllTrees], NEW r, h[r] \in NodesWith(Links(D)),
         h[r].kind = "object"
  PROVE  \A i \in DOMAIN Parts(h[r]) : TreeAt(h, trees, r).fields[i].key = h[r].fields[i].key
  <1>1. TreeAt(h, trees, r) = Object(FieldsShown(trees, h[r].fields))
    BY Shown
  <1>2. DOMAIN Parts(h[r]) = DOMAIN h[r].fields
    BY NodeShape
  <1> QED
    BY <1>1, <1>2 DEF Object, FieldsShown, Field

\* The nodes of a stored tree denote what stands at their places.
LEMMA PlaceTold ==
  ASSUME NEW h, NEW D, NEW trees \in [D -> AllTrees], NEW r, h[r] \in NodesWith(Links(D)),
         NEW places, NodeShows(h, r, places), places[r].tree \in AllTrees,
         \A q \in DOMAIN places : q \in D /\ trees[q] = places[q].tree
  PROVE  TreeAt(h, trees, r) = places[r].tree
  <1> DEFINE tree  == places[r].tree
             other == TreeAt(h, trees, r)
  <1>1. /\ IsContainer(tree) /\ h[r].kind = tree.kind
        /\ DOMAIN Parts(h[r]) = DOMAIN Parts(tree)
        /\ \A i \in DOMAIN Parts(h[r]) :
             /\ h[r].kind = "object" => h[r].fields[i].key = tree.fields[i].key
             /\ ~IsContainer(Parts(tree)[i]) => Parts(h[r])[i] = Parts(tree)[i]
             /\ IsContainer(Parts(tree)[i]) =>
                  /\ IsRef(Parts(h[r])[i]) /\ Parts(h[r])[i].ref \in DOMAIN places
                  /\ places[Parts(h[r])[i].ref] = PartAt(places[r], i)
    BY DEF NodeShows
  <1>2. other \in AllTrees /\ other.kind = h[r].kind
    BY Shown
  <1>3. IsContainer(other)
    BY <1>1, <1>2 DEF IsContainer
  <1>4. DOMAIN Parts(other) = DOMAIN Parts(h[r]) /\ \A i \in DOMAIN Parts(h[r]) : Parts(other)[i] = Denoted(trees, Parts(h[r])[i])
    <2>1. CASE h[r].kind = "array"
      <3>1. other = Array(ItemsShown(trees, h[r].items))
        BY <2>1, Shown
      <3>2. Parts(h[r]) = h[r].items
        BY <2>1, NodeShape
      <3> QED
        BY <3>1, <3>2 DEF Parts, Array, ItemsShown
    <2>2. CASE h[r].kind = "object"
      <3>1. other = Object(FieldsShown(trees, h[r].fields))
        BY <2>2, Shown
      <3>2. /\ Parts(h[r]) = [i \in DOMAIN h[r].fields |-> h[r].fields[i].value]
            /\ DOMAIN Parts(h[r]) = DOMAIN h[r].fields
        BY <2>2, NodeShape
      <3> HIDE DEF other
      <3>3. other.kind = "object" /\ other.fields = FieldsShown(trees, h[r].fields)
        BY <3>1 DEF Object
      <3>4. Parts(other) = [i \in DOMAIN h[r].fields |-> FieldsShown(trees, h[r].fields)[i].value]
        BY <3>3 DEF Parts, FieldsShown
      <3>5. \A i \in DOMAIN h[r].fields :
              FieldsShown(trees, h[r].fields)[i].value = Denoted(trees, h[r].fields[i].value)
        BY DEF FieldsShown, Field
      <3> QED
        BY <3>2, <3>4, <3>5
    <2> QED
      BY <2>1, <2>2, NodeShape
  <1>5. ASSUME NEW i \in DOMAIN Parts(tree) PROVE Parts(other)[i] = Parts(tree)[i]
    <2> HIDE DEF other
    <2>1. Parts(other)[i] = Denoted(trees, Parts(h[r])[i])
      BY <1>1, <1>4
    <2>2. CASE IsContainer(Parts(tree)[i])
      <3>1. /\ IsRef(Parts(h[r])[i]) /\ Parts(h[r])[i].ref \in DOMAIN places
            /\ places[Parts(h[r])[i].ref] = PartAt(places[r], i)
        BY <1>1, <2>2
      <3>2. places[Parts(h[r])[i].ref].tree = Parts(tree)[i]
        BY <3>1 DEF PartAt
      <3> QED
        BY <2>1, <3>1, <3>2 DEF Denoted
    <2>3. CASE ~IsContainer(Parts(tree)[i])
      <3>1. Parts(h[r])[i] = Parts(tree)[i]
        BY <1>1, <2>3
      <3>2. ~IsRef(Parts(tree)[i])
        <4>1. PICK n \in Nat : tree \in Nested[n]
          BY DEF AllTrees
        <4>2. n # 0 /\ Parts(tree)[i] \in Nested[n - 1]
          <5> HIDE DEF tree
          <5> QED
            BY <1>1, <1>5, <4>1, PartsNest
        <4>3. n - 1 \in Nat
          BY <4>2
        <4> DEFINE part == Parts(tree)[i]
        <4> HIDE DEF part, tree
        <4>4. ~IsRef(part)
          BY <4>2, <4>3, TreeShape DEF part
        <4> QED
          BY <4>4 DEF part
      <3> QED
        BY <2>1, <3>1, <3>2 DEF Denoted
    <2> QED
      BY <2>2, <2>3
  <1>6. ASSUME tree.kind = "object", NEW i \in DOMAIN Parts(tree)
        PROVE  other.fields[i].key = tree.fields[i].key
    <2>1. h[r].kind = "object" /\ i \in DOMAIN Parts(h[r]) /\ h[r].fields[i].key = tree.fields[i].key
      BY <1>1, <1>6
    <2> QED
      BY <2>1, KeysShown
  <1> HIDE DEF tree, other
  <1>7. tree \in AllTrees /\ DOMAIN Parts(other) = DOMAIN Parts(tree) /\ other.kind = tree.kind
    BY <1>1, <1>2, <1>4 DEF tree
  <1>8. other = tree
    BY <1>1, <1>2, <1>3, <1>5, <1>6, <1>7, SameContainer
  <1> QED
    BY <1>8 DEF tree, other

\* What the nodes of one heap denote, and those of a larger heap denote too.
Retold(D, trees, more) ==
  \A slot \in Links(D) : Denoted(more, slot) = Denoted(trees, slot)

LEMMA CloneTells ==
  ASSUME NEW h, NEW C, RegionsOK(h, C), NEW trees, Tells(h, trees, Draft(h, C)),
         NEW value \in Links(DOMAIN h)
  PROVE  LET copy == cloneJSONValue(h, value)
         IN  \E more : /\ Tells(copy.heap, more, Draft(copy.heap, C))
                       /\ Retold(Draft(h, C), trees, more)
                       /\ Denoted(more, copy.slot) = View(h, value)
  <1> DEFINE copy == cloneJSONValue(h, value)
             new  == copy.heap
             tree == View(h, value)
             D    == Draft(h, C)
             E    == Draft(new, C)
             N    == DOMAIN new \ DOMAIN h
  <1>1. HeapOK(h) /\ C \subseteq DOMAIN h
    BY DEF RegionsOK
  <1>2. tree \in Trees
    BY <1>1, ViewIsTree
  <1>3. StoredIn(h, new, copy.slot, tree, FALSE, NoEntry)
    BY <1>1, Cloned
  <1>4. PICK places : /\ DOMAIN places = N /\ Shows(new, places)
                      /\ IsContainer(tree) =>
                           places[copy.slot.ref] = [tree |-> tree, entry |-> NoEntry]
    <2> DEFINE attached == FALSE
               entry    == NoEntry
               store    == Store(h, tree, attached, entry)
    <2>1. copy = store
      BY DEF cloneJSONValue
    <2>2. attached \in BOOLEAN /\ entry \in Entries
      BY DEF Entries
    <2> HIDE DEF attached, entry
    <2>3. \E places : /\ DOMAIN places = DOMAIN store.heap \ DOMAIN h
                      /\ Shows(store.heap, places)
                      /\ IsContainer(tree) =>
                           places[store.slot.ref] = [tree |-> tree, entry |-> entry]
      <3> HIDE DEF tree
      <3> QED
        BY <1>1, <1>2, <2>2, StoredShows
    <2>4. \E places : /\ DOMAIN places = N /\ Shows(new, places)
                      /\ IsContainer(tree) =>
                           places[copy.slot.ref] = [tree |-> tree, entry |-> entry]
      <3> HIDE DEF store, tree, copy
      <3> QED
        BY <2>1, <2>3
    <2> QED
      BY <2>4 DEF entry
  <1>5. RegionsOK(new, C) /\ D \subseteq E /\ \A r \in D : new[r] = h[r]
    BY CloneDraft
  <1>6. /\ DOMAIN h \subseteq DOMAIN new /\ copy.slot \in Links(N)
        /\ IsRef(copy.slot) <=> IsContainer(tree)
        /\ ~IsContainer(tree) => copy.slot = tree
    BY <1>3 DEF StoredIn, Added
  <1>7. E = D \cup N /\ D \cap N = {}
    BY <1>1, <1>6 DEF Draft
  <1> HIDE DEF copy, tree, D, E, N, new
  <1> DEFINE more == [r \in E |-> IF r \in N THEN places[r].tree ELSE trees[r]]
  <1>8. \A r \in N : places[r].tree \in AllTrees /\ NodeShows(new, r, places)
    <2>1. places \in [DOMAIN places -> TreePlaces] /\ \A r \in N : NodeShows(new, r, places)
      BY <1>4 DEF Shows
    <2> QED
      BY <1>4, <2>1 DEF TreePlaces, AllTrees
  <1>9. trees \in [D -> AllTrees] /\ \A r \in D : trees[r] = TreeAt(h, trees, r)
    BY DEF Tells, D
  <1>10. more \in [E -> AllTrees]
    BY <1>7, <1>8, <1>9
  <1>11. (\A r \in N : r \in E /\ more[r] = places[r].tree) /\ \A r \in D : more[r] = trees[r]
    BY <1>7
  <1> HIDE DEF more
  <1>12. Retold(D, trees, more)
    <2> SUFFICES ASSUME NEW slot \in Links(D) PROVE Denoted(more, slot) = Denoted(trees, slot)
      BY DEF Retold
    <2>1. CASE IsRef(slot)
      <3>1. slot.ref \in D
        BY <2>1, LinkOrScalar
      <3> QED
        BY <1>11, <2>1, <3>1 DEF Denoted
    <2>2. CASE ~IsRef(slot)
      BY <2>2 DEF Denoted
    <2> QED
      BY <2>1, <2>2
  <1>13. ASSUME NEW r \in E PROVE more[r] = TreeAt(new, more, r)
    <2>1. CASE r \in N
      <3>1. new[r] \in NodesWith(Links(E))
        BY <1>5, SlotsOfDraft DEF E
      <3>2. \A q \in DOMAIN places : q \in E /\ more[q] = places[q].tree
        BY <1>4, <1>11
      <3>3. TreeAt(new, more, r) = places[r].tree
        BY <1>8, <1>10, <2>1, <3>1, <3>2, PlaceTold
      <3> QED
        BY <1>11, <2>1, <3>3
    <2>2. CASE r \in D
      <3>1. h[r] \in NodesWith(Links(D))
        BY <2>2, SlotsOfDraft DEF D
      <3>2. Parts(h[r]) \in Seq(Links(D))
        BY <3>1, NodeShape
      <3>3. \A i \in DOMAIN Parts(h[r]) :
              Denoted(more, Parts(h[r])[i]) = Denoted(trees, Parts(h[r])[i])
        BY <1>12, <3>2 DEF Retold
      <3>4. new[r] = h[r]
        BY <1>5, <2>2 DEF D
      <3>5. TreeAt(new, more, r) = TreeAt(h, trees, r)
        BY <3>3, <3>4, SameShown
      <3> QED
        BY <1>9, <1>11, <2>2, <3>5
    <2> QED
      BY <1>7, <2>1, <2>2
  <1>14. Denoted(more, copy.slot) = tree
    <2>1. CASE IsRef(copy.slot)
      <3>1. copy.slot.ref \in N
        BY <1>6, <2>1, LinkOrScalar
      <3>2. places[copy.slot.ref].tree = tree
        BY <1>4, <1>6, <2>1
      <3> QED
        BY <1>11, <2>1, <3>1, <3>2 DEF Denoted
    <2>2. CASE ~IsRef(copy.slot)
      BY <1>6, <2>2 DEF Denoted
    <2> QED
      BY <2>1, <2>2
  <1>15. Tells(new, more, E)
    BY <1>10, <1>13 DEF Tells
  <1> QED
    BY <1>12, <1>14, <1>15 DEF copy, new, tree, D, E
=============================================================================
