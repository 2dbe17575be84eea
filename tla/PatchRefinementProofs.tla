------------------------ MODULE PatchRefinementProofs ------------------------
(***************************************************************************)
(* Editing nodes in place is RFC 6902: the steps of PatchApply are those   *)
(* of PatchSpec, for every document, schema and patch.                     *)
(*                                                                         *)
(* Of each operation there is a lemma that compares what it makes of the   *)
(* nodes with what the operation of PatchTrees makes of the tree they      *)
(* denote (OpTold).  The inductive invariant is RInv: PInv, and the nodes  *)
(* of the draft denote something while the patch is applied.               *)
(***************************************************************************)
EXTENDS PatchApplyProofs

-----------------------------------------------------------------------------
(* The parent of a location, and what stands there.                        *)

LEMMA PathEnds ==
  ASSUME NEW path \in Seq(STRING), path # <<>>
  PROVE  /\ Front(path) \in Seq(STRING) /\ Len(Front(path)) = Len(path) - 1
         /\ Len(path) - 1 \in Nat /\ Len(path) \in Nat
         /\ \A n \in 1..Len(path) - 1 : Front(path)[n] = path[n]
         /\ Last(path) = path[Len(path)] /\ Last(path) \in STRING
  <1>1. Len(path) \in Nat \ {0}
    OBVIOUS
  <1>2. Front(path) = [i \in 1..Len(path) - 1 |-> path[i]]
    BY <1>1 DEF Front
  <1> QED
    BY <1>1, <1>2 DEF Last

\* The way to the parent of a location is the way to the location but its end.
LEMMA WalkToParent ==
  ASSUME NEW h, NEW C, RegionsOK(h, C), NEW root \in Links(Draft(h, C)),
         NEW path \in Seq(STRING), path # <<>>
  PROVE  /\ Walk(h, root, Front(path))[Len(Front(path))] = Walk(h, root, path)[Len(path) - 1]
         /\ Walk(h, root, path)[Len(path)]
              = Child(h, Walk(h, root, path)[Len(path) - 1], Last(path))
         /\ Walk(h, root, path)[Len(path) - 1] \in Links(Draft(h, C))
  <1> DEFINE c    == Walk(h, root, path)
             d    == Walk(h, root, Front(path))
             last == Len(path) - 1
             T    == {n \in Nat : n <= last => d[n] = c[n]}
  <1>1. /\ last \in Nat /\ Len(Front(path)) = last /\ last + 1 = Len(path)
        /\ \A n \in 1..last : Front(path)[n] = path[n]
        /\ Last(path) = path[last + 1]
    BY PathEnds
  <1>2. /\ c \in [Nat -> Links(Draft(h, C))] /\ c[0] = root
        /\ \A n \in Nat : c[n + 1] = Child(h, c[n], path[n + 1])
    BY WalkIs
  <1>3. /\ d[0] = root /\ \A n \in Nat : d[n + 1] = Child(h, d[n], Front(path)[n + 1])
    BY WalkIs
  <1> HIDE DEF c, d, last
  <1>4. 0 \in T
    BY <1>2, <1>3
  <1>5. ASSUME NEW n \in Nat, n \in T PROVE n + 1 \in T
    <2> SUFFICES ASSUME n + 1 <= last PROVE d[n + 1] = c[n + 1]
      OBVIOUS
    <2>1. n <= last /\ n + 1 \in 1..last
      BY <1>1
    <2> QED
      BY <1>1, <1>2, <1>3, <1>5, <2>1
  <1> HIDE DEF T
  <1>6. \A n \in Nat : n \in T
    BY <1>4, <1>5, Induction
  <1>7. d[last] = c[last]
    BY <1>1, <1>6 DEF T
  <1>8. c[Len(path)] = Child(h, c[last], Last(path)) /\ c[last] \in Links(Draft(h, C))
    BY <1>1, <1>2
  <1> QED
    BY <1>1, <1>7, <1>8 DEF c, d, last

\* The node, or scalar, that holds a location.
Holder(h, root, path) == Walk(h, root, Front(path))[Len(Front(path))]

LEMMA ResolveIs ==
  ASSUME NEW h, NEW C, RegionsOK(h, C), NEW root \in Links(Draft(h, C)),
         NEW path \in Seq(STRING), path # <<>>
  PROVE  /\ Holder(h, root, path) \in Links(Draft(h, C))
         /\ \A allowAppend : resolvePointerTarget(h, root, path, allowAppend)
                               = TargetIn(h, Holder(h, root, path), Last(path), allowAppend)
         /\ Walk(h, root, path)[Len(path)] = Child(h, Holder(h, root, path), Last(path))
  <1>1. Len(path) # 0 /\ Last(path) = path[Len(path)]
    BY PathEnds
  <1>2. Holder(h, root, path) = Walk(h, root, path)[Len(path) - 1]
    BY WalkToParent DEF Holder
  <1> QED
    BY <1>1, <1>2, WalkToParent DEF resolvePointerTarget

\* An outcome that fails is no value, nothing stands in it, and nothing can be
\* done to it, nor to what is void.
LEMMA InvalidIs ==
  /\ Invalid \notin AllTrees /\ ~IsVoid(Invalid)
  /\ \A tree \in AllTrees : tree.kind # "invalid"
  /\ \A token : IsVoid(ChildAt(Invalid, token)) /\ IsVoid(ChildAt(Void, token))
  /\ \A token, new : \A none \in {Invalid, Void} :
       Inserted(none, token, new) = Invalid /\ Deleted(none, token) = Invalid /\ Replaced(none, token, new) = Invalid
  <1>1. Invalid.kind = "invalid" /\ Void.kind = "void"
    BY DEF Invalid, Void, Scalar
  <1>2. Invalid \notin AllTrees /\ \A tree \in AllTrees : tree.kind # "invalid"
    <2>1. \A scalar \in ScalarValues : scalar.kind # "invalid"
      <3>1. Null.kind = "null"
        BY DEF Null, Scalar
      <3>2. \A scalar \in ScalarValues :
              scalar.kind \in {"void", "null", "boolean", "number", "string"}
        <4> HIDE DEF Void, Null
        <4> QED
          BY <1>1, <3>1 DEF ScalarValues
      <3> QED
        BY <3>2
    <2>2. \A tree \in AllTrees : tree.kind # "invalid"
      BY <2>1, AnyTree
    <2> QED
      BY <1>1, <2>2
  <1>3. ~IsVoid(Invalid)
    BY <1>1 DEF IsVoid
  <1>4. ASSUME NEW token PROVE ChildAt(Invalid, token) = Void /\ ChildAt(Void, token) = Void
    BY <1>1 DEF ChildAt
  <1>5. IsVoid(Void)
    BY VoidLinks
  <1>6. ASSUME NEW token, NEW new, NEW none \in {Invalid, Void}
        PROVE  /\ Inserted(none, token, new) = Invalid /\ Deleted(none, token) = Invalid
               /\ Replaced(none, token, new) = Invalid
    <2>1. none.kind # "object" /\ none.kind # "array"
      BY <1>1
    <2>2. Inserted(none, token, new) = Invalid
      BY <2>1 DEF Inserted
    <2>3. IsVoid(ChildAt(none, token))
      BY <1>4, <1>5
    <2> QED
      BY <2>2, <2>3 DEF Deleted, Replaced
  <1> QED
    BY <1>2, <1>3, <1>4, <1>5, <1>6

\* A slot denotes Void if it is Void.
LEMMA VoidShown ==
  ASSUME NEW h, NEW C, RegionsOK(h, C), NEW trees, Tells(h, trees, Draft(h, C)),
         NEW slot \in Links(Draft(h, C))
  PROVE  IsVoid(Denoted(trees, slot)) <=> IsVoid(slot)
  <1>1. CASE IsRef(slot)
    <2>1. slot.kind = "ref"
      BY <1>1 DEF IsRef
    <2>2. Denoted(trees, slot).kind = "object" \/ Denoted(trees, slot).kind = "array"
      BY <1>1, DraftShown
    <2> QED
      BY <2>1, <2>2 DEF IsVoid
  <1>2. CASE ~IsRef(slot)
    BY <1>2 DEF Denoted
  <1> QED
    BY <1>1, <1>2

\* What stands at a location, and what an edit of its parent comes to.
LEMMA ValueShown ==
  ASSUME NEW h, NEW C, RegionsOK(h, C), NEW trees, Tells(h, trees, Draft(h, C)),
         NEW root \in Links(Draft(h, C)), NEW path \in Seq(STRING)
  PROVE  LET there == Denoted(trees, Walk(h, root, path)[Len(path)])
         IN  /\ ValueAt(Denoted(trees, root), path)
                  = IF path # <<>> /\ IsVoid(there) THEN Invalid ELSE there
             /\ Walk(h, root, path)[Len(path)] \in Links(Draft(h, C)) /\ there \in AllTrees
  <1>1. Len(path) \in Nat
    OBVIOUS
  <1>2. Along(Denoted(trees, root), path)[Len(path)] = Denoted(trees, Walk(h, root, path)[Len(path)])
    BY <1>1, WalkShown
  <1>3. Walk(h, root, path)[Len(path)] \in Links(Draft(h, C))
    BY <1>1, WalkIs
  <1> QED
    BY <1>2, <1>3, DenotedIsTree DEF ValueAt, Tells

LEMMA ParentShown ==
  ASSUME NEW h, NEW C, RegionsOK(h, C), NEW trees, Tells(h, trees, Draft(h, C)),
         NEW root \in Links(Draft(h, C)), NEW path \in Seq(STRING), path # <<>>
  PROVE  LET parent == ParentAt(Denoted(trees, root), path)
             held   == Denoted(trees, Holder(h, root, path))
         IN  /\ held \in AllTrees
             /\ \A token, new :
                  /\ Inserted(parent, token, new) = Inserted(held, token, new)
                  /\ Deleted(parent, token) = Deleted(held, token)
                  /\ Replaced(parent, token, new) = Replaced(held, token, new)
  <1> DEFINE parent == ParentAt(Denoted(trees, root), path)
             held   == Denoted(trees, Holder(h, root, path))
  <1>1. Front(path) \in Seq(STRING)
    BY PathEnds
  <1>2. /\ parent = IF Front(path) # <<>> /\ IsVoid(held) THEN Invalid ELSE held
        /\ held \in AllTrees /\ Holder(h, root, path) \in Links(Draft(h, C))
    BY <1>1, ValueShown DEF ParentAt, Holder
  <1> HIDE DEF parent, held
  <1>3. CASE parent = held
    BY <1>2, <1>3 DEF parent, held
  <1>4. CASE parent = Invalid /\ IsVoid(held)
    <2>1. held = Void
      <3>1. held.kind = "void"
        BY <1>4 DEF IsVoid
      <3>2. held \in ScalarValues
        BY <1>2, <3>1, AnyTree
      <3> QED
        BY <1>4, <3>2, VoidIs
    <2> QED
      BY <1>2, <1>4, <2>1, InvalidIs DEF parent, held
  <1> QED
    BY <1>2, <1>3, <1>4

-----------------------------------------------------------------------------
(* Targets.                                                                *)

\* Does the pointer lead anywhere?
Hit(target) == target.ok

\* The target of a token in a node: what is there, or where it may be put in.
Existing(h, current, token)   == TargetIn(h, current, token, FALSE)
Insertable(h, current, token) == TargetIn(h, current, token, TRUE)

LEMMA TargetIs ==
  /\ \A p, n, v : /\ Hit(Target(p, n, v)) /\ Target(p, n, v).parent = p
                  /\ Target(p, n, v).place = n /\ Target(p, n, v).value = v
  /\ ~Hit(NoTarget)
  BY DEF Target, NoTarget, Hit

\* The same of a location.
ExistingAt(h, root, path)   == resolvePointerTarget(h, root, path, FALSE)
InsertableAt(h, root, path) == resolvePointerTarget(h, root, path, TRUE)

LEMMA TargetsAt ==
  ASSUME NEW h, NEW C, RegionsOK(h, C), NEW root \in Links(Draft(h, C)),
         NEW path \in Seq(STRING), path # <<>>
  PROVE  /\ ExistingAt(h, root, path) = Existing(h, Holder(h, root, path), Last(path))
         /\ InsertableAt(h, root, path) = Insertable(h, Holder(h, root, path), Last(path))
  <1>1. \A allow : resolvePointerTarget(h, root, path, allow)
                     = TargetIn(h, Holder(h, root, path), Last(path), allow)
    BY ResolveIs
  <1> QED
    BY <1>1, Zenon DEF ExistingAt, InsertableAt, Existing, Insertable

\* The target of a token that names what is there.
LEMMA ExistingTarget ==
  ASSUME NEW h, NEW C, RegionsOK(h, C), NEW current \in Links(Draft(h, C)), NEW segment \in STRING,
         NEW target, target = Existing(h, current, segment)
  PROVE  LET child  == Child(h, current, segment)
         IN  /\ Found(target) = child
             /\ Hit(target) /\ Exists(target) <=> ~IsVoid(child)
             /\ ~IsVoid(child) =>
                  /\ target.parent = current.ref /\ target.value = child
                  /\ IsRef(current) /\ current.ref \in Draft(h, C)
                  /\ h[current.ref].kind = "object" => target.place = segment
                  /\ h[current.ref].kind = "array" =>
                       /\ target.place = parseArrayIndex(segment)
                       /\ target.place + 1 \in 1..Len(h[current.ref].items)
  <1> DEFINE child  == Child(h, current, segment)
             r      == current.ref
  <1>0. IsObject(h, current) \/ IsArray(h, current) => IsRef(current)
    <2>1. CASE ~IsRef(current)
      <3>1. current \in ScalarValues
        BY <2>1, LinkOrScalar
      <3>2. current.kind # "object" /\ current.kind # "array"
        BY <3>1, ScalarKind DEF IsContainer
      <3> QED
        BY <2>1, <3>2 DEF IsObject, IsArray, KindOf
    <2> QED
      BY <2>1
  <1>1. CASE IsObject(h, current)
    <2>1. /\ r \in Draft(h, C) /\ h[r].kind = "object"
          /\ target = Target(r, segment, child) /\ child = GetField(h[r].fields, segment)
      BY <1>1, DraftNode DEF Existing, TargetIn, Child
    <2> HIDE DEF child, r
    <2>2. Hit(target) /\ target.parent = r /\ target.place = segment /\ target.value = child
      BY <2>1, TargetIs
    <2> QED
      BY <1>0, <1>1, <2>1, <2>2 DEF Found, Hit, Exists, r, child
  <1>2. CASE ~IsObject(h, current) /\ IsArray(h, current)
    <2> DEFINE items == h[r].items
               index == IF segment = "-" THEN Len(items) ELSE parseArrayIndex(segment)
               at    == parseArrayIndex(segment)
    <2>1. r \in Draft(h, C) /\ h[r].kind = "array" /\ items \in Seq(Links(Draft(h, C)))
      BY <1>2, DraftNode
    <2>2. at \in Int /\ Len(items) \in Nat /\ DOMAIN items = 1..Len(items)
      BY <2>1, IndexIsInt
    <2>3. segment = "-" => at + 1 \notin DOMAIN items
      BY <2>2 DEF parseArrayIndex, NoIndex
    <2>4. target = IF index + 1 \in DOMAIN items THEN Target(r, index, items[index + 1])
                   ELSE NoTarget
      BY <1>2 DEF Existing, TargetIn
    <2>5. child = IF at + 1 \in DOMAIN items THEN items[at + 1] ELSE Void
      BY <1>2 DEF Child
    <2> HIDE DEF child, r, items, at
    <2>6. CASE at + 1 \in DOMAIN items
      <3>1. target = Target(r, at, child)
        BY <2>3, <2>4, <2>5, <2>6 DEF at
      <3>2. Hit(target) /\ target.parent = r /\ target.place = at /\ target.value = child
        BY <3>1, TargetIs
      <3> QED
        BY <1>0, <1>2, <2>1, <2>2, <2>6, <3>2 DEF Found, Hit, Exists, r, child, at, items
    <2>7. CASE at + 1 \notin DOMAIN items
      <3>1. index + 1 \notin DOMAIN items
        BY <2>2, <2>7 DEF at
      <3>2. target = NoTarget /\ child = Void
        BY <2>4, <2>5, <2>7, <3>1
      <3> QED
        BY <3>2, TargetIs, VoidLinks DEF Found, Hit, child
    <2> QED
      BY <2>6, <2>7
  <1>3. CASE ~IsObject(h, current) /\ ~IsArray(h, current)
    <2>1. target = NoTarget /\ child = Void
      BY <1>3 DEF Existing, TargetIn, Child
    <2> HIDE DEF child
    <2> QED
      BY <2>1, TargetIs, VoidLinks DEF Found, Hit, child
  <1> QED
    BY <1>1, <1>2, <1>3

\* The target of a token where something may be put in.
LEMMA AddTarget ==
  ASSUME NEW h, NEW C, RegionsOK(h, C), NEW current \in Links(Draft(h, C)), NEW segment \in STRING,
         NEW target, target = Insertable(h, current, segment)
  PROVE  LET items  == h[current.ref].items
             index  == parseArrayIndex(segment)
         IN  /\ Hit(target) <=> (IsObject(h, current) \/ (IsArray(h, current)
                                   /\ (segment = "-" \/ index \in 0..Len(items))))
             /\ Hit(target) =>
                  /\ target.parent = current.ref /\ IsRef(current) /\ current.ref \in Draft(h, C)
                  /\ h[current.ref].kind = "object" => target.place = segment
                  /\ h[current.ref].kind = "array" =>
                       target.place = IF segment = "-" THEN Len(items) ELSE index
  <1> DEFINE r      == current.ref
  <1>0. IsObject(h, current) \/ IsArray(h, current) => IsRef(current)
    <2>1. CASE ~IsRef(current)
      <3>1. current \in ScalarValues
        BY <2>1, LinkOrScalar
      <3>2. current.kind # "object" /\ current.kind # "array"
        BY <3>1, ScalarKind DEF IsContainer
      <3> QED
        BY <2>1, <3>2 DEF IsObject, IsArray, KindOf
    <2> QED
      BY <2>1
  <1>1. CASE IsObject(h, current)
    <2>1. /\ r \in Draft(h, C) /\ h[r].kind = "object"
          /\ target = Target(r, segment, GetField(h[r].fields, segment))
      BY <1>1, DraftNode DEF Insertable, TargetIn
    <2> HIDE DEF r
    <2>2. Hit(target) /\ target.parent = r /\ target.place = segment
      BY <2>1, TargetIs
    <2> QED
      BY <1>0, <1>1, <2>1, <2>2 DEF r
  <1>2. CASE ~IsObject(h, current) /\ IsArray(h, current)
    <2> DEFINE items == h[r].items
               at    == parseArrayIndex(segment)
               index == IF segment = "-" THEN Len(items) ELSE at
    <2>1. r \in Draft(h, C) /\ h[r].kind = "array" /\ items \in Seq(Links(Draft(h, C)))
      BY <1>2, DraftNode
    <2>2. at \in Int /\ Len(items) \in Nat /\ DOMAIN items = 1..Len(items)
      BY <2>1, IndexIsInt
    <2>3. target = IF index + 1 \in DOMAIN items THEN Target(r, index, items[index + 1])
                   ELSE IF index = Len(items) THEN Target(r, index, Void) ELSE NoTarget
      BY <1>2 DEF Insertable, TargetIn
    <2>4. index \in Int /\ (segment = "-" \/ at \in 0..Len(items) <=> index \in 0..Len(items))
      <3> HIDE DEF items, at
      <3> QED
        BY <2>2
    <2> HIDE DEF r, items, at
    <2> HIDE DEF index
    <2>5. CASE index \in 0..Len(items)
      <3>1. index + 1 \in DOMAIN items \/ index = Len(items)
        <4>1. index \in Nat /\ index <= Len(items) /\ Len(items) \in Nat
          BY <2>2, <2>5
        <4>2. index = Len(items) \/ index + 1 \in 1..Len(items)
          BY <4>1
        <4> QED
          BY <2>2, <4>2
      <3>2. \E v : target = Target(r, index, v)
        BY <2>3, <3>1
      <3>3. Hit(target) /\ target.parent = r /\ target.place = index
        BY <3>2, TargetIs
      <3>4. segment = "-" \/ at \in 0..Len(items)
        BY <2>4, <2>5
      <3> QED
        BY <1>0, <1>2, <2>1, <3>3, <3>4 DEF r, at, items, index
    <2>6. CASE index \notin 0..Len(items)
      <3>1. index + 1 \notin DOMAIN items /\ index # Len(items)
        <4>1. index \in Int /\ Len(items) \in Nat /\ ~(0 <= index /\ index <= Len(items))
          BY <2>2, <2>4, <2>6
        <4>2. index # Len(items) /\ index + 1 \notin 1..Len(items)
          BY <4>1
        <4> QED
          BY <2>2, <4>2
      <3>2. target = NoTarget
        BY <2>3, <3>1
      <3>3. ~(segment = "-" \/ at \in 0..Len(items))
        BY <2>4, <2>6
      <3> QED
        BY <1>2, <3>2, <3>3, TargetIs DEF r, at, items
    <2> QED
      BY <2>5, <2>6
  <1>3. CASE ~IsObject(h, current) /\ ~IsArray(h, current)
    <2>1. target = NoTarget
      BY <1>3 DEF Insertable, TargetIn
    <2> QED
      BY <1>3, <2>1, TargetIs
  <1> QED
    BY <1>1, <1>2, <1>3

-----------------------------------------------------------------------------
(* What is done to the parent of a location, in the nodes and in the tree. *)

LEMMA InsertedIs ==
  ASSUME NEW held, NEW token, NEW new
  PROVE  LET at == parseArrayIndex(token)
         IN  /\ held.kind = "object" => Inserted(held, token, new) = Object(setField(held.fields, token, new))
             /\ held.kind = "array" /\ token = "-" => Inserted(held, token, new) = Array(Append(held.items, new))
             /\ held.kind = "array" /\ token # "-" /\ at \in 0..Len(held.items) =>
                  Inserted(held, token, new) = Array(InsertAt(held.items, at + 1, new))
             /\ held.kind = "array" /\ token # "-" /\ at \notin 0..Len(held.items) =>
                  Inserted(held, token, new) = Invalid
             /\ held.kind # "array" /\ held.kind # "object" => Inserted(held, token, new) = Invalid
  <1> DEFINE at == parseArrayIndex(token)
  <1>1. token = "-" => at \notin 0..Len(held.items)
    <2>1. token = "-" => at = -1
      BY DEF parseArrayIndex, NoIndex
    <2> HIDE DEF at
    <2> QED
      BY <2>1
  <1> HIDE DEF at
  <1>2. CASE held.kind = "object"
    BY <1>2 DEF Inserted, at
  <1>3. CASE held.kind = "array" /\ token = "-"
    BY <1>1, <1>3 DEF Inserted, at
  <1>4. CASE held.kind = "array" /\ token # "-" /\ at \in 0..Len(held.items)
    BY <1>4 DEF Inserted, at
  <1>5. CASE held.kind = "array" /\ token # "-" /\ at \notin 0..Len(held.items)
    BY <1>5 DEF Inserted, at
  <1>6. CASE held.kind # "array" /\ held.kind # "object"
    BY <1>6 DEF Inserted
  <1> QED
    BY <1>2, <1>3, <1>4, <1>5, <1>6 DEF at

LEMMA DeletedIs ==
  ASSUME NEW held, NEW token, NEW new
  PROVE  LET at    == parseArrayIndex(token)
             there == ChildAt(held, token)
         IN  /\ IsVoid(there) => Deleted(held, token) = Invalid /\ Replaced(held, token, new) = Invalid
             /\ ~IsVoid(there) /\ held.kind = "object" =>
                  /\ Deleted(held, token) = Object(removeField(held.fields, token))
                  /\ Replaced(held, token, new) = Object(setField(held.fields, token, new))
             /\ ~IsVoid(there) /\ held.kind # "object" =>
                  /\ Deleted(held, token) = Array(RemoveAt(held.items, at + 1))
                  /\ Replaced(held, token, new) = Array([held.items EXCEPT ![at + 1] = new])
  BY DEF Deleted, Replaced, ReplaceChild

LEMMA InsertedShown ==
  ASSUME NEW h, NEW C, RegionsOK(h, C), NEW trees, Tells(h, trees, Draft(h, C)),
         NEW current \in Links(Draft(h, C)), NEW token \in STRING, NEW slot \in Links(Draft(h, C))
  PROVE  LET held  == Denoted(trees, current)
             new   == Denoted(trees, slot)
             items == h[current.ref].items
             place == IF token = "-" THEN Len(items) ELSE parseArrayIndex(token)
             fits  == IsArray(h, current) /\ (token = "-" \/ parseArrayIndex(token) \in 0..Len(items))
         IN  /\ IsObject(h, current) =>
                  Inserted(held, token, new)
                    = Object(FieldsShown(trees, setField(h[current.ref].fields, token, slot)))
             /\ fits =>
                  /\ place + 1 \in 1..Len(items) + 1
                  /\ Inserted(held, token, new)
                       = Array(ItemsShown(trees, InsertAt(items, place + 1, slot)))
             /\ ~IsObject(h, current) /\ ~fits => Inserted(held, token, new) = Invalid
  <1> DEFINE D     == Draft(h, C)
             held  == Denoted(trees, current)
             new   == Denoted(trees, slot)
             node  == h[current.ref]
             items == node.items
             at    == parseArrayIndex(token)
             place == IF token = "-" THEN Len(items) ELSE at
             fits  == IsArray(h, current) /\ (token = "-" \/ at \in 0..Len(items))
  <1>1. trees \in [D -> AllTrees]
    BY DEF Tells
  <1>2. held.kind = "object" <=> IsObject(h, current)
    BY DraftShown
  <1>3. held.kind = "array" <=> IsArray(h, current)
    BY DraftShown
  <1>4. IsObject(h, current) =>
          /\ node.fields \in Seq(FieldsOf(STRING, Links(D))) /\ held = Object(FieldsShown(trees, node.fields))
    BY DraftShown
  <1>5. IsArray(h, current) => items \in Seq(Links(D)) /\ held = Array(ItemsShown(trees, items))
    BY DraftShown
  <1>6. CASE IsObject(h, current)
    <2>1. held.kind = "object" /\ held.fields = FieldsShown(trees, node.fields)
      BY <1>4, <1>6 DEF Object
    <2>2. FieldsShown(trees, setField(node.fields, token, slot)) = setField(held.fields, token, new)
      <3> DEFINE fields == node.fields
      <3>1. fields \in Seq(FieldsOf(STRING, Links(D)))
        BY <1>4, <1>6
      <3> HIDE DEF fields, D
      <3>2. FieldsShown(trees, setField(fields, token, slot))
              = setField(FieldsShown(trees, fields), token, Denoted(trees, slot))
        BY <1>1, <3>1, FieldsEditedShown DEF D
      <3> QED
        BY <2>1, <3>2 DEF fields
    <2>3. Inserted(held, token, new) = Object(setField(held.fields, token, new))
      <3> HIDE DEF held, new
      <3> QED
        BY <2>1 DEF Inserted
    <2>4. ~fits
      BY <1>3, <2>1
    <2> QED
      BY <1>6, <2>2, <2>3, <2>4
  <1>7. CASE fits
    <2>1. /\ held.kind = "array" /\ held.items = ItemsShown(trees, items) /\ items \in Seq(Links(D))
      BY <1>5, <1>7 DEF Array
    <2>2. Len(items) \in Nat /\ Len(held.items) = Len(items)
      BY <1>1, <2>1, ShownParts
    <2>3. at \in Int
      BY IndexIsInt
    <2>4. place \in 0..Len(items) /\ place + 1 \in 1..Len(items) + 1
      <3> HIDE DEF at, items
      <3> QED
        BY <1>7, <2>2, <2>3
    <2>5. /\ ItemsShown(trees, InsertAt(items, place + 1, slot)) = InsertAt(held.items, place + 1, new)
          /\ ItemsShown(trees, InsertAt(items, Len(items) + 1, slot)) = Append(held.items, new)
      <3> HIDE DEF items, place, D
      <3> QED
        BY <1>1, <2>1, <2>4, ItemsEditedShown DEF D
    <2>6. CASE token = "-"
      <3>1. Inserted(held, token, new) = Array(Append(held.items, new))
        <4> HIDE DEF held, new
        <4> QED
          BY <2>1, <2>6, InsertedIs
      <3>2. place = Len(items)
        BY <2>6
      <3> QED
        BY <1>2, <1>7, <2>1, <2>4, <2>5, <3>1, <3>2
    <2>7. CASE token # "-"
      <3>1. at \in 0..Len(held.items) /\ place = at
        BY <1>7, <2>2, <2>7
      <3>2. Inserted(held, token, new) = Array(InsertAt(held.items, at + 1, new))
        <4> HIDE DEF held, new
        <4> QED
          BY <2>1, <2>7, <3>1, InsertedIs
      <3> QED
        BY <1>2, <1>7, <2>1, <2>4, <2>5, <3>1, <3>2
    <2> QED
      BY <2>6, <2>7
  <1>8. CASE ~IsObject(h, current) /\ ~fits
    <2>1. held.kind # "object"
      BY <1>2, <1>8
    <2>2. CASE held.kind = "array"
      <3>1. held.items = ItemsShown(trees, items) /\ items \in Seq(Links(D))
        BY <1>3, <1>5, <2>2 DEF Array
      <3>2. Len(held.items) = Len(items)
        BY <1>1, <3>1, ShownParts
      <3>3. token # "-" /\ at \notin 0..Len(held.items)
        BY <1>3, <1>8, <2>2, <3>2
      <3> HIDE DEF held, new, items, fits
      <3>4. Inserted(held, token, new) = Invalid
        BY <2>2, <3>3, InsertedIs
      <3> QED
        BY <1>8, <3>4 DEF held, new, items, fits
    <2>3. CASE held.kind # "array"
      <3> HIDE DEF held, new, items, fits
      <3>1. Inserted(held, token, new) = Invalid
        BY <2>1, <2>3, InsertedIs
      <3> QED
        BY <1>8, <3>1 DEF held, new, items, fits
    <2> QED
      BY <2>2, <2>3
  <1> QED
    BY <1>6, <1>7, <1>8

\* The same for what is taken out, and for what is put in its place.
LEMMA ChangedShown ==
  ASSUME NEW h, NEW C, RegionsOK(h, C), NEW trees, Tells(h, trees, Draft(h, C)),
         NEW current \in Links(Draft(h, C)), NEW token \in STRING, NEW slot \in Links(Draft(h, C))
  PROVE  LET held  == Denoted(trees, current)
             new   == Denoted(trees, slot)
             node  == h[current.ref]
             place == parseArrayIndex(token)
             there == Child(h, current, token)
         IN  /\ IsVoid(there) => Deleted(held, token) = Invalid /\ Replaced(held, token, new) = Invalid
             /\ ~IsVoid(there) => IsObject(h, current) \/ IsArray(h, current)
             /\ ~IsVoid(there) /\ IsObject(h, current) =>
                  /\ Deleted(held, token) = Object(FieldsShown(trees, removeField(node.fields, token)))
                  /\ Replaced(held, token, new) = Object(FieldsShown(trees, setField(node.fields, token, slot)))
             /\ ~IsVoid(there) /\ IsArray(h, current) =>
                  /\ place + 1 \in 1..Len(node.items)
                  /\ Deleted(held, token) = Array(ItemsShown(trees, RemoveAt(node.items, place + 1)))
                  /\ Replaced(held, token, new)
                       = Array(ItemsShown(trees, [node.items EXCEPT ![place + 1] = slot]))
  <1> DEFINE D     == Draft(h, C)
             held  == Denoted(trees, current)
             new   == Denoted(trees, slot)
             node  == h[current.ref]
             items == node.items
             place == parseArrayIndex(token)
             there == Child(h, current, token)
  <1>1. trees \in [D -> AllTrees]
    BY DEF Tells
  <1>2. held.kind = "object" <=> IsObject(h, current)
    BY DraftShown
  <1>3. held.kind = "array" <=> IsArray(h, current)
    BY DraftShown
  <1>4. IsObject(h, current) =>
          /\ node.fields \in Seq(FieldsOf(STRING, Links(D))) /\ held = Object(FieldsShown(trees, node.fields))
    BY DraftShown
  <1>5. IsArray(h, current) => items \in Seq(Links(D)) /\ held = Array(ItemsShown(trees, items))
    BY DraftShown
  <1>6. there \in Links(D)
    BY ChildInDraft
  <1>7. IsVoid(ChildAt(held, token)) <=> IsVoid(there)
    <2> HIDE DEF there, held, items, place, new, node, D
    <2>1. ChildAt(held, token) = Denoted(trees, there)
      <3>1. \A any : ChildAt(Denoted(trees, current), any) = Denoted(trees, Child(h, current, any))
        BY ChildShown
      <3> QED
        BY <3>1 DEF there, held
    <2> QED
      BY <1>6, <2>1, VoidShown DEF D
  <1>8. CASE IsVoid(there)
    <2> HIDE DEF there, held, new, items, place, node, D
    <2>1. Deleted(held, token) = Invalid /\ Replaced(held, token, new) = Invalid
      BY <1>7, <1>8, DeletedIs
    <2> QED
      BY <1>8, <2>1 DEF there, held, new
  <1>9. CASE ~IsVoid(there)
    <2>1. IsObject(h, current) \/ IsArray(h, current)
      BY <1>9, VoidLinks DEF Child
    <2>2. CASE IsObject(h, current)
      <3>1. held.kind = "object" /\ held.fields = FieldsShown(trees, node.fields)
        BY <1>4, <2>2 DEF Object
      <3>2. /\ FieldsShown(trees, setField(node.fields, token, slot)) = setField(held.fields, token, new)
            /\ FieldsShown(trees, removeField(node.fields, token)) = removeField(held.fields, token)
        <4> DEFINE fields == node.fields
        <4>1. fields \in Seq(FieldsOf(STRING, Links(D)))
          BY <1>4, <2>2
        <4> HIDE DEF fields, D
        <4>2. /\ FieldsShown(trees, setField(fields, token, slot))
                   = setField(FieldsShown(trees, fields), token, Denoted(trees, slot))
              /\ FieldsShown(trees, removeField(fields, token)) = removeField(FieldsShown(trees, fields), token)
          BY <1>1, <4>1, FieldsEditedShown DEF D
        <4> QED
          BY <3>1, <4>2 DEF fields
      <3>3. /\ Deleted(held, token) = Object(removeField(held.fields, token))
            /\ Replaced(held, token, new) = Object(setField(held.fields, token, new))
        <4> HIDE DEF held, new, there
        <4> QED
          BY <1>7, <1>9, <3>1, DeletedIs
      <3>4. ~IsArray(h, current)
        BY <1>3, <3>1
      <3> HIDE DEF held, new, there, node
      <3> QED
        BY <1>9, <2>2, <3>2, <3>3, <3>4 DEF held, new, there, node
    <2>3. CASE IsArray(h, current)
      <3>1. /\ held.kind = "array" /\ held.items = ItemsShown(trees, items) /\ items \in Seq(Links(D))
            /\ ~IsObject(h, current)
        BY <1>2, <1>5, <2>3 DEF Array
      <3>2. place + 1 \in DOMAIN items
        BY <1>9, <2>3, <3>1, VoidLinks DEF Child
      <3>3. place + 1 \in 1..Len(items)
        <4> HIDE DEF place, items
        <4> QED
          BY <3>1, <3>2
      <3>4. /\ ItemsShown(trees, RemoveAt(items, place + 1)) = RemoveAt(held.items, place + 1)
            /\ ItemsShown(trees, [items EXCEPT ![place + 1] = slot]) = [held.items EXCEPT ![place + 1] = new]
        <4> HIDE DEF items, place, held, new
        <4>1. slot \in Links(D)
          OBVIOUS
        <4> HIDE DEF D
        <4> DEFINE k == place + 1
        <4>2. k \in 1..Len(items)
          BY <3>3
        <4> HIDE DEF k
        <4>3. items \in Seq(Links(D))
          BY <3>1
        <4>4. ItemsShown(trees, RemoveAt(items, k)) = RemoveAt(ItemsShown(trees, items), k)
          BY <1>1, <4>2, <4>3, ItemsCutShown
        <4>5. ItemsShown(trees, PutItem(items, k, slot))
                = PutItem(ItemsShown(trees, items), k, Denoted(trees, slot))
          BY <1>1, <4>1, <4>2, <4>3, ItemsPutShown
        <4>6. held.items = ItemsShown(trees, items)
          BY <3>1
        <4>7. new = Denoted(trees, slot)
          BY DEF new
        <4>8. /\ ItemsShown(trees, RemoveAt(items, k)) = RemoveAt(held.items, k)
              /\ ItemsShown(trees, [items EXCEPT ![k] = slot]) = [held.items EXCEPT ![k] = new]
          BY <4>4, <4>5, <4>6, <4>7, Zenon DEF PutItem
        <4> QED
          BY <4>8 DEF k
      <3>5. /\ Deleted(held, token) = Array(RemoveAt(held.items, place + 1))
            /\ Replaced(held, token, new) = Array([held.items EXCEPT ![place + 1] = new])
        <4> HIDE DEF held, new, there
        <4> QED
          BY <1>7, <1>9, <3>1, DeletedIs
      <3> HIDE DEF held, new, there, node
      <3> QED
        BY <1>9, <2>3, <3>1, <3>3, <3>4, <3>5 DEF held, new, there, node
    <2> QED
      BY <2>1, <2>2, <2>3
  <1> QED
    BY <1>8, <1>9

-----------------------------------------------------------------------------
(* An operation on the draft.                                              *)

\* A heap with more nodes, where those of the draft are as they were.
SameDraft(h, k, C) ==
  Draft(h, C) \subseteq Draft(k, C) /\ \A r \in Draft(h, C) : k[r] = h[r]

\* A pointer leads where it led before a value was cloned.
LEMMA ResolvedLater ==
  ASSUME NEW h, NEW k, NEW C, RegionsOK(h, C), RegionsOK(k, C), SameDraft(h, k, C),
         NEW root \in Links(Draft(h, C)), NEW path \in Seq(STRING), NEW allowAppend
  PROVE  resolvePointerTarget(k, root, path, allowAppend)
           = resolvePointerTarget(h, root, path, allowAppend)
  <1> DEFINE V == Links(Draft(h, C))
             c == Walk(h, root, path)
             d == Walk(k, root, path)
             T == {n \in Nat : d[n] = c[n]}
             last == Len(path)
  <1>1. ASSUME NEW current \in V, NEW segment
        PROVE  /\ Child(k, current, segment) = Child(h, current, segment)
               /\ TargetIn(k, current, segment, allowAppend) = TargetIn(h, current, segment, allowAppend)
    <2>1. CASE IsRef(current)
      <3>1. k[current.ref] = h[current.ref]
        BY <2>1, LinkOrScalar DEF SameDraft
      <3> QED
        BY <3>1 DEF Child, TargetIn, IsObject, IsArray, KindOf
    <2>2. CASE ~IsRef(current)
      <3>1. current \in ScalarValues
        BY <2>2, LinkOrScalar
      <3>2. current.kind # "object" /\ current.kind # "array"
        BY <3>1, ScalarKind DEF IsContainer
      <3> QED
        BY <2>2, <3>2 DEF Child, TargetIn, IsObject, IsArray, KindOf
    <2> QED
      BY <2>1, <2>2
  <1>2. c \in [Nat -> V] /\ c[0] = root /\ \A n \in Nat : c[n + 1] = Child(h, c[n], path[n + 1])
    BY WalkIs
  <1>3. root \in Links(Draft(k, C))
    BY DEF SameDraft, Links
  <1>4. d[0] = root /\ \A n \in Nat : d[n + 1] = Child(k, d[n], path[n + 1])
    BY <1>3, WalkIs
  <1> HIDE DEF c, d, V
  <1>5. 0 \in T
    BY <1>2, <1>4
  <1>6. ASSUME NEW n \in Nat, n \in T PROVE n + 1 \in T
    <2>1. c[n] \in V /\ d[n] = c[n]
      BY <1>2, <1>6
    <2>2. Child(k, d[n], path[n + 1]) = Child(h, c[n], path[n + 1])
      BY <1>1, <2>1
    <2>3. d[n + 1] = c[n + 1]
      BY <1>2, <1>4, <2>2
    <2> QED
      BY <2>3
  <1> HIDE DEF T
  <1>7. \A n \in Nat : n \in T
    BY <1>5, <1>6, Induction
  <1>8. \A n \in Nat : d[n] = c[n] /\ c[n] \in V
    BY <1>2, <1>7 DEF T
  <1>9. last \in Nat
    OBVIOUS
  <1>10. CASE last = 0
    <2>1. /\ resolvePointerTarget(k, root, path, allowAppend) = NoTarget
          /\ resolvePointerTarget(h, root, path, allowAppend) = NoTarget
      BY <1>10, Zenon DEF resolvePointerTarget
    <2> QED
      BY <2>1
  <1>11. CASE last # 0
    <2>1. d[last - 1] = c[last - 1] /\ c[last - 1] \in V
      BY <1>8, <1>9, <1>11
    <2>2. TargetIn(k, d[last - 1], path[last], allowAppend) = TargetIn(h, c[last - 1], path[last], allowAppend)
      <3> HIDE DEF last
      <3> QED
        BY <1>1, <2>1
    <2> QED
      BY <1>11, <2>2 DEF resolvePointerTarget, c, d
  <1> QED
    BY <1>10, <1>11

LEMMA NodeTold ==
  ASSUME NEW h, NEW C, RegionsOK(h, C), NEW root, RootOK(h, C, root),
         NEW trees, Tells(h, trees, Draft(h, C)), NEW path \in Seq(STRING), path # <<>>,
         IsRef(Holder(h, root, path)), NEW r, r = Holder(h, root, path).ref,
         NEW slot, RootOK(h, C, slot), IsRef(slot) => slot # root,
         NEW node \in NodesWith(Links(Draft(h, C))),
         Rearranged(Parts(h[r]), Parts(node), slot)
  PROVE  LET new == [h EXCEPT ![r] = node]
         IN  EditTold(h, C, trees, root, r, slot, new,
                      PutAt(Denoted(trees, root), Front(path), TreeAt(new, trees, r)))
  <1>1. Front(path) \in Seq(STRING)
    BY PathEnds
  <1>2. r = Walk(h, root, Front(path))[Len(Front(path))].ref
        /\ IsRef(Walk(h, root, Front(path))[Len(Front(path))])
    BY DEF Holder
  <1> DEFINE front == Front(path)
  <1> HIDE DEF front
  <1>3. /\ front \in Seq(STRING) /\ IsRef(Walk(h, root, front)[Len(front)])
        /\ r = Walk(h, root, front)[Len(front)].ref
    BY <1>1, <1>2 DEF front
  <1>5. EditTold(h, C, trees, root, r, slot, [h EXCEPT ![r] = node],
                 PutAt(Denoted(trees, root), front, TreeAt([h EXCEPT ![r] = node], trees, r)))
    BY <1>3, EditTells
  <1> QED
    BY <1>5 DEF front

LEMMA ItemsTold ==
  ASSUME NEW h, NEW C, RegionsOK(h, C), NEW root, RootOK(h, C, root),
         NEW trees, Tells(h, trees, Draft(h, C)), NEW path \in Seq(STRING), path # <<>>,
         IsRef(Holder(h, root, path)), NEW r \in Draft(h, C), r = Holder(h, root, path).ref,
         h[r].kind = "array",
         NEW slot, RootOK(h, C, slot), IsRef(slot) => slot # root,
         NEW items \in Seq(Links(Draft(h, C))), Rearranged(h[r].items, items, slot)
  PROVE  EditTold(h, C, trees, root, r, slot, EditItems(h, r, items),
                  PutAt(Denoted(trees, root), Front(path), Array(ItemsShown(trees, items))))
  <1> DEFINE V == Links(Draft(h, C))
             node == [h[r] EXCEPT !.items = items]
             new  == [h EXCEPT ![r] = node]
  <1>1. h[r] \in ArrayNodes(V) /\ Parts(h[r]) = h[r].items /\ r \in DOMAIN h
    BY SlotsOfDraft, NodeShape
  <1>2. node \in NodesWith(V) /\ node.kind = "array" /\ Parts(node) = items
    BY <1>1, ItemsEdited
  <1>3. EditItems(h, r, items) = new
    BY DEF EditItems
  <1>4. trees \in [Draft(h, C) -> AllTrees]
    BY DEF Tells
  <1> HIDE DEF node
  <1>5. new[r] = node
    BY <1>1
  <1>6. TreeAt(new, trees, r) = Array(ItemsShown(trees, items))
    <2> HIDE DEF new
    <2>1. new[r].kind = "array" /\ new[r] \in NodesWith(V)
      BY <1>2, <1>5
    <2>2. Parts(new[r]) = new[r].items
      BY <2>1, NodeShape
    <2>3. new[r].items = items
      BY <1>2, <1>5, <2>2
    <2>4. TreeAt(new, trees, r) = Array(ItemsShown(trees, new[r].items))
      BY <1>4, <2>1, Shown
    <2> QED
      BY <2>3, <2>4
  <1>7. Rearranged(Parts(h[r]), Parts(node), slot)
    BY <1>1, <1>2
  <1>8. EditTold(h, C, trees, root, r, slot, new,
                 PutAt(Denoted(trees, root), Front(path), TreeAt(new, trees, r)))
    BY <1>2, <1>7, NodeTold
  <1> QED
    BY <1>3, <1>6, <1>8

LEMMA FieldsTold ==
  ASSUME NEW h, NEW C, RegionsOK(h, C), NEW root, RootOK(h, C, root),
         NEW trees, Tells(h, trees, Draft(h, C)), NEW path \in Seq(STRING), path # <<>>,
         IsRef(Holder(h, root, path)), NEW r \in Draft(h, C), r = Holder(h, root, path).ref,
         h[r].kind = "object",
         NEW slot, RootOK(h, C, slot), IsRef(slot) => slot # root,
         NEW fields \in Seq(FieldsOf(STRING, Links(Draft(h, C)))),
         Rearranged(Parts(h[r]), ValuesIn(fields), slot)
  PROVE  EditTold(h, C, trees, root, r, slot, EditFields(h, r, fields),
                  PutAt(Denoted(trees, root), Front(path), Object(FieldsShown(trees, fields))))
  <1> DEFINE V == Links(Draft(h, C))
             node == [h[r] EXCEPT !.fields = fields]
             new  == [h EXCEPT ![r] = node]
  <1>1. h[r] \in ObjectNodes(V) /\ r \in DOMAIN h
    BY SlotsOfDraft, NodeShape
  <1>2. /\ node \in NodesWith(V) /\ node.kind = "object" /\ node.fields = fields
        /\ Parts(node) = ValuesIn(fields)
    BY <1>1, FieldsEdited
  <1>3. EditFields(h, r, fields) = new
    BY DEF EditFields
  <1>4. trees \in [Draft(h, C) -> AllTrees]
    BY DEF Tells
  <1> HIDE DEF node
  <1>5. new[r] = node
    BY <1>1
  <1>6. TreeAt(new, trees, r) = Object(FieldsShown(trees, fields))
    <2> HIDE DEF new
    <2>1. new[r].kind = "object" /\ new[r] \in NodesWith(V) /\ new[r].fields = fields
      BY <1>2, <1>5
    <2>2. TreeAt(new, trees, r) = Object(FieldsShown(trees, new[r].fields))
      BY <1>4, <2>1, Shown
    <2> QED
      BY <2>1, <2>2
  <1>7. Rearranged(Parts(h[r]), Parts(node), slot)
    BY <1>2
  <1>8. EditTold(h, C, trees, root, r, slot, new,
                 PutAt(Denoted(trees, root), Front(path), TreeAt(new, trees, r)))
    BY <1>2, <1>7, NodeTold
  <1> QED
    BY <1>3, <1>6, <1>8

\* What an operation comes to: a failure, or a draft that denotes the value.
OpTold(result, C, value) ==
  IF value = Invalid THEN ~result.ok
  ELSE /\ result.ok
       /\ \E more : /\ Tells(result.heap, more, Draft(result.heap, C))
                    /\ Denoted(more, result.slot) = value

LEMMA EditDone ==
  ASSUME NEW h, NEW C, NEW trees, NEW root, NEW path, NEW r, NEW slot, NEW new, NEW parent \in AllTrees,
         EditTold(h, C, trees, root, r, slot, new, PutAt(Denoted(trees, root), Front(path), parent)),
         OpOK(h, C, Result(new, root))
  PROVE  LET value == PutParent(Denoted(trees, root), path, parent)
         IN  OpTold(Result(new, root), C, value) /\ EditTold(h, C, trees, root, r, slot, new, value)
  <1> DEFINE value == PutParent(Denoted(trees, root), path, parent)
             result == Result(new, root)
  <1>1. value = PutAt(Denoted(trees, root), Front(path), parent)
    BY InvalidIs DEF PutParent
  <1>2. result.ok /\ result.heap = new /\ result.slot = root
    BY DEF Result
  <1>3. root \in Links(Draft(new, C))
    BY <1>2 DEF OpOK, RootOK
  <1> HIDE DEF value, result
  <1>4. PICK more : Tells(new, more, Draft(new, C)) /\ Denoted(more, root) = value
    BY <1>1 DEF EditTold
  <1>5. value \in AllTrees
    BY <1>3, <1>4, DenotedIsTree DEF Tells
  <1>6. OpTold(result, C, value)
    BY <1>2, <1>4, <1>5, InvalidIs DEF OpTold
  <1> QED
    BY <1>1, <1>6 DEF value, result

\* The items of an array in the draft replaced by others.
LEMMA ItemsDone ==
  ASSUME NEW h, NEW C, RegionsOK(h, C), NEW root, RootOK(h, C, root),
         NEW trees, Tells(h, trees, Draft(h, C)), NEW path \in Seq(STRING), path # <<>>,
         IsRef(Holder(h, root, path)), NEW r \in Draft(h, C), r = Holder(h, root, path).ref,
         h[r].kind = "array",
         NEW slot, RootOK(h, C, slot), IsRef(slot) => slot # root,
         NEW items \in Seq(Links(Draft(h, C))), Rearranged(h[r].items, items, slot)
  PROVE  LET new   == EditItems(h, r, items)
             value == PutParent(Denoted(trees, root), path, Array(ItemsShown(trees, items)))
         IN  OpTold(Result(new, root), C, value) /\ EditTold(h, C, trees, root, r, slot, new, value)
  <1> DEFINE new    == EditItems(h, r, items)
             parent == Array(ItemsShown(trees, items))
  <1>1. trees \in [Draft(h, C) -> AllTrees]
    BY DEF Tells
  <1>2. parent \in AllTrees
    BY <1>1, ShownParts, AnyTree
  <1>3. EditTold(h, C, trees, root, r, slot, new, PutAt(Denoted(trees, root), Front(path), parent))
    BY ItemsTold
  <1>4. OpOK(h, C, Result(new, root))
    BY ItemsPut
  <1> HIDE DEF new, parent
  <1>5. LET value == PutParent(Denoted(trees, root), path, parent)
        IN  OpTold(Result(new, root), C, value) /\ EditTold(h, C, trees, root, r, slot, new, value)
    BY <1>2, <1>3, <1>4, EditDone
  <1> QED
    BY <1>5 DEF new, parent

\* The same for the fields of an object.
LEMMA FieldsDone ==
  ASSUME NEW h, NEW C, RegionsOK(h, C), NEW root, RootOK(h, C, root),
         NEW trees, Tells(h, trees, Draft(h, C)), NEW path \in Seq(STRING), path # <<>>,
         IsRef(Holder(h, root, path)), NEW r \in Draft(h, C), r = Holder(h, root, path).ref,
         h[r].kind = "object",
         NEW slot, RootOK(h, C, slot), IsRef(slot) => slot # root,
         NEW fields \in Seq(FieldsOf(STRING, Links(Draft(h, C)))),
         Rearranged(Parts(h[r]), ValuesIn(fields), slot)
  PROVE  LET new   == EditFields(h, r, fields)
             value == PutParent(Denoted(trees, root), path, Object(FieldsShown(trees, fields)))
         IN  OpTold(Result(new, root), C, value) /\ EditTold(h, C, trees, root, r, slot, new, value)
  <1> DEFINE new    == EditFields(h, r, fields)
             parent == Object(FieldsShown(trees, fields))
  <1>1. trees \in [Draft(h, C) -> AllTrees]
    BY DEF Tells
  <1>2. parent \in AllTrees
    BY <1>1, ShownParts, AnyTree
  <1>3. EditTold(h, C, trees, root, r, slot, new, PutAt(Denoted(trees, root), Front(path), parent))
    BY FieldsTold
  <1>4. OpOK(h, C, Result(new, root))
    BY FieldsPut
  <1> HIDE DEF new, parent
  <1>5. LET value == PutParent(Denoted(trees, root), path, parent)
        IN  OpTold(Result(new, root), C, value) /\ EditTold(h, C, trees, root, r, slot, new, value)
    BY <1>2, <1>3, <1>4, EditDone
  <1> QED
    BY <1>5 DEF new, parent

\* A value put in at a target.
LEMMA AddedTold ==
  ASSUME NEW h, NEW C, RegionsOK(h, C), NEW root, RootOK(h, C, root),
         NEW trees, Tells(h, trees, Draft(h, C)),
         NEW slot, RootOK(h, C, slot), IsRef(slot) => slot # root,
         NEW copy, copy.heap = h, copy.slot = slot,
         NEW path \in Seq(STRING), path # <<>>,
         NEW target, target = InsertableAt(h, root, path),
         NEW current, current = Holder(h, root, path), NEW token, token = Last(path)
  PROVE  LET value  == Denoted(trees, root)
             parent == Inserted(ParentAt(value, path), token, Denoted(trees, slot))
         IN  OpTold(IF Hit(target) THEN AddAtTarget(copy, target, root) ELSE Broken, C,
                    PutParent(value, path, parent))
  <1> DEFINE D       == Draft(h, C)
             r       == current.ref
             value   == Denoted(trees, root)
             held    == Denoted(trees, current)
             parent  == Inserted(ParentAt(value, path), token, Denoted(trees, slot))
             index   == parseArrayIndex(token)
             items   == h[r].items
             fits    == IsArray(h, current) /\ (token = "-" \/ index \in 0..Len(items))
  <1>1. root \in Links(D) /\ slot \in Links(D) /\ token \in STRING
    BY PathEnds DEF RootOK
  <1>2. current \in Links(D) /\ target = Insertable(h, current, token)
    BY <1>1, ResolveIs, TargetsAt
  <1>3. parent = Inserted(held, token, Denoted(trees, slot))
    BY <1>1, ParentShown
  <1>4. /\ Hit(target) <=> IsObject(h, current) \/ fits
        /\ Hit(target) =>
             /\ target.parent = r /\ IsRef(current) /\ r \in D
             /\ h[r].kind = "object" => target.place = token
             /\ h[r].kind = "array" => target.place = IF token = "-" THEN Len(items) ELSE index
    <2>1. LET all == h[current.ref].items
              at  == parseArrayIndex(token)
          IN  /\ Hit(target) <=> (IsObject(h, current) \/ (IsArray(h, current)
                                   /\ (token = "-" \/ at \in 0..Len(all))))
              /\ Hit(target) =>
                   /\ target.parent = current.ref /\ IsRef(current) /\ current.ref \in Draft(h, C)
                   /\ h[current.ref].kind = "object" => target.place = token
                   /\ h[current.ref].kind = "array" =>
                        target.place = IF token = "-" THEN Len(all) ELSE at
      <3> HIDE DEF items, r, index, fits, parent, held, value
      <3> QED
        BY <1>1, <1>2, AddTarget
    <2> QED
      BY <2>1
  <1>5. LET place == IF token = "-" THEN Len(items) ELSE index
        IN  /\ IsObject(h, current) => parent = Object(FieldsShown(trees, setField(h[r].fields, token, slot)))
            /\ fits => /\ place + 1 \in 1..Len(items) + 1
                       /\ parent = Array(ItemsShown(trees, InsertAt(items, place + 1, slot)))
            /\ ~IsObject(h, current) /\ ~fits => parent = Invalid
    <2> HIDE DEF parent
    <2> QED
      BY <1>1, <1>2, <1>3, InsertedShown
  <1>6. /\ IsObject(h, current) /\ IsRef(current) => h[r].kind = "object"
        /\ IsArray(h, current) /\ IsRef(current) => h[r].kind = "array"
    BY DEF IsObject, IsArray, KindOf
  <1> HIDE DEF parent, held
  <1>7. CASE IsObject(h, current)
    <2>1. /\ Hit(target) /\ target.parent = r /\ target.place = token /\ IsRef(current) /\ r \in D
          /\ h[r].kind = "object"
      BY <1>4, <1>6, <1>7
    <2> DEFINE fields == setField(h[r].fields, token, slot)
    <2>2. AddAtTarget(copy, target, root) = Result(EditFields(h, r, fields), root)
      BY <2>1 DEF AddAtTarget
    <2>3. fields \in Seq(FieldsOf(STRING, Links(D))) /\ Rearranged(Parts(h[r]), ValuesIn(fields), slot)
      BY <1>1, <2>1, PartsPut
    <2>4. parent = Object(FieldsShown(trees, fields))
      BY <1>5, <1>7
    <2>5. r = Holder(h, root, path).ref /\ IsRef(Holder(h, root, path))
      BY <2>1
    <2> HIDE DEF fields, r
    <2>6. OpTold(Result(EditFields(h, r, fields), root), C,
                 PutParent(Denoted(trees, root), path, Object(FieldsShown(trees, fields))))
      BY <2>1, <2>3, <2>5, FieldsDone
    <2> QED
      BY <2>1, <2>2, <2>4, <2>6 DEF parent
  <1>8. CASE fits
    <2> DEFINE place == IF token = "-" THEN Len(items) ELSE index
               more  == InsertAt(items, place + 1, slot)
    <2>1. /\ Hit(target) /\ target.parent = r /\ target.place = place /\ IsRef(current) /\ r \in D
          /\ h[r].kind = "array"
      BY <1>4, <1>6, <1>8
    <2>2. AddAtTarget(copy, target, root) = Result(EditItems(h, r, more), root)
      <3> HIDE DEF place
      <3> QED
        BY <2>1 DEF AddAtTarget
    <2>3. parent = Array(ItemsShown(trees, more)) /\ place + 1 \in 1..Len(items) + 1
      BY <1>5, <1>8
    <2>4. more \in Seq(Links(D)) /\ Rearranged(items, more, slot)
      <3> HIDE DEF r, place
      <3>1. items \in Seq(Links(D)) /\ Once(items) /\ Parts(h[r]) = items
        BY <2>1, ArrayParts
      <3>2. IsRef(slot) => \A i \in DOMAIN items : items[i] # slot
        <4>1. ASSUME IsRef(slot) PROVE \A i \in DOMAIN Parts(h[r]) : Parts(h[r])[i] # slot
          <5> HIDE DEF items
          <5>1. r \in Draft(h, C)
            BY <2>1
          <5> QED
            BY <4>1, <5>1, RootInNoNode
        <4> QED
          BY <3>1, <4>1
      <3> DEFINE k == place + 1
      <3>3. k \in 1..Len(items) + 1
        BY <2>3
      <3> HIDE DEF items, k, D
      <3>4. InsertAt(items, k, slot) \in Seq(Links(D)) /\ Rearranged(items, InsertAt(items, k, slot), slot)
        BY <1>1, <3>1, <3>2, <3>3, InsertedParts
      <3> QED
        BY <3>4 DEF k
    <2>5. r = Holder(h, root, path).ref /\ IsRef(Holder(h, root, path))
      BY <2>1
    <2> HIDE DEF more, r
    <2>6. OpTold(Result(EditItems(h, r, more), root), C,
                 PutParent(Denoted(trees, root), path, Array(ItemsShown(trees, more))))
      BY <2>1, <2>4, <2>5, ItemsDone
    <2> QED
      BY <2>1, <2>2, <2>3, <2>6 DEF parent
  <1>9. CASE ~IsObject(h, current) /\ ~fits
    <2>1. ~Hit(target) /\ parent = Invalid
      BY <1>4, <1>5, <1>9
    <2>2. PutParent(value, path, parent) = Invalid
      BY <2>1 DEF PutParent
    <2>3. ~Broken.ok
      BY DEF Broken
    <2>4. OpTold(Broken, C, Invalid)
      BY <2>3 DEF OpTold
    <2> QED
      BY <2>1, <2>2, <2>4 DEF parent
  <1> QED
    BY <1>7, <1>8, <1>9

\* A value put in for what stands at a target.
LEMMA PutTold ==
  ASSUME NEW h, NEW C, RegionsOK(h, C), NEW root, RootOK(h, C, root),
         NEW trees, Tells(h, trees, Draft(h, C)),
         NEW slot, RootOK(h, C, slot), IsRef(slot) => slot # root,
         NEW copy, copy.heap = h, copy.slot = slot,
         NEW path \in Seq(STRING), path # <<>>,
         NEW target, target = ExistingAt(h, root, path),
         NEW current, current = Holder(h, root, path), NEW token, token = Last(path)
  PROVE  LET value  == Denoted(trees, root)
             parent == Replaced(ParentAt(value, path), token, Denoted(trees, slot))
         IN  OpTold(IF Hit(target) /\ Exists(target) THEN PutAtTarget(copy, target, root) ELSE Broken, C,
                    PutParent(value, path, parent))
  <1> DEFINE D       == Draft(h, C)
             r       == current.ref
             value   == Denoted(trees, root)
             held    == Denoted(trees, current)
             parent  == Replaced(ParentAt(value, path), token, Denoted(trees, slot))
             there   == Child(h, current, token)
             items   == h[r].items
             place   == parseArrayIndex(token)
  <1>1. root \in Links(D) /\ slot \in Links(D) /\ token \in STRING
    BY PathEnds DEF RootOK
  <1>2. current \in Links(D) /\ target = Existing(h, current, token)
    BY <1>1, ResolveIs, TargetsAt
  <1>3. parent = Replaced(held, token, Denoted(trees, slot))
    BY <1>1, ParentShown
  <1>4. /\ Hit(target) /\ Exists(target) <=> ~IsVoid(there)
        /\ ~IsVoid(there) =>
             /\ target.parent = r /\ IsRef(current) /\ r \in D
             /\ h[r].kind = "object" => target.place = token
             /\ h[r].kind = "array" => target.place = place
    <2>1. /\ Hit(target) /\ Exists(target) <=> ~IsVoid(there)
          /\ ~IsVoid(there) =>
               /\ target.parent = current.ref /\ target.value = there
               /\ IsRef(current) /\ current.ref \in Draft(h, C)
               /\ h[current.ref].kind = "object" => target.place = token
               /\ h[current.ref].kind = "array" =>
                    /\ target.place = parseArrayIndex(token)
                    /\ target.place + 1 \in 1..Len(h[current.ref].items)
      <3> HIDE DEF items, r, place, parent, held, value
      <3> QED
        BY <1>1, <1>2, ExistingTarget
    <2> QED
      BY <2>1
  <1>5. /\ IsVoid(there) => parent = Invalid
        /\ ~IsVoid(there) => IsObject(h, current) \/ IsArray(h, current)
        /\ ~IsVoid(there) /\ IsObject(h, current) =>
             parent = Object(FieldsShown(trees, setField(h[r].fields, token, slot)))
        /\ ~IsVoid(there) /\ IsArray(h, current) =>
             /\ place + 1 \in 1..Len(items)
             /\ parent = Array(ItemsShown(trees, [items EXCEPT ![place + 1] = slot]))
    <2> HIDE DEF parent
    <2> QED
      BY <1>1, <1>2, <1>3, ChangedShown
  <1>6. /\ IsObject(h, current) /\ IsRef(current) => h[r].kind = "object"
        /\ IsArray(h, current) /\ IsRef(current) => h[r].kind = "array"
    BY DEF IsObject, IsArray, KindOf
  <1> HIDE DEF parent, held, there
  <1>7. CASE ~IsVoid(there) /\ IsObject(h, current)
    <2>1. /\ Hit(target) /\ Exists(target) /\ target.parent = r /\ target.place = token
          /\ IsRef(current) /\ r \in D /\ h[r].kind = "object"
      BY <1>4, <1>6, <1>7
    <2> DEFINE fields == setField(h[r].fields, token, slot)
    <2>2. PutAtTarget(copy, target, root) = Result(EditFields(h, r, fields), root)
      BY <2>1 DEF PutAtTarget
    <2>3. fields \in Seq(FieldsOf(STRING, Links(D))) /\ Rearranged(Parts(h[r]), ValuesIn(fields), slot)
      BY <1>1, <2>1, PartsPut
    <2>4. parent = Object(FieldsShown(trees, fields))
      BY <1>5, <1>7
    <2>5. r = Holder(h, root, path).ref /\ IsRef(Holder(h, root, path))
      BY <2>1
    <2> HIDE DEF fields, r
    <2>6. OpTold(Result(EditFields(h, r, fields), root), C,
                 PutParent(Denoted(trees, root), path, Object(FieldsShown(trees, fields))))
      BY <2>1, <2>3, <2>5, FieldsDone
    <2> QED
      BY <2>1, <2>2, <2>4, <2>6 DEF parent
  <1>8. CASE ~IsVoid(there) /\ IsArray(h, current)
    <2> DEFINE k    == place + 1
               more == [items EXCEPT ![k] = slot]
    <2>1. /\ Hit(target) /\ Exists(target) /\ target.parent = r /\ target.place = place
          /\ IsRef(current) /\ r \in D /\ h[r].kind = "array"
      BY <1>4, <1>6, <1>8
    <2>2. PutAtTarget(copy, target, root) = Result(EditItems(h, r, more), root)
      <3> HIDE DEF place
      <3> QED
        BY <2>1 DEF PutAtTarget
    <2>3. parent = Array(ItemsShown(trees, more)) /\ k \in 1..Len(items)
      BY <1>5, <1>8
    <2>4. more \in Seq(Links(D)) /\ Rearranged(items, more, slot)
      <3> HIDE DEF r, k
      <3>1. items \in Seq(Links(D)) /\ Once(items) /\ Parts(h[r]) = items
        BY <2>1, ArrayParts
      <3>2. IsRef(slot) => \A i \in DOMAIN items : items[i] # slot
        <4>1. ASSUME IsRef(slot) PROVE \A i \in DOMAIN Parts(h[r]) : Parts(h[r])[i] # slot
          <5> HIDE DEF items
          <5>1. r \in Draft(h, C)
            BY <2>1
          <5> QED
            BY <4>1, <5>1, RootInNoNode
        <4> QED
          BY <3>1, <4>1
      <3> HIDE DEF items, D
      <3> QED
        BY <1>1, <2>3, <3>1, <3>2, ReplacedParts
    <2>5. r = Holder(h, root, path).ref /\ IsRef(Holder(h, root, path))
      BY <2>1
    <2> HIDE DEF more, r
    <2>6. OpTold(Result(EditItems(h, r, more), root), C,
                 PutParent(Denoted(trees, root), path, Array(ItemsShown(trees, more))))
      BY <2>1, <2>4, <2>5, ItemsDone
    <2> QED
      BY <2>1, <2>2, <2>3, <2>6 DEF parent
  <1>9. CASE IsVoid(there)
    <2>1. ~(Hit(target) /\ Exists(target)) /\ parent = Invalid
      BY <1>4, <1>5, <1>9
    <2>2. PutParent(value, path, parent) = Invalid
      BY <2>1 DEF PutParent
    <2>3. ~Broken.ok
      BY DEF Broken
    <2>4. OpTold(Broken, C, Invalid)
      BY <2>3 DEF OpTold
    <2> QED
      BY <2>1, <2>2, <2>4 DEF parent
  <1> QED
    BY <1>5, <1>7, <1>8, <1>9

\* What stands in a tree that can be seen can be seen.
LEMMA AlongInTrees ==
  ASSUME NEW tree \in Trees, NEW path
  PROVE  tree \in AllTrees /\ \A n \in Nat : Along(tree, path)[n] \in Trees
  <1> DEFINE along == Along(tree, path)
             T     == {n \in Nat : along[n] \in Trees}
  <1>1. Trees \subseteq AllTrees /\ Void \in Trees
    <2>1. Trees \subseteq AllTrees
      BY DepthAssumption DEF Trees, AllTrees
    <2>2. Void \in Trees
      BY DepthAssumption, ScalarsNest, VoidLinks DEF Trees, Links, ScalarValues
    <2> QED
      BY <2>1, <2>2
  <1>2. ASSUME NEW held \in Trees, NEW token PROVE ChildAt(held, token) \in Trees
    <2>1. CASE held.kind = "object"
      <3>1. held.fields \in Seq(FieldsOf(STRING, Trees))
        BY <2>1, PartsAreTrees DEF IsContainer
      <3>2. GetField(held.fields, token) \in Trees \cup {Void}
        BY <3>1, GetFieldIn
      <3> QED
        BY <1>1, <2>1, <3>2 DEF ChildAt
    <2>2. CASE held.kind = "array" /\ parseArrayIndex(token) + 1 \in DOMAIN held.items
      <3>1. held.items \in Seq(Trees)
        BY <2>2, PartsAreTrees DEF IsContainer
      <3>2. held.items[parseArrayIndex(token) + 1] \in Trees
        BY <2>2, <3>1
      <3> QED
        BY <2>2, <3>2 DEF ChildAt
    <2>3. CASE /\ held.kind # "object"
               /\ ~(held.kind = "array" /\ parseArrayIndex(token) + 1 \in DOMAIN held.items)
      BY <1>1, <2>3 DEF ChildAt
    <2> QED
      BY <2>1, <2>2, <2>3
  <1>3. along[0] = tree /\ \A n \in Nat : along[n + 1] = ChildAt(along[n], path[n + 1])
    BY <1>1, AlongIs
  <1> HIDE DEF along
  <1>4. 0 \in T
    BY <1>3
  <1>5. ASSUME NEW n \in Nat, n \in T PROVE n + 1 \in T
    BY <1>2, <1>3, <1>5
  <1> HIDE DEF T
  <1>6. \A n \in Nat : n \in T
    BY <1>4, <1>5, Induction
  <1> QED
    BY <1>1, <1>6 DEF T, along

LEMMA DraftClosed ==
  ASSUME NEW h, NEW C, RegionsOK(h, C) PROVE ClosedPart(h, Draft(h, C))
  BY DEF RegionsOK, ClosedPart, Draft

\* What stands at a location of a document that can be seen.
LEMMA ThereSeen ==
  ASSUME NEW h, NEW C, RegionsOK(h, C), NEW trees, Tells(h, trees, Draft(h, C)),
         NEW root \in Links(Draft(h, C)), Denoted(trees, root) \in Trees, NEW path \in Seq(STRING)
  PROVE  LET there == Walk(h, root, path)[Len(path)]
         IN  /\ there \in Links(Draft(h, C)) /\ Denoted(trees, there) \in Trees
             /\ View(h, there) = Denoted(trees, there)
             /\ IsVoid(Denoted(trees, there)) <=> IsVoid(there)
             /\ ValueAt(Denoted(trees, root), path)
                  = IF path # <<>> /\ IsVoid(there) THEN Invalid ELSE Denoted(trees, there)
  <1> DEFINE there == Walk(h, root, path)[Len(path)]
  <1>1. Len(path) \in Nat
    OBVIOUS
  <1>2. there \in Links(Draft(h, C))
    BY <1>1, WalkIs
  <1>3. Denoted(trees, there) \in Trees
    <2>1. Along(Denoted(trees, root), path)[Len(path)] = Denoted(trees, there)
      BY <1>1, WalkShown
    <2> QED
      BY <1>1, <2>1, AlongInTrees
  <1>4. View(h, there) = Denoted(trees, there)
    <2> HIDE DEF there
    <2>1. ClosedPart(h, Draft(h, C))
      BY DraftClosed
    <2> QED
      BY <1>2, <1>3, <2>1, ViewTold
  <1>5. IsVoid(Denoted(trees, there)) <=> IsVoid(there)
    <2> HIDE DEF there
    <2> QED
      BY <1>2, VoidShown
  <1>6. ValueAt(Denoted(trees, root), path)
          = IF path # <<>> /\ IsVoid(Denoted(trees, there)) THEN Invalid ELSE Denoted(trees, there)
    BY ValueShown
  <1> HIDE DEF there
  <1> QED
    BY <1>2, <1>3, <1>4, <1>5, <1>6 DEF there

\* What a removal comes to, and what it hands over.
RemovalTold(result, C, value, removed) ==
  /\ OpTold(result, C, value)
  /\ value # Invalid => View(result.heap, result.removed) = removed

LEMMA RemovalToldIs ==
  ASSUME NEW h, NEW C, NEW root, NEW value, OpTold(Result(h, root), C, value), value # Invalid, NEW x
  PROVE  RemovalTold(Removal(h, root, x), C, value, View(h, x))
  <1>1. /\ Removal(h, root, x).ok /\ Removal(h, root, x).heap = h
        /\ Removal(h, root, x).slot = root /\ Removal(h, root, x).removed = x
    BY DEF Removal
  <1>2. Result(h, root).heap = h /\ Result(h, root).slot = root
    BY DEF Result
  <1> QED
    BY <1>1, <1>2 DEF OpTold, RemovalTold

\* What has been put aside is seen as it was.
LEMMA AsideSeen ==
  ASSUME NEW h, NEW C, NEW trees, NEW root, NEW r, NEW slot, NEW new, NEW value,
         EditTold(h, C, trees, root, r, slot, new, value), RegionsOK(new, C),
         Draft(new, C) = Draft(h, C), NEW x \in Links(Draft(h, C)), Denoted(trees, x) \in Trees,
         x = slot \/ ~IsRef(x) \/ \E i \in DOMAIN Parts(h[r]) : Parts(h[r])[i] = x
  PROVE  View(new, x) = Denoted(trees, x)
  <1>1. PICK more : /\ Tells(new, more, Draft(new, C))
                    /\ Denoted(more, slot) = Denoted(trees, slot)
                    /\ \A i \in DOMAIN Parts(h[r]) :
                         Denoted(more, Parts(h[r])[i]) = Denoted(trees, Parts(h[r])[i])
    BY DEF EditTold
  <1>2. Denoted(more, x) = Denoted(trees, x)
    <2>1. CASE ~IsRef(x)
      BY <2>1 DEF Denoted
    <2>2. CASE IsRef(x)
      BY <1>1, <2>2
    <2> QED
      BY <2>1, <2>2
  <1>3. ClosedPart(new, Draft(new, C))
    BY DraftClosed
  <1> QED
    BY <1>1, <1>2, <1>3, ViewTold

LEMMA DeletedShown ==
  ASSUME NEW h, NEW C, RegionsOK(h, C), NEW trees, Tells(h, trees, Draft(h, C)),
         NEW current \in Links(Draft(h, C)), NEW token \in STRING,
         NEW node, node = h[current.ref], ~IsVoid(Child(h, current, token))
  PROVE  /\ IsObject(h, current) =>
              Deleted(Denoted(trees, current), token)
                = Object(FieldsShown(trees, removeField(node.fields, token)))
         /\ IsArray(h, current) =>
              Deleted(Denoted(trees, current), token)
                = Array(ItemsShown(trees, RemoveAt(node.items, parseArrayIndex(token) + 1)))
  <1> DEFINE slot == Void
             held == Denoted(trees, current)
  <1>1. slot \in Links(Draft(h, C))
    BY VoidLinks
  <1> HIDE DEF slot
  <1>2. LET new   == Denoted(trees, slot)
            place == parseArrayIndex(token)
            there == Child(h, current, token)
        IN  /\ IsVoid(there) => Deleted(held, token) = Invalid /\ Replaced(held, token, new) = Invalid
            /\ ~IsVoid(there) => IsObject(h, current) \/ IsArray(h, current)
            /\ ~IsVoid(there) /\ IsObject(h, current) =>
                  /\ Deleted(held, token) = Object(FieldsShown(trees, removeField(h[current.ref].fields, token)))
                  /\ Replaced(held, token, new) = Object(FieldsShown(trees, setField(h[current.ref].fields, token, slot)))
            /\ ~IsVoid(there) /\ IsArray(h, current) =>
                  /\ place + 1 \in 1..Len(h[current.ref].items)
                  /\ Deleted(held, token) = Array(ItemsShown(trees, RemoveAt(h[current.ref].items, place + 1)))
                  /\ Replaced(held, token, new)
                       = Array(ItemsShown(trees, [h[current.ref].items EXCEPT ![place + 1] = slot]))
    BY <1>1, ChangedShown
  <1> HIDE DEF held
  <1> QED
    BY <1>2 DEF held

\* Of a location where something stands, in an array.
LEMMA RemoveItemTold ==
  ASSUME NEW h, NEW C, RegionsOK(h, C), NEW root, RootOK(h, C, root),
         NEW trees, Tells(h, trees, Draft(h, C)), Denoted(trees, root) \in Trees,
         NEW path \in Seq(STRING), path # <<>>,
         NEW target, target = ExistingAt(h, root, path),
         NEW current, current = Holder(h, root, path), NEW token, token = Last(path),
         NEW there, there = Child(h, current, token), ~IsVoid(there),
         NEW r, r = target.parent, h[r].kind = "array"
  PROVE  LET value == Denoted(trees, root)
             parent == Deleted(ParentAt(value, path), token)
         IN  RemovalTold(RemoveItem(h, root, target), C, PutParent(value, path, parent), ValueAt(value, path))
  <1> DEFINE D       == Draft(h, C)
             value   == Denoted(trees, root)
             held    == Denoted(trees, current)
             parent  == Deleted(ParentAt(value, path), token)
             items   == h[r].items
             place   == parseArrayIndex(token)
             k       == place + 1
             rest    == RemoveAt(items, k)
             new     == EditItems(h, r, rest)
  <1>1. root \in Links(D) /\ token \in STRING
    BY PathEnds DEF RootOK
  <1>2. current \in Links(D) /\ target = Existing(h, current, token)
    BY <1>1, ResolveIs, TargetsAt
  <1>3. parent = Deleted(held, token)
    BY <1>1, ParentShown
  <1>4. /\ target.parent = current.ref /\ target.value = there /\ IsRef(current) /\ current.ref \in D
        /\ h[current.ref].kind = "array" => target.place = place /\ target.place + 1 \in 1..Len(h[current.ref].items)
    <2> HIDE DEF items, place, parent, held, value, rest, new
    <2>1. /\ ~IsVoid(there) =>
               /\ target.parent = current.ref /\ target.value = there
               /\ IsRef(current) /\ current.ref \in Draft(h, C)
               /\ h[current.ref].kind = "object" => target.place = token
               /\ h[current.ref].kind = "array" =>
                    /\ target.place = parseArrayIndex(token)
                    /\ target.place + 1 \in 1..Len(h[current.ref].items)
      BY <1>1, <1>2, ExistingTarget
    <2> QED
      BY <2>1 DEF place
  <1>5. /\ r = current.ref /\ r \in D /\ target.place = place /\ k \in 1..Len(items)
    BY <1>4
  <1>6. IsArray(h, current) /\ ~IsObject(h, current)
    BY <1>4, <1>5 DEF IsArray, IsObject, KindOf
  <1>7. parent = Array(ItemsShown(trees, rest))
    <2> HIDE DEF parent, held, value
    <2> HIDE DEF rest, new
    <2>1. \A at \in Links(Draft(h, C)) :
            ~IsVoid(Child(h, at, token)) /\ IsArray(h, at) =>
              Deleted(Denoted(trees, at), token)
                = Array(ItemsShown(trees, RemoveAt(h[at.ref].items, parseArrayIndex(token) + 1)))
      BY <1>1, DeletedShown
    <2>2. current \in Links(Draft(h, C)) /\ ~IsVoid(Child(h, current, token))
      BY <1>2
    <2>3. Deleted(Denoted(trees, current), token) = Array(ItemsShown(trees, RemoveAt(h[current.ref].items, parseArrayIndex(token) + 1)))
      BY <1>6, <2>1, <2>2
    <2> QED
      BY <1>3, <1>5, <2>3 DEF rest, held
  <1> HIDE DEF parent, held, place
  <1>8. rest \in Seq(Links(D)) /\ Rearranged(items, rest, Void)
    <2>1. items \in Seq(Links(D)) /\ Once(items) /\ Parts(h[r]) = items
      BY <1>5, ArrayParts
    <2> HIDE DEF items, D, k
    <2> QED
      BY <1>5, <2>1, RemovedParts
  <1>9. RootOK(h, C, Void) /\ ~IsRef(Void)
    BY VoidRoot, VoidLinks
  <1>10. r = Holder(h, root, path).ref /\ IsRef(Holder(h, root, path))
    BY <1>4, <1>5
  <1> HIDE DEF rest, k
  <1>11. /\ OpTold(Result(new, root), C, PutParent(value, path, Array(ItemsShown(trees, rest))))
         /\ EditTold(h, C, trees, root, r, Void, new, PutParent(value, path, Array(ItemsShown(trees, rest))))
    BY <1>5, <1>8, <1>9, <1>10, ItemsDone
  <1>12. RemoveItem(h, root, target) = Removal(new, root, there)
    BY <1>4, <1>5 DEF RemoveItem, rest, k
  <1>13. RegionsOK(new, C) /\ Draft(new, C) = D
    <2>1. OpOK(h, C, Result(new, root))
      BY <1>5, <1>8, <1>9, ItemsPut
    <2>2. DOMAIN new = DOMAIN h
      BY DEF EditItems
    <2> QED
      BY <2>1, <2>2 DEF OpOK, Result, Draft
  <1> DEFINE after == PutParent(value, path, Array(ItemsShown(trees, rest)))
  <1>14. after # Invalid
    <2>1. PICK more : Tells(new, more, Draft(new, C)) /\ Denoted(more, root) = after
      BY <1>11 DEF EditTold
    <2>2. Denoted(more, root) \in AllTrees
      BY <1>1, <1>13, <2>1, DenotedIsTree DEF Tells
    <2> QED
      BY <2>1, <2>2, InvalidIs
  <1>15. /\ there \in Links(D) /\ Denoted(trees, there) \in Trees
         /\ ValueAt(value, path) = Denoted(trees, there)
    <2>1. Walk(h, root, path)[Len(path)] = there
      BY <1>1, ResolveIs
    <2>2. LET here == Walk(h, root, path)[Len(path)]
          IN  /\ here \in Links(Draft(h, C)) /\ Denoted(trees, here) \in Trees
              /\ IsVoid(Denoted(trees, here)) <=> IsVoid(here)
              /\ ValueAt(Denoted(trees, root), path)
                   = IF path # <<>> /\ IsVoid(here) THEN Invalid ELSE Denoted(trees, here)
      BY <1>1, ThereSeen
    <2> QED
      BY <2>1, <2>2
  <1>16. View(new, there) = Denoted(trees, there)
    <2>1. there = Void \/ ~IsRef(there) \/ \E i \in DOMAIN Parts(h[r]) : Parts(h[r])[i] = there
      <3>1. CASE IsRef(there)
        BY <1>2, <1>5, <3>1, ChildPlace
      <3> QED
        BY <3>1
    <2> HIDE DEF new, after
    <2>2. EditTold(h, C, trees, root, r, Void, new, after)
      BY <1>11 DEF after
    <2> QED
      BY <1>13, <1>15, <2>1, <2>2, AsideSeen
  <1> HIDE DEF new, after
  <1>17. RemovalTold(Removal(new, root, there), C, after, View(new, there))
    BY <1>11, <1>14, RemovalToldIs DEF after
  <1> QED
    BY <1>7, <1>12, <1>15, <1>16, <1>17 DEF after, parent

\* The same in an object: what is handed over is a clone.
LEMMA RemoveFieldTold ==
  ASSUME NEW h, NEW C, RegionsOK(h, C), NEW root, RootOK(h, C, root),
         NEW trees, Tells(h, trees, Draft(h, C)),
         NEW slot, RootOK(h, C, slot), IsRef(slot) => slot # root,
         NEW copy, copy.heap = h, copy.slot = slot,
         NEW path \in Seq(STRING), path # <<>>,
         NEW target, target = ExistingAt(h, root, path),
         NEW current, current = Holder(h, root, path), NEW token, token = Last(path),
         ~IsVoid(Child(h, current, token)), Denoted(trees, slot) \in Trees,
         NEW r, r = target.parent, h[r].kind = "object"
  PROVE  LET value == Denoted(trees, root)
             parent == Deleted(ParentAt(value, path), token)
         IN  RemovalTold(RemoveField(copy, root, target), C,
                         PutParent(value, path, parent), Denoted(trees, slot))
  <1> DEFINE D       == Draft(h, C)
             there   == Child(h, current, token)
             value   == Denoted(trees, root)
             held    == Denoted(trees, current)
             parent  == Deleted(ParentAt(value, path), token)
             rest    == removeField(h[r].fields, token)
             new     == EditFields(h, r, rest)
  <1>1. root \in Links(D) /\ token \in STRING /\ slot \in Links(D)
    BY PathEnds DEF RootOK
  <1>2. current \in Links(D) /\ target = Existing(h, current, token)
    BY <1>1, ResolveIs, TargetsAt
  <1>3. parent = Deleted(held, token)
    BY <1>1, ParentShown
  <1>4. /\ target.parent = current.ref /\ IsRef(current) /\ current.ref \in D
        /\ h[current.ref].kind = "object" => target.place = token
    <2> HIDE DEF parent, held, value, rest, new
    <2>1. /\ ~IsVoid(there) =>
               /\ target.parent = current.ref /\ target.value = there
               /\ IsRef(current) /\ current.ref \in Draft(h, C)
               /\ h[current.ref].kind = "object" => target.place = token
               /\ h[current.ref].kind = "array" =>
                    /\ target.place = parseArrayIndex(token)
                    /\ target.place + 1 \in 1..Len(h[current.ref].items)
      BY <1>1, <1>2, ExistingTarget
    <2> QED
      BY <2>1
  <1>5. r = current.ref /\ r \in D /\ target.place = token
    BY <1>4
  <1>6. IsObject(h, current)
    BY <1>4, <1>5 DEF IsObject, KindOf
  <1>7. parent = Object(FieldsShown(trees, rest))
    <2> HIDE DEF parent, held, value
    <2> HIDE DEF rest, new
    <2>1. \A at \in Links(Draft(h, C)) :
            ~IsVoid(Child(h, at, token)) /\ IsObject(h, at) =>
              Deleted(Denoted(trees, at), token)
                = Object(FieldsShown(trees, removeField(h[at.ref].fields, token)))
      BY <1>1, DeletedShown
    <2>2. current \in Links(Draft(h, C)) /\ ~IsVoid(Child(h, current, token))
      BY <1>2
    <2>3. Deleted(Denoted(trees, current), token) = Object(FieldsShown(trees, removeField(h[current.ref].fields, token)))
      BY <1>6, <2>1, <2>2
    <2> QED
      BY <1>3, <1>5, <2>3 DEF rest, held
  <1> HIDE DEF parent, held, there
  <1>8. /\ rest \in Seq(FieldsOf(STRING, Links(D))) /\ Rearranged(Parts(h[r]), ValuesIn(rest), slot)
    BY <1>5, PartsCut
  <1>10. r = Holder(h, root, path).ref /\ IsRef(Holder(h, root, path))
    BY <1>4, <1>5
  <1> HIDE DEF rest
  <1>11. /\ OpTold(Result(new, root), C, PutParent(value, path, Object(FieldsShown(trees, rest))))
         /\ EditTold(h, C, trees, root, r, slot, new, PutParent(value, path, Object(FieldsShown(trees, rest))))
    BY <1>5, <1>8, <1>10, FieldsDone
  <1>12. RemoveField(copy, root, target) = Removal(new, root, slot)
    BY <1>5 DEF RemoveField, rest
  <1>13. RegionsOK(new, C) /\ Draft(new, C) = D
    <2>1. OpOK(h, C, Result(new, root))
      BY <1>5, <1>8, FieldsPut
    <2>2. DOMAIN new = DOMAIN h
      BY DEF EditFields
    <2> QED
      BY <2>1, <2>2 DEF OpOK, Result, Draft
  <1> DEFINE after == PutParent(value, path, Object(FieldsShown(trees, rest)))
  <1>14. after # Invalid
    <2>1. PICK more : Tells(new, more, Draft(new, C)) /\ Denoted(more, root) = after
      BY <1>11 DEF EditTold
    <2>2. Denoted(more, root) \in AllTrees
      BY <1>1, <1>13, <2>1, DenotedIsTree DEF Tells
    <2> QED
      BY <2>1, <2>2, InvalidIs
  <1>16. View(new, slot) = Denoted(trees, slot)
    <2> HIDE DEF new, after
    <2>2. EditTold(h, C, trees, root, r, slot, new, after)
      BY <1>11 DEF after
    <2> QED
      BY <1>1, <1>13, <2>2, AsideSeen
  <1> HIDE DEF new, after
  <1>17. RemovalTold(Removal(new, root, slot), C, after, View(new, slot))
    BY <1>11, <1>14, RemovalToldIs DEF after
  <1> QED
    BY <1>7, <1>12, <1>16, <1>17 DEF after, parent

\* A value is void if what is seen of it is.
LEMMA VoidSeen ==
  ASSUME NEW h, HeapOK(h), NEW value \in Links(DOMAIN h)
  PROVE  /\ View(h, value) \in Trees /\ View(h, value) \in AllTrees
         /\ IsVoid(View(h, value)) <=> IsVoid(value)
  <1>1. View(h, value) \in Trees
    BY ViewIsTree
  <1>2. View(h, value) \in AllTrees
    BY <1>1, AlongInTrees
  <1>3. CASE ~IsRef(value)
    <2>1. View(h, value) = value
      BY <1>3 DEF View
    <2> QED
      BY <1>1, <1>2, <2>1
  <1>4. CASE IsRef(value)
    <2>1. PICK view : /\ Viewing(h, view)
                      /\ \A s : View(h, s) = IF IsRef(s) THEN view[MaxDepth][s.ref] ELSE s
      BY ViewIs
    <2>2. MaxDepth \in Nat /\ MaxDepth - 1 \in Nat /\ (MaxDepth - 1) + 1 = MaxDepth
      BY DepthAssumption, BoundsAssumption
    <2>3. value.ref \in DOMAIN h
      BY <1>4, LinkOrScalar
    <2>4. View(h, value) = TreeAt(h, view[MaxDepth - 1], value.ref)
      <3> DEFINE d == MaxDepth - 1
      <3>1. d \in Nat /\ d + 1 = MaxDepth
        BY <2>2
      <3> HIDE DEF d
      <3>2. view[d + 1] = [r \in DOMAIN h |-> TreeAt(h, view[d], r)]
        BY <2>1, <3>1 DEF Viewing
      <3> QED
        BY <1>4, <2>1, <2>3, <3>1, <3>2 DEF d
    <2>5. TreeAt(h, view[MaxDepth - 1], value.ref).kind \in {"object", "array"}
      <3> DEFINE trees == view[MaxDepth - 1]
      <3> HIDE DEF trees
      <3> QED
        BY DEF TreeAt, TreeOf, Array, Object
    <2>6. ~IsVoid(View(h, value)) /\ ~IsVoid(value)
      BY <1>4, <2>4, <2>5 DEF IsVoid, IsRef
    <2> QED
      BY <1>1, <1>2, <2>6
  <1> QED
    BY <1>3, <1>4

\* The beginning of an operation that puts a value in: a clone of it, and the
\* draft as it was.
Copied(h, C, trees, root, copy, value) ==
  /\ RegionsOK(copy.heap, C) /\ RootOK(copy.heap, C, root)
  /\ RootOK(copy.heap, C, copy.slot) /\ (IsRef(copy.slot) => copy.slot # root)
  /\ SameDraft(h, copy.heap, C)
  /\ \E more : /\ Tells(copy.heap, more, Draft(copy.heap, C))
               /\ Denoted(more, root) = Denoted(trees, root)
               /\ Denoted(more, copy.slot) = View(h, value)

LEMMA ValueCopied ==
  ASSUME NEW h, NEW C, RegionsOK(h, C), NEW root, RootOK(h, C, root),
         NEW trees, Tells(h, trees, Draft(h, C)), NEW value \in Links(DOMAIN h)
  PROVE  Copied(h, C, trees, root, cloneJSONValue(h, value), value)
  <1> DEFINE copy == cloneJSONValue(h, value)
  <1>1. /\ RegionsOK(copy.heap, C) /\ RootOK(copy.heap, C, copy.slot)
        /\ Draft(h, C) \subseteq Draft(copy.heap, C) /\ \A r \in Draft(h, C) : copy.heap[r] = h[r]
        /\ \A slot : RootOK(h, C, slot) =>
             RootOK(copy.heap, C, slot) /\ (IsRef(slot) => slot # copy.slot)
    BY CloneDraft
  <1>2. PICK more : /\ Tells(copy.heap, more, Draft(copy.heap, C))
                    /\ Retold(Draft(h, C), trees, more)
                    /\ Denoted(more, copy.slot) = View(h, value)
    BY CloneTells
  <1>3. root \in Links(Draft(h, C))
    BY DEF RootOK
  <1> HIDE DEF copy
  <1>4. Denoted(more, root) = Denoted(trees, root)
    BY <1>2, <1>3 DEF Retold
  <1>5. IsRef(copy.slot) => copy.slot # root
    BY <1>1
  <1> QED
    BY <1>1, <1>2, <1>4, <1>5 DEF Copied, SameDraft, copy

\* What the operation comes to when it has a clone of the value.
LEMMA CopyIsRoot ==
  ASSUME NEW h, NEW C, NEW trees, NEW root, NEW copy, NEW value,
         Copied(h, C, trees, root, copy, value), View(h, value) \in AllTrees
  PROVE  OpTold(Result(copy.heap, copy.slot), C, View(h, value))
  <1>1. PICK more : /\ Tells(copy.heap, more, Draft(copy.heap, C))
                    /\ Denoted(more, copy.slot) = View(h, value)
    BY DEF Copied
  <1>2. /\ Result(copy.heap, copy.slot).ok /\ Result(copy.heap, copy.slot).heap = copy.heap
        /\ Result(copy.heap, copy.slot).slot = copy.slot
    BY DEF Result
  <1> QED
    BY <1>1, <1>2, InvalidIs DEF OpTold

LEMMA AddIsTold ==
  ASSUME NEW h, NEW C, RegionsOK(h, C), NEW root, RootOK(h, C, root),
         NEW trees, Tells(h, trees, Draft(h, C)),
         NEW value \in Links(DOMAIN h), NEW path \in Seq(STRING)
  PROVE  OpTold(applyAdd(h, root, path, value), C,
                SpecAdd(Denoted(trees, root), path, View(h, value)))
  <1> DEFINE copy == cloneJSONValue(h, value)
             tree == Denoted(trees, root)
             new  == View(h, value)
             target == InsertableAt(h, root, path)
  <1>1. new \in AllTrees /\ (IsVoid(new) <=> IsVoid(value)) /\ new.kind # "invalid"
    <2>1. HeapOK(h)
      BY DEF RegionsOK
    <2> QED
      BY <2>1, VoidSeen, InvalidIs
  <1>2. Copied(h, C, trees, root, copy, value)
    BY ValueCopied
  <1> HIDE DEF copy, new
  <1>3. CASE IsVoid(value)
    <2>1. SpecAdd(tree, path, new) = Invalid
      BY <1>1, <1>3 DEF SpecAdd, IsVoid
    <2>2. applyAdd(h, root, path, value) = Broken
      BY <1>3 DEF applyAdd
    <2> QED
      BY <2>1, <2>2 DEF OpTold, Broken, new
  <1>4. CASE ~IsVoid(value) /\ path = <<>>
    <2>1. SpecAdd(tree, path, new) = new
      BY <1>1, <1>4 DEF SpecAdd, IsVoid
    <2>2. applyAdd(h, root, path, value) = Result(copy.heap, copy.slot)
      BY <1>4 DEF applyAdd, AddResolved, copy
    <2>3. OpTold(Result(copy.heap, copy.slot), C, View(h, value))
      BY <1>1, <1>2, CopyIsRoot DEF new
    <2> QED
      BY <2>1, <2>2, <2>3 DEF new
  <1>5. CASE ~IsVoid(value) /\ path # <<>>
    <2> DEFINE parent(there) == Inserted(ParentAt(tree, path), Last(path), there)
    <2>1. SpecAdd(tree, path, new) = PutParent(tree, path, parent(new))
      BY <1>1, <1>5 DEF SpecAdd, IsVoid
    <2>2. applyAdd(h, root, path, value)
            = IF Hit(target) THEN AddAtTarget(copy, target, root) ELSE Broken
      <3>1. applyAdd(h, root, path, value) = AddResolved(copy, target, root, path)
        BY <1>5, Zenon DEF applyAdd, copy, InsertableAt
      <3> HIDE DEF target
      <3> QED
        BY <1>5, <3>1, Zenon DEF AddResolved, Hit
    <2> DEFINE k == copy.heap
               slot == copy.slot
    <2>3. PICK more : /\ Tells(k, more, Draft(k, C)) /\ Denoted(more, root) = tree
                      /\ Denoted(more, slot) = new
      BY <1>2 DEF Copied, new
    <2>4. /\ RegionsOK(k, C) /\ RootOK(k, C, root) /\ RootOK(k, C, slot)
          /\ (IsRef(slot) => slot # root) /\ SameDraft(h, k, C)
      BY <1>2 DEF Copied
    <2>5. target = InsertableAt(k, root, path)
      <3>1. root \in Links(Draft(h, C))
        BY DEF RootOK
      <3> HIDE DEF k
      <3>2. \A allow : resolvePointerTarget(k, root, path, allow) = resolvePointerTarget(h, root, path, allow)
        BY <2>4, <3>1, ResolvedLater
      <3> QED
        BY <3>2, Zenon DEF InsertableAt
    <2> HIDE DEF target, tree
    <2>6. OpTold(IF Hit(target) THEN AddAtTarget(copy, target, root) ELSE Broken, C,
                 PutParent(Denoted(more, root), path,
                           Inserted(ParentAt(Denoted(more, root), path), Last(path), Denoted(more, slot))))
      <3> DEFINE current == Holder(k, root, path)
                 token   == Last(path)
      <3>1. k = copy.heap /\ slot = copy.slot /\ current = Holder(k, root, path) /\ token = Last(path)
        OBVIOUS
      <3> HIDE DEF k, slot, current, token
      <3>2. LET from == Denoted(more, root)
            IN  OpTold(IF Hit(target) THEN AddAtTarget(copy, target, root) ELSE Broken, C,
                       PutParent(from, path, Inserted(ParentAt(from, path), token, Denoted(more, slot))))
        BY <1>5, <2>3, <2>4, <2>5, <3>1, AddedTold
      <3> QED
        BY <3>2 DEF token
    <2> QED
      BY <2>1, <2>2, <2>3, <2>6 DEF tree, new
  <1> QED
    BY <1>3, <1>4, <1>5

LEMMA ReplaceIsTold ==
  ASSUME NEW h, NEW C, RegionsOK(h, C), NEW root, RootOK(h, C, root),
         NEW trees, Tells(h, trees, Draft(h, C)),
         NEW value \in Links(DOMAIN h), NEW path \in Seq(STRING)
  PROVE  OpTold(applyReplace(h, root, path, value), C,
                SpecReplace(Denoted(trees, root), path, View(h, value)))
  <1> DEFINE copy == cloneJSONValue(h, value)
             tree == Denoted(trees, root)
             new  == View(h, value)
             target == ExistingAt(h, root, path)
  <1>1. new \in AllTrees /\ (IsVoid(new) <=> IsVoid(value))
    <2>1. HeapOK(h)
      BY DEF RegionsOK
    <2> QED
      BY <2>1, VoidSeen
  <1>2. Copied(h, C, trees, root, copy, value)
    BY ValueCopied
  <1> HIDE DEF copy, new
  <1>3. CASE IsVoid(value)
    <2>1. SpecReplace(tree, path, new) = Invalid
      BY <1>1, <1>3 DEF SpecReplace
    <2>2. applyReplace(h, root, path, value) = Broken
      BY <1>3 DEF applyReplace
    <2> QED
      BY <2>1, <2>2 DEF OpTold, Broken, new
  <1>4. CASE ~IsVoid(value) /\ path = <<>>
    <2>1. SpecReplace(tree, path, new) = new
      BY <1>1, <1>4 DEF SpecReplace
    <2>2. applyReplace(h, root, path, value) = Result(copy.heap, copy.slot)
      BY <1>4 DEF applyReplace, ReplaceResolved, copy
    <2>3. OpTold(Result(copy.heap, copy.slot), C, View(h, value))
      BY <1>1, <1>2, CopyIsRoot DEF new
    <2> QED
      BY <2>1, <2>2, <2>3 DEF new
  <1>5. CASE ~IsVoid(value) /\ path # <<>>
    <2> DEFINE parent(there) == Replaced(ParentAt(tree, path), Last(path), there)
    <2>1. SpecReplace(tree, path, new) = PutParent(tree, path, parent(new))
      BY <1>1, <1>5 DEF SpecReplace
    <2>2. applyReplace(h, root, path, value)
            = IF Hit(target) /\ Exists(target) THEN PutAtTarget(copy, target, root) ELSE Broken
      <3>1. applyReplace(h, root, path, value) = ReplaceResolved(copy, target, root, path)
        BY <1>5, Zenon DEF applyReplace, copy, ExistingAt
      <3> HIDE DEF target
      <3> QED
        BY <1>5, <3>1, Zenon DEF ReplaceResolved, Hit
    <2> DEFINE k == copy.heap
               slot == copy.slot
    <2>3. PICK more : /\ Tells(k, more, Draft(k, C)) /\ Denoted(more, root) = tree
                      /\ Denoted(more, slot) = new
      BY <1>2 DEF Copied, new
    <2>4. /\ RegionsOK(k, C) /\ RootOK(k, C, root) /\ RootOK(k, C, slot)
          /\ (IsRef(slot) => slot # root) /\ SameDraft(h, k, C)
      BY <1>2 DEF Copied
    <2>5. target = ExistingAt(k, root, path)
      <3>1. root \in Links(Draft(h, C))
        BY DEF RootOK
      <3> HIDE DEF k
      <3>2. \A allow : resolvePointerTarget(k, root, path, allow) = resolvePointerTarget(h, root, path, allow)
        BY <2>4, <3>1, ResolvedLater
      <3> QED
        BY <3>2, Zenon DEF ExistingAt
    <2> HIDE DEF target, tree
    <2>6. OpTold(IF Hit(target) /\ Exists(target) THEN PutAtTarget(copy, target, root) ELSE Broken, C,
                 PutParent(Denoted(more, root), path,
                           Replaced(ParentAt(Denoted(more, root), path), Last(path), Denoted(more, slot))))
      <3> DEFINE current == Holder(k, root, path)
                 token   == Last(path)
      <3>1. k = copy.heap /\ slot = copy.slot /\ current = Holder(k, root, path) /\ token = Last(path)
        OBVIOUS
      <3> HIDE DEF k, slot, current, token
      <3>2. LET from == Denoted(more, root)
            IN  OpTold(IF Hit(target) /\ Exists(target) THEN PutAtTarget(copy, target, root) ELSE Broken, C,
                       PutParent(from, path, Replaced(ParentAt(from, path), token, Denoted(more, slot))))
        BY <1>5, <2>3, <2>4, <2>5, <3>1, PutTold
      <3> QED
        BY <3>2 DEF token
    <2> QED
      BY <2>1, <2>2, <2>3, <2>6 DEF tree, new
  <1> QED
    BY <1>3, <1>4, <1>5

LEMMA DraftIn ==
  ASSUME NEW h, NEW C PROVE Links(Draft(h, C)) \subseteq Links(DOMAIN h)
  BY LinksWithin DEF Draft

\* The root removed: the draft is void, what is handed over is a clone of it.
LEMMA RemoveRootTold ==
  ASSUME NEW h, NEW C, RegionsOK(h, C), NEW root, RootOK(h, C, root),
         NEW trees, Tells(h, trees, Draft(h, C)), NEW tree, tree = Denoted(trees, root), tree \in Trees,
         NEW copy, copy = cloneJSONValue(h, root)
  PROVE  RemovalTold(RemoveRoot(copy), C, Void, tree)
  <1>1. root \in Links(Draft(h, C)) /\ root \in Links(DOMAIN h)
    BY DraftIn DEF RootOK
  <1>2. Copied(h, C, trees, root, copy, root)
    BY <1>1, ValueCopied
  <1>3. View(h, root) = tree
    BY <1>1, DraftClosed, ViewTold
  <1>4. PICK more : /\ Tells(copy.heap, more, Draft(copy.heap, C))
                    /\ Denoted(more, copy.slot) = tree
    BY <1>2, <1>3 DEF Copied
  <1>5. RegionsOK(copy.heap, C) /\ copy.slot \in Links(Draft(copy.heap, C))
    BY <1>2 DEF Copied, RootOK
  <1>6. View(copy.heap, copy.slot) = tree
    BY <1>4, <1>5, DraftClosed, ViewTold
  <1>7. Void # Invalid /\ Denoted(more, Void) = Void
    BY VoidLinks DEF Invalid, Void, Scalar, Denoted, IsRef
  <1>8. LET removal == RemoveRoot(copy)
        IN  /\ removal.ok /\ removal.heap = copy.heap /\ removal.slot = Void
            /\ removal.removed = copy.slot
    BY DEF RemoveRoot, Removal
  <1> QED
    BY <1>4, <1>6, <1>7, <1>8 DEF RemovalTold, OpTold

\* Nothing is removed where nothing stands.
LEMMA RemoveNothing ==
  ASSUME NEW h, NEW C, RegionsOK(h, C), NEW trees, Tells(h, trees, Draft(h, C)),
         NEW root \in Links(Draft(h, C)), NEW path \in Seq(STRING), path # <<>>,
         IsVoid(Child(h, Holder(h, root, path), Last(path)))
  PROVE  Deleted(ParentAt(Denoted(trees, root), path), Last(path)) = Invalid
  <1> DEFINE current == Holder(h, root, path)
             token   == Last(path)
             held    == Denoted(trees, current)
  <1>1. current \in Links(Draft(h, C)) /\ token \in STRING
    BY ResolveIs, PathEnds
  <1>2. Deleted(ParentAt(Denoted(trees, root), path), token) = Deleted(held, token)
    BY ParentShown
  <1>3. \A here \in Links(Draft(h, C)) : \A segment :
          /\ ChildAt(Denoted(trees, here), segment) = Denoted(trees, Child(h, here, segment))
          /\ Child(h, here, segment) \in Links(Draft(h, C))
    BY ChildShown, ChildInDraft
  <1> HIDE DEF current, token
  <1>4. /\ ChildAt(held, token) = Denoted(trees, Child(h, current, token))
        /\ Child(h, current, token) \in Links(Draft(h, C))
    BY <1>1, <1>3
  <1>5. IsVoid(ChildAt(held, token))
    <2> DEFINE child == Child(h, current, token)
    <2>1. IsVoid(child)
      BY DEF current, token
    <2> HIDE DEF child
    <2>2. IsVoid(Denoted(trees, child))
      BY <1>4, <2>1, VoidShown DEF child
    <2> QED
      BY <1>4, <2>2 DEF child
  <1> HIDE DEF held
  <1>6. Deleted(held, token) = Invalid
    BY <1>5 DEF Deleted
  <1> QED
    BY <1>2, <1>6 DEF token

\* The clone of a value, when it has been taken from the draft.
LEMMA RemoveClonedTold ==
  ASSUME NEW h, NEW C, RegionsOK(h, C), NEW root, RootOK(h, C, root),
         NEW trees, Tells(h, trees, Draft(h, C)), Denoted(trees, root) \in Trees,
         NEW path \in Seq(STRING), path # <<>>,
         NEW target, target = ExistingAt(h, root, path), Hit(target), Exists(target),
         h[target.parent].kind = "object", target.parent \in Draft(h, C),
         NEW there, there = target.value, there = Walk(h, root, path)[Len(path)],
         NEW copy, copy = cloneJSONValue(h, there)
  PROVE  LET value  == Denoted(trees, root)
             parent == Deleted(ParentAt(value, path), Last(path))
         IN  RemovalTold(RemoveField(copy, root, target), C, PutParent(value, path, parent), Denoted(trees, there))
  <1>1. root \in Links(Draft(h, C)) /\ Last(path) \in STRING
    BY PathEnds DEF RootOK
  <1>2. /\ there \in Links(Draft(h, C)) /\ Denoted(trees, there) \in Trees
        /\ View(h, there) = Denoted(trees, there)
    BY <1>1, ThereSeen
  <1>3. there \in Links(DOMAIN h)
    BY <1>2, DraftIn
  <1>4. Copied(h, C, trees, root, copy, there)
    BY <1>3, ValueCopied
  <1> DEFINE k    == copy.heap
             slot == copy.slot
  <1>5. PICK more : /\ Tells(k, more, Draft(k, C)) /\ Denoted(more, root) = Denoted(trees, root)
                    /\ Denoted(more, slot) = Denoted(trees, there)
    BY <1>2, <1>4 DEF Copied
  <1>6. /\ RegionsOK(k, C) /\ RootOK(k, C, root) /\ RootOK(k, C, slot)
        /\ (IsRef(slot) => slot # root) /\ SameDraft(h, k, C)
    BY <1>4 DEF Copied
  <1> HIDE DEF k, slot
  <1>7. target = ExistingAt(k, root, path)
    <2>1. \A allow : resolvePointerTarget(k, root, path, allow) = resolvePointerTarget(h, root, path, allow)
      BY <1>1, <1>6, ResolvedLater
    <2> QED
      BY <2>1, Zenon DEF ExistingAt
  <1> DEFINE current == Holder(k, root, path)
             token   == Last(path)
             r       == target.parent
  <1>8. /\ current = Holder(k, root, path) /\ token = Last(path) /\ r = target.parent
        /\ k = copy.heap /\ slot = copy.slot /\ token \in STRING
    BY <1>1 DEF k, slot
  <1>9. k[r].kind = "object"
    BY <1>6 DEF SameDraft
  <1> HIDE DEF current, token, r
  <1>10. ~IsVoid(Child(k, current, token))
    <2>1. current \in Links(Draft(k, C)) /\ target = Existing(k, current, token)
      <3>1. root \in Links(Draft(k, C))
        BY <1>6 DEF RootOK
      <3> QED
        BY <1>6, <1>7, <1>8, <3>1, ResolveIs, TargetsAt
    <2>2. LET child == Child(k, current, token) IN (Hit(target) /\ Exists(target)) <=> ~IsVoid(child)
      BY <1>6, <1>8, <2>1, ExistingTarget
    <2> QED
      BY <2>2
  <1>11. LET value  == Denoted(more, root)
             parent == Deleted(ParentAt(value, path), token)
         IN  RemovalTold(RemoveField(copy, root, target), C, PutParent(value, path, parent), Denoted(more, slot))
    BY <1>2, <1>5, <1>6, <1>7, <1>8, <1>9, <1>10, RemoveFieldTold
  <1> QED
    BY <1>5, <1>8, <1>11

LEMMA RemoveIsTold ==
  ASSUME NEW h, NEW C, RegionsOK(h, C), NEW root, RootOK(h, C, root),
         NEW trees, Tells(h, trees, Draft(h, C)), Denoted(trees, root) \in Trees,
         NEW path \in Seq(STRING)
  PROVE  RemovalTold(applyRemove(h, root, path), C, SpecRemove(Denoted(trees, root), path),
                     ValueAt(Denoted(trees, root), path))
  <1> DEFINE tree   == Denoted(trees, root)
             target == ExistingAt(h, root, path)
             there  == Walk(h, root, path)[Len(path)]
  <1>1. root \in Links(Draft(h, C))
    BY DEF RootOK
  <1>2. /\ there \in Links(Draft(h, C))
        /\ ValueAt(tree, path) = IF path # <<>> /\ IsVoid(there) THEN Invalid ELSE Denoted(trees, there)
    BY <1>1, ThereSeen
  <1>3. CASE path = <<>>
    <2> DEFINE copy == cloneJSONValue(h, root)
    <2>1. Len(path) = 0 /\ Walk(h, root, path)[0] = root
      BY <1>1, <1>3, WalkIs
    <2>2. ValueAt(tree, path) = tree
      BY <1>2, <1>3, <2>1
    <2>3. applyRemove(h, root, path) = RemoveRoot(copy) /\ SpecRemove(tree, path) = Void
      BY <1>3 DEF applyRemove, SpecRemove
    <2>4. tree = Denoted(trees, root) /\ copy = cloneJSONValue(h, root)
      OBVIOUS
    <2> HIDE DEF copy, tree
    <2>5. RemovalTold(RemoveRoot(copy), C, Void, tree)
      BY <2>4, RemoveRootTold
    <2> QED
      BY <2>2, <2>3, <2>5 DEF tree
  <1>4. CASE path # <<>>
    <2> DEFINE current == Holder(h, root, path)
               token   == Last(path)
               parent  == Deleted(ParentAt(tree, path), token)
    <2>1. /\ current \in Links(Draft(h, C)) /\ target = Existing(h, current, token) /\ token \in STRING
          /\ there = Child(h, current, token)
      BY <1>1, <1>4, ResolveIs, TargetsAt, PathEnds
    <2>2. SpecRemove(tree, path) = PutParent(tree, path, parent)
      BY <1>4 DEF SpecRemove
    <2>3. applyRemove(h, root, path) = RemoveResolved(h, root, target)
      BY <1>4, Zenon DEF applyRemove, ExistingAt
    <2>4. RemoveResolved(h, root, target)
            = IF ~Hit(target) \/ ~Exists(target) THEN Broken
              ELSE IF h[target.parent].kind = "array"
                THEN RemoveItem(h, root, target)
                ELSE RemoveField(cloneJSONValue(h, target.value), root, target)
      BY Zenon DEF RemoveResolved, Hit
    <2> HIDE DEF target
    <2>5. /\ (Hit(target) /\ Exists(target)) <=> ~IsVoid(there)
          /\ ~IsVoid(there) =>
               /\ target.parent = current.ref /\ target.value = there
               /\ IsRef(current) /\ current.ref \in Draft(h, C)
      <3> HIDE DEF current, token, tree, there, parent
      <3>1. \A at : at = Existing(h, current, token) =>
              LET child == Child(h, current, token)
              IN  /\ (Hit(at) /\ Exists(at)) <=> ~IsVoid(child)
                  /\ ~IsVoid(child) =>
                       /\ at.parent = current.ref /\ at.value = child
                       /\ IsRef(current) /\ current.ref \in Draft(h, C)
        BY <2>1, ExistingTarget
      <3> QED
        BY <2>1, <3>1
    <2>6. CASE IsVoid(there)
      <3>1. applyRemove(h, root, path) = Broken
        BY <2>3, <2>4, <2>5, <2>6
      <3>2. parent = Invalid
        BY <1>1, <1>4, <2>1, <2>6, RemoveNothing
      <3>3. SpecRemove(tree, path) = Invalid
        BY <2>2, <3>2 DEF PutParent
      <3> QED
        BY <3>1, <3>3 DEF RemovalTold, OpTold, Broken
    <2>7. CASE ~IsVoid(there) /\ h[target.parent].kind = "array"
      <3> DEFINE r == target.parent
      <3>1. applyRemove(h, root, path) = RemoveItem(h, root, target)
        BY <2>3, <2>4, <2>5, <2>7
      <3>2. /\ current = Holder(h, root, path) /\ token = Last(path) /\ r = target.parent
            /\ there = Child(h, current, token) /\ ~IsVoid(there) /\ h[r].kind = "array"
            /\ target = ExistingAt(h, root, path)
        BY <2>1, <2>7 DEF target
      <3> HIDE DEF current, token, r, there
      <3>3. LET value == Denoted(trees, root)
                above == Deleted(ParentAt(value, path), token)
            IN  RemovalTold(RemoveItem(h, root, target), C, PutParent(value, path, above), ValueAt(value, path))
        BY <1>4, <3>2, RemoveItemTold
      <3> QED
        BY <2>2, <3>1, <3>3
    <2>8. CASE ~IsVoid(there) /\ h[target.parent].kind # "array"
      <3> DEFINE copy == cloneJSONValue(h, there)
      <3>1. applyRemove(h, root, path) = RemoveField(copy, root, target)
        BY <2>3, <2>4, <2>5, <2>8
      <3>2. h[target.parent].kind = "object" /\ target.parent \in Draft(h, C)
        <4>1. IsObject(h, current) \/ IsArray(h, current)
          BY <1>1, <2>1, <2>5, <2>8, DraftShown
        <4> QED
          BY <2>5, <2>8, <4>1 DEF IsObject, IsArray, KindOf
      <3>3. /\ target = ExistingAt(h, root, path) /\ Hit(target) /\ Exists(target)
            /\ there = target.value /\ there = Walk(h, root, path)[Len(path)]
            /\ copy = cloneJSONValue(h, there)
        BY <2>5, <2>8 DEF target
      <3> HIDE DEF copy, there
      <3>4. LET value == Denoted(trees, root)
                above == Deleted(ParentAt(value, path), Last(path))
            IN  RemovalTold(RemoveField(copy, root, target), C, PutParent(value, path, above), Denoted(trees, there))
        BY <1>4, <3>2, <3>3, RemoveClonedTold
      <3>5. ValueAt(tree, path) = Denoted(trees, there)
        BY <1>2, <2>8 DEF there
      <3> QED
        BY <2>2, <3>1, <3>4, <3>5
    <2> QED
      BY <2>6, <2>7, <2>8
  <1> QED
    BY <1>3, <1>4

LEMMA LookupIs ==
  ASSUME NEW h, NEW C, RegionsOK(h, C), NEW root \in Links(Draft(h, C)), NEW path \in Seq(STRING)
  PROVE  Lookup(h, root, path) = Walk(h, root, path)[Len(path)]
  <1>1. CASE path = <<>>
    <2>1. Len(path) = 0 /\ Walk(h, root, path)[0] = root
      BY <1>1, WalkIs
    <2> QED
      BY <1>1, <2>1 DEF Lookup
  <1>2. CASE path # <<>>
    <2> DEFINE current == Holder(h, root, path)
               token   == Last(path)
               target  == ExistingAt(h, root, path)
    <2>1. /\ current \in Links(Draft(h, C)) /\ target = Existing(h, current, token) /\ token \in STRING
          /\ Walk(h, root, path)[Len(path)] = Child(h, current, token)
      BY <1>2, ResolveIs, TargetsAt, PathEnds
    <2>2. Lookup(h, root, path) = Found(target)
      BY <1>2, Zenon DEF Lookup, ExistingAt
    <2> HIDE DEF target, current, token
    <2>3. Found(target) = Child(h, current, token)
      BY <2>1, ExistingTarget
    <2> QED
      BY <2>1, <2>2, <2>3
  <1> QED
    BY <1>1, <1>2

\* Are the values equal?
Equal(value, expected) == valuesEqual(value, expected)

LEMMA TestIsTold ==
  ASSUME NEW h, NEW C, RegionsOK(h, C), NEW root, RootOK(h, C, root),
         NEW trees, Tells(h, trees, Draft(h, C)), Denoted(trees, root) \in Trees,
         NEW value \in Links(DOMAIN h), NEW path \in Seq(STRING)
  PROVE  OpTold(applyTest(h, root, path, value), C,
                SpecTest(Denoted(trees, root), path, View(h, value)))
  <1> DEFINE tree  == Denoted(trees, root)
             new   == View(h, value)
             there == Walk(h, root, path)[Len(path)]
             seen  == Denoted(trees, there)
             at    == ValueAt(tree, path)
  <1>1. root \in Links(Draft(h, C)) /\ tree \in AllTrees /\ tree # Invalid
    BY AlongInTrees, InvalidIs DEF RootOK
  <1>2. /\ seen \in Trees /\ View(h, there) = seen
        /\ at = IF path # <<>> /\ IsVoid(there) THEN Invalid ELSE seen
    BY <1>1, ThereSeen
  <1>3. seen \in AllTrees /\ seen # Invalid
    BY <1>2, AlongInTrees, InvalidIs
  <1>4. IsVoid(new) <=> IsVoid(value)
    <2>1. HeapOK(h)
      BY DEF RegionsOK
    <2> QED
      BY <2>1, VoidSeen
  <1>5. Lookup(h, root, path) = there
    BY <1>1, LookupIs
  <1>6. applyTest(h, root, path, value)
          = IF ~IsVoid(value) /\ (path = <<>> \/ ~IsVoid(there)) /\ SameValue(h, there, value)
              THEN Result(h, root) ELSE Broken
    BY <1>5, Zenon DEF applyTest
  <1>7. SameValue(h, there, value) = Equal(View(h, there), new)
    BY Zenon DEF SameValue, Equal
  <1>8. SpecTest(tree, path, new)
          = IF ~IsVoid(new) /\ at # Invalid /\ Equal(at, new) THEN tree ELSE Invalid
    BY Zenon DEF SpecTest, Equal
  <1> HIDE DEF new, at, seen, there
  <1>9. CASE ~IsVoid(value) /\ (path = <<>> \/ ~IsVoid(there)) /\ SameValue(h, there, value)
    <2>1. at = seen
      BY <1>2, <1>9
    <2>2. SpecTest(tree, path, new) = tree
      BY <1>2, <1>3, <1>4, <1>7, <1>8, <1>9, <2>1, Zenon
    <2>3. applyTest(h, root, path, value) = Result(h, root)
      BY <1>6, <1>9, Zenon
    <2>4. OpTold(Result(h, root), C, tree)
      <3>1. Result(h, root).ok /\ Result(h, root).heap = h /\ Result(h, root).slot = root
        BY DEF Result
      <3> QED
        BY <1>1, <3>1 DEF OpTold
    <2> QED
      BY <2>2, <2>3, <2>4 DEF new
  <1>10. CASE ~(~IsVoid(value) /\ (path = <<>> \/ ~IsVoid(there)) /\ SameValue(h, there, value))
    <2>1. applyTest(h, root, path, value) = Broken
      BY <1>6, <1>10, Zenon
    <2>2. at # Invalid => at = seen /\ (path = <<>> \/ ~IsVoid(there))
      BY <1>2
    <2>3. SpecTest(tree, path, new) = Invalid
      BY <1>2, <1>4, <1>7, <1>8, <1>10, <2>2, Zenon
    <2> QED
      BY <2>1, <2>3 DEF OpTold, Broken, new
  <1> QED
    BY <1>9, <1>10

\* Nothing is added if there is nothing to add.
LEMMA AddNothing == \A tree, path, none : none.kind \in {"void", "invalid"} => SpecAdd(tree, path, none) = Invalid
  BY DEF SpecAdd

LEMMA CopyIsTold ==
  ASSUME NEW h, NEW C, RegionsOK(h, C), NEW root, RootOK(h, C, root),
         NEW trees, Tells(h, trees, Draft(h, C)), Denoted(trees, root) \in Trees,
         NEW from \in Seq(STRING), NEW path \in Seq(STRING)
  PROVE  OpTold(applyCopy(h, root, from, path), C,
                SpecAdd(Denoted(trees, root), path, ValueAt(Denoted(trees, root), from)))
  <1> DEFINE tree  == Denoted(trees, root)
             there == Walk(h, root, from)[Len(from)]
             seen  == Denoted(trees, there)
             at    == ValueAt(tree, from)
             copy  == cloneJSONValue(h, there)
  <1>1. root \in Links(Draft(h, C))
    BY DEF RootOK
  <1>2. /\ there \in Links(Draft(h, C)) /\ seen \in Trees /\ View(h, there) = seen
        /\ at = IF from # <<>> /\ IsVoid(there) THEN Invalid ELSE seen
        /\ IsVoid(seen) <=> IsVoid(there)
    BY <1>1, ThereSeen
  <1>3. there \in Links(DOMAIN h)
    BY <1>2, DraftIn
  <1>4. Copied(h, C, trees, root, copy, there)
    BY <1>3, ValueCopied
  <1>5. applyCopy(h, root, from, path) = applyAdd(copy.heap, root, path, copy.slot)
    <2>1. Lookup(h, root, from) = there
      BY <1>1, LookupIs
    <2> QED
      BY <2>1 DEF applyCopy, AddCopy
  <1> HIDE DEF copy, at, there
  <1> DEFINE k    == copy.heap
             slot == copy.slot
  <1>6. PICK more : /\ Tells(k, more, Draft(k, C)) /\ Denoted(more, root) = tree
                    /\ Denoted(more, slot) = seen
    BY <1>2, <1>4 DEF Copied
  <1>7. RegionsOK(k, C) /\ RootOK(k, C, root) /\ RootOK(k, C, slot)
    BY <1>4 DEF Copied
  <1>8. slot \in Links(Draft(k, C)) /\ slot \in Links(DOMAIN k)
    BY <1>7, DraftIn DEF RootOK
  <1> HIDE DEF k, slot, seen, tree
  <1>9. View(k, slot) = seen
    BY <1>2, <1>6, <1>7, <1>8, DraftClosed, ViewTold
  <1>10. OpTold(applyAdd(k, root, path, slot), C, SpecAdd(Denoted(more, root), path, View(k, slot)))
    BY <1>6, <1>7, <1>8, AddIsTold
  <1>11. SpecAdd(tree, path, at) = SpecAdd(tree, path, seen)
    <2>1. CASE at = seen
      BY <2>1
    <2>2. CASE at # seen
      <3>1. at = Invalid /\ IsVoid(seen)
        BY <1>2, <2>2
      <3>2. at.kind = "invalid" /\ seen.kind = "void"
        BY <3>1 DEF Invalid, Scalar, IsVoid
      <3> QED
        BY <3>2, AddNothing
    <2> QED
      BY <2>1, <2>2
  <1> QED
    BY <1>5, <1>6, <1>9, <1>10, <1>11 DEF k, slot, tree, at

LEMMA MoveIsTold ==
  ASSUME NEW h, NEW C, RegionsOK(h, C), NEW root, RootOK(h, C, root),
         NEW trees, Tells(h, trees, Draft(h, C)), Denoted(trees, root) \in Trees,
         NEW from \in Seq(STRING), NEW path \in Seq(STRING)
  PROVE  OpTold(applyMove(h, root, from, path), C, SpecMove(Denoted(trees, root), from, path))
  <1> DEFINE tree    == Denoted(trees, root)
             rest    == SpecRemove(tree, from)
             at      == ValueAt(tree, from)
             removal == applyRemove(h, root, from)
  <1>1. RemovalTold(removal, C, rest, at)
    BY RemoveIsTold
  <1>2. RemovalOK(h, C, removal)
    BY RemoveOK
  <1>3. SpecMove(tree, from, path)
          = IF IsStrictPrefix(from, path) \/ rest = Invalid THEN Invalid ELSE SpecAdd(rest, path, at)
    BY Zenon DEF SpecMove
  <1>4. applyMove(h, root, from, path)
          = IF IsStrictPrefix(from, path) THEN Broken
            ELSE IF removal.ok THEN applyAdd(removal.heap, removal.slot, path, removal.removed) ELSE Broken
    BY Zenon DEF applyMove, AddRemoved
  <1> HIDE DEF removal, rest, at
  <1>5. CASE IsStrictPrefix(from, path)
    <2>1. SpecMove(tree, from, path) = Invalid /\ applyMove(h, root, from, path) = Broken
      BY <1>3, <1>4, <1>5, Zenon
    <2> QED
      BY <2>1 DEF OpTold, Broken
  <1>6. CASE ~IsStrictPrefix(from, path) /\ rest = Invalid
    <2>1. ~removal.ok
      BY <1>1, <1>6 DEF RemovalTold, OpTold
    <2>2. SpecMove(tree, from, path) = Invalid /\ applyMove(h, root, from, path) = Broken
      BY <1>3, <1>4, <1>6, <2>1, Zenon
    <2> QED
      BY <2>2 DEF OpTold, Broken
  <1>7. CASE ~IsStrictPrefix(from, path) /\ rest # Invalid
    <2> DEFINE k    == removal.heap
               slot == removal.slot
               put  == removal.removed
    <2>1. removal.ok /\ View(k, put) = at
      BY <1>1, <1>7 DEF RemovalTold, OpTold
    <2>2. PICK more : Tells(k, more, Draft(k, C)) /\ Denoted(more, slot) = rest
      BY <1>1, <1>7 DEF RemovalTold, OpTold
    <2>3. RegionsOK(k, C) /\ RootOK(k, C, slot) /\ put \in Links(DOMAIN k)
      BY <1>2, <2>1 DEF RemovalOK, OpOK
    <2>4. /\ SpecMove(tree, from, path) = SpecAdd(rest, path, at)
          /\ applyMove(h, root, from, path) = applyAdd(k, slot, path, put)
      BY <1>3, <1>4, <1>7, <2>1, Zenon
    <2> HIDE DEF k, slot, put
    <2>5. OpTold(applyAdd(k, slot, path, put), C, SpecAdd(Denoted(more, slot), path, View(k, put)))
      BY <2>2, <2>3, AddIsTold
    <2> QED
      BY <2>1, <2>2, <2>4, <2>5
  <1> QED
    BY <1>5, <1>6, <1>7

\* The operation with its value as a client sees it.
Seen(h, op) == IF op.op \in {"add", "replace", "test"} THEN [op EXCEPT !.value = View(h, op.value)] ELSE op

LEMMA PatchOpIsTold ==
  ASSUME NEW h, NEW C, RegionsOK(h, C), NEW root, RootOK(h, C, root),
         NEW trees, Tells(h, trees, Draft(h, C)), Denoted(trees, root) \in Trees,
         NEW values, values \subseteq Links(DOMAIN h), NEW op \in Ops(values)
  PROVE  OpTold(applyPatchOp(h, root, op), C, SpecOp(Denoted(trees, root), Seen(h, op)))
  <1> DEFINE tree == Denoted(trees, root)
             seen == Seen(h, op)
  <1>1. CASE op \in [op : {"remove"}, path : Pointers]
    <2>1. op.op = "remove" /\ op.path \in Seq(STRING)
      BY <1>1, PatchAssumption
    <2>2. seen = op
      BY <2>1 DEF Seen
    <2>3. applyPatchOp(h, root, op) = applyRemove(h, root, op.path)
      BY <2>1 DEF applyPatchOp
    <2>4. SpecOp(tree, seen) = SpecRemove(tree, op.path)
      BY <2>1, <2>2 DEF SpecOp
    <2>5. RemovalTold(applyRemove(h, root, op.path), C, SpecRemove(tree, op.path), ValueAt(tree, op.path))
      BY <2>1, RemoveIsTold
    <2> QED
      BY <2>3, <2>4, <2>5 DEF RemovalTold
  <1>2. CASE op \in [op : {"add", "replace", "test"}, path : Pointers, value : values]
    <2>1. op.op \in {"add", "replace", "test"} /\ op.path \in Seq(STRING) /\ op.value \in Links(DOMAIN h)
      BY <1>2, PatchAssumption
    <2>2. seen.op = op.op /\ seen.path = op.path /\ seen.value = View(h, op.value)
      BY <1>2, <2>1 DEF Seen
    <2>3. CASE op.op = "add"
      <3>1. applyPatchOp(h, root, op) = applyAdd(h, root, op.path, op.value)
        BY <2>3 DEF applyPatchOp
      <3> HIDE DEF seen
      <3>2. SpecOp(tree, seen) = SpecAdd(tree, op.path, View(h, op.value))
        BY <2>2, <2>3 DEF SpecOp
      <3> QED
        BY <2>1, <3>1, <3>2, AddIsTold DEF seen
    <2>4. CASE op.op = "replace"
      <3>1. applyPatchOp(h, root, op) = applyReplace(h, root, op.path, op.value)
        BY <2>4 DEF applyPatchOp
      <3> HIDE DEF seen
      <3>2. SpecOp(tree, seen) = SpecReplace(tree, op.path, View(h, op.value))
        BY <2>2, <2>4 DEF SpecOp
      <3> QED
        BY <2>1, <3>1, <3>2, ReplaceIsTold DEF seen
    <2>5. CASE op.op = "test"
      <3>1. applyPatchOp(h, root, op) = applyTest(h, root, op.path, op.value)
        BY <2>5 DEF applyPatchOp
      <3> HIDE DEF seen
      <3>2. SpecOp(tree, seen) = SpecTest(tree, op.path, View(h, op.value))
        BY <2>2, <2>5 DEF SpecOp
      <3> QED
        BY <2>1, <3>1, <3>2, TestIsTold DEF seen
    <2> QED
      BY <2>1, <2>3, <2>4, <2>5
  <1>3. CASE op \in [op : {"move", "copy"}, from : Pointers, path : Pointers]
    <2>1. op.op \in {"move", "copy"} /\ op.path \in Seq(STRING) /\ op.from \in Seq(STRING)
      BY <1>3, PatchAssumption
    <2>2. seen = op
      BY <2>1 DEF Seen
    <2>3. CASE op.op = "move"
      <3>1. applyPatchOp(h, root, op) = applyMove(h, root, op.from, op.path)
        BY <2>3 DEF applyPatchOp
      <3>2. SpecOp(tree, seen) = SpecMove(tree, op.from, op.path)
        BY <2>2, <2>3 DEF SpecOp
      <3> QED
        BY <2>1, <3>1, <3>2, MoveIsTold
    <2>4. CASE op.op = "copy"
      <3>1. applyPatchOp(h, root, op) = applyCopy(h, root, op.from, op.path)
        BY <2>4 DEF applyPatchOp
      <3>2. SpecOp(tree, seen) = SpecAdd(tree, op.path, ValueAt(tree, op.from))
        BY <2>2, <2>4 DEF SpecOp
      <3> QED
        BY <2>1, <3>1, <3>2, CopyIsTold
    <2> QED
      BY <2>1, <2>3, <2>4
  <1> QED
    BY <1>1, <1>2, <1>3 DEF Ops

-----------------------------------------------------------------------------
(* From one call to the next.                                              *)

\* What some nodes denote, of a part of them that refers to itself only.
LEMMA ToldWithin ==
  ASSUME NEW h, NEW D, NEW trees, Tells(h, trees, D), NEW E, E \subseteq D, ClosedPart(h, E)
  PROVE  \E rest : /\ Tells(h, rest, E)
                   /\ \A slot \in Links(E) : Denoted(rest, slot) = Denoted(trees, slot)
  <1> DEFINE rest == [r \in E |-> trees[r]]
  <1>1. rest \in [E -> AllTrees] /\ \A r \in E : rest[r] = trees[r]
    BY DEF Tells
  <1> HIDE DEF rest
  <1>2. \A slot \in Links(E) : Denoted(rest, slot) = Denoted(trees, slot)
    BY <1>1, LinkOrScalar DEF Denoted
  <1>3. ASSUME NEW r \in E PROVE rest[r] = TreeAt(h, rest, r)
    <2>1. h[r] \in NodesWith(Links(E))
      BY NodesOfPart
    <2>2. \A i \in DOMAIN Parts(h[r]) : Parts(h[r])[i] \in Links(E)
      BY <2>1, NodeShape
    <2>3. \A i \in DOMAIN Parts(h[r]) : Denoted(rest, Parts(h[r])[i]) = Denoted(trees, Parts(h[r])[i])
      BY <1>2, <2>2
    <2>4. TreeAt(h, rest, r) = TreeAt(h, trees, r)
      BY <2>3, SameNodeShown
    <2>5. trees[r] = TreeAt(h, trees, r)
      BY DEF Tells
    <2> QED
      BY <1>1, <2>4, <2>5
  <1> QED
    BY <1>1, <1>2, <1>3 DEF Tells

\* In a heap where these nodes are as they were they denote what they did.
LEMMA ToldElsewhere ==
  ASSUME NEW h, NEW D, NEW trees, Tells(h, trees, D), NEW k, \A r \in D : k[r] = h[r]
  PROVE  Tells(k, trees, D)
  <1>1. ASSUME NEW r \in D PROVE TreeAt(k, trees, r) = TreeAt(h, trees, r)
    <2>1. k[r] = h[r]
      OBVIOUS
    <2>2. \A i \in DOMAIN Parts(h[r]) : Denoted(trees, Parts(h[r])[i]) = Denoted(trees, Parts(h[r])[i])
      OBVIOUS
    <2> QED
      BY <2>1, <2>2, SameShown
  <1> QED
    BY <1>1 DEF Tells

LEMMA OwnPart ==
  ASSUME NEW h, HeapOK(h), NEW slot \in Links(DOMAIN h)
  PROVE  ClosedPart(h, Own(h, slot)) /\ slot \in Links(Own(h, slot))
  BY OwnIs DEF ClosedPart

\* A step leaves the owners what they own, and what a client sees of it.
LEMMA MovedOwners ==
  ASSUME PInv, NEW h, NEW slot, MovesTo(h, slot)
  PROVE  /\ working' = slot /\ doc' = doc /\ patchValue' = patchValue /\ cfg' = cfg
         /\ HeapOK(heap') /\ HeapOK(h) /\ slot \in Links(DOMAIN h) /\ slot \in Links(DOMAIN heap')
         /\ Own(heap', slot) = Own(h, slot) /\ \A r \in DOMAIN heap' : heap'[r] = h[r]
         /\ Cardinality(DOMAIN heap') <= MaxNodes
         /\ View(heap', slot) = View(h, slot)
  <1> DEFINE S == Caller \cup {slot}
  <1>1. Owned(h, doc, argument, patchValue, slot) /\ Keep(h, slot)
    BY DEF MovesTo
  <1>2. /\ working' = slot /\ heap' = Collect(h, S) /\ Cardinality(DOMAIN heap') <= MaxNodes
        /\ doc' = doc /\ patchValue' = patchValue /\ cfg' = cfg
    BY <1>1 DEF Keep
  <1>3. OwnersAre(S, doc, argument, patchValue, slot) /\ slot \in S /\ S \subseteq Links(DOMAIN h)
    BY <1>1 DEF Caller, OwnersAre, Owned
  <1> HIDE DEF S
  <1>4. LET new == Collect(h, S)
        IN  /\ Owned(new, doc, argument, patchValue, slot) /\ Own(new, slot) = Own(h, slot)
            /\ \A r \in DOMAIN new : r \in DOMAIN h /\ new[r] = h[r]
    BY <1>1, <1>3, CollectOwned
  <1>5. HeapOK(h) /\ slot \in Links(DOMAIN h)
    BY <1>1 DEF Owned
  <1>6. HeapOK(heap') /\ slot \in Links(DOMAIN heap')
    BY <1>2, <1>4 DEF Owned
  <1>7. View(Collect(h, S), slot) = View(h, slot)
    BY <1>3, <1>5, CollectedView
  <1> QED
    BY <1>2, <1>4, <1>5, <1>6, <1>7

LEMMA CallerSeen ==
  ASSUME PInv, NEW h, NEW slot, MovesTo(h, slot), NEW x \in {doc, patchValue}
  PROVE  View(heap', x) = View(heap, x)
  <1> DEFINE C == Others(heap, doc, argument, patchValue)
             D == Own(heap, x)
  <1>1. PInv' /\ \A r \in C : heap'[r] = heap[r]
    BY MovedTo
  <1>2. HeapOK(heap) /\ HeapOK(heap') /\ x \in Links(DOMAIN heap)
    BY MovedOwners DEF PInv, Owned
  <1>3. Kept(heap, h, C) /\ Others(h, doc, argument, patchValue) = C
    BY DEF MovesTo
  <1>4. C \subseteq DOMAIN heap'
    <2> DEFINE S == Caller \cup {slot}
    <2>1. Owned(h, doc, argument, patchValue, slot) /\ OwnersAre(S, doc, argument, patchValue, slot)
      BY DEF MovesTo, Caller, OwnersAre
    <2>2. heap' = Collect(h, S)
      BY DEF MovesTo, Keep
    <2> HIDE DEF S, C
    <2>3. LET new == Collect(h, S)
          IN  /\ AllReached(new, doc, argument, patchValue, slot)
              /\ Own(new, doc) = Own(h, doc) /\ Own(new, argument) = Own(h, argument)
              /\ Own(new, patchValue) = Own(h, patchValue)
      BY <2>1, CollectOwned
    <2> QED
      BY <1>3, <2>2, <2>3 DEF AllReached, Others
  <1>5. D \subseteq C
    BY DEF Others
  <1>6. Closed(heap, D) /\ x \in Links(D) /\ D \subseteq DOMAIN heap
    BY <1>2, OwnIs
  <1> HIDE DEF C, D
  <1>7. D \subseteq DOMAIN heap' /\ \A r \in D : heap'[r] = heap[r]
    BY <1>1, <1>4, <1>5
  <1> QED
    BY <1>2, <1>6, <1>7, SameView

\* The draft as a step leaves it: what its nodes denote is what is seen.
LEMMA MovedDraft ==
  ASSUME PInv, NEW h, NEW slot, MovesTo(h, slot),
         NEW trees, Tells(h, trees, Own(h, slot))
  PROVE  /\ Tells(heap', trees, Own(heap', slot)) /\ Denoted(trees, slot) \in Trees
         /\ View(heap', slot) = Denoted(trees, slot)
  <1> DEFINE D == Own(heap', slot)
  <1>1. /\ HeapOK(heap') /\ slot \in Links(DOMAIN heap') /\ D = Own(h, slot)
        /\ \A r \in DOMAIN heap' : heap'[r] = h[r]
        /\ Cardinality(DOMAIN heap') <= MaxNodes
    BY MovedOwners
  <1>2. ClosedPart(heap', D) /\ slot \in Links(D)
    BY <1>1, OwnPart
  <1> HIDE DEF D
  <1>3. Tells(heap', trees, D)
    <2>1. \A r \in D : heap'[r] = h[r]
      BY <1>1, <1>2 DEF ClosedPart
    <2>2. Tells(h, trees, D)
      BY <1>1
    <2> QED
      BY <2>1, <2>2, ToldElsewhere
  <1>4. Cardinality(D) <= MaxDepth
    <2>1. IsFiniteSet(DOMAIN heap') /\ D \subseteq DOMAIN heap'
      BY <1>1, <1>2 DEF ClosedPart, HeapOK
    <2>2. Cardinality(D) <= Cardinality(DOMAIN heap') /\ IsFiniteSet(D)
      BY <2>1, FS_Subset
    <2>3. Cardinality(D) \in Nat /\ Cardinality(DOMAIN heap') \in Nat
      BY <2>1, <2>2, FS_CardinalityType
    <2>4. MaxNodes \in Nat /\ MaxDepth \in Nat /\ MaxNodes <= MaxDepth
      BY BoundsAssumption, DepthAssumption
    <2> QED
      BY <1>1, <2>2, <2>3, <2>4
  <1>5. Denoted(trees, slot) \in Trees
    BY <1>2, <1>3, <1>4, ToldInTrees
  <1>6. View(heap', slot) = Denoted(trees, slot)
    BY <1>2, <1>3, <1>5, ViewTold
  <1> QED
    BY <1>3, <1>5, <1>6 DEF D

\* The nodes of the draft, looked at from the caller's.
LEMMA OwnInDraft ==
  ASSUME NEW h, NEW C, RegionsOK(h, C), NEW slot, RootOK(h, C, slot)
  PROVE  Own(h, slot) \subseteq Draft(h, C) /\ ClosedPart(h, Own(h, slot)) /\ slot \in Links(Own(h, slot))
  <1> DEFINE D == Draft(h, C)
  <1>1. HeapOK(h) /\ slot \in Links(D) /\ Closed(h, D) /\ D \in SUBSET DOMAIN h
    BY DEF RegionsOK, RootOK, Draft
  <1>2. slot \in Links(DOMAIN h)
    BY <1>1, DraftIn
  <1> HIDE DEF D
  <1>3. /\ ClosedPart(h, Own(h, slot)) /\ slot \in Links(Own(h, slot))
    BY <1>1, <1>2, OwnPart
  <1>4. Own(h, slot) \subseteq D
    BY <1>1, <1>2, OwnIs
  <1> QED
    BY <1>3, <1>4 DEF D

\* Between two operations nothing but the draft is apart from the caller.
LEMMA OwnIsDraft ==
  ASSUME PInv, status = "applying"
  PROVE  Draft(heap, Others(heap, doc, argument, patchValue)) = Own(heap, working)
  <1>1. /\ DOMAIN heap = Others(heap, doc, argument, patchValue) \cup Own(heap, working)
        /\ Others(heap, doc, argument, patchValue) \cap Own(heap, working) = {}
    BY DEF PInv, AllReached, Owned, Apart, Others
  <1> QED
    BY <1>1 DEF Draft

\* While the patch is applied the nodes of the draft denote something, and the
\* patch holds what the caller built it from.
RInv ==
  /\ PInv /\ View(heap, patchValue) = Argument
  /\ status = "applying" =>
       \E trees : Tells(heap, trees, Own(heap, working)) /\ Denoted(trees, working) \in Trees

LEMMA SeenOps ==
  ASSUME RInv, NEW op \in Ops(Scalars \cup {patchValue})
  PROVE  Seen(heap, op) \in Ops(Scalars \cup {Argument})
  <1>1. ASSUME NEW value \in Scalars \cup {patchValue}
        PROVE  View(heap, value) \in Scalars \cup {Argument}
    <2>1. CASE value \in Scalars
      <3>1. value \in AllTrees
        BY <2>1, AnyTree, PatchAssumption
      <3>2. ~IsRef(value)
        BY <3>1, AnyTree
      <3>3. View(heap, value) = value
        BY <3>2 DEF View
      <3> QED
        BY <2>1, <3>3
    <2>2. CASE value = patchValue
      BY <2>2 DEF RInv
    <2> QED
      BY <2>1, <2>2
  <1>2. CASE op \in [op : {"add", "replace", "test"}, path : Pointers, value : Scalars \cup {patchValue}]
    <2>1. View(heap, op.value) \in Scalars \cup {Argument}
      BY <1>1, <1>2
    <2> QED
      BY <1>2, <2>1 DEF Seen, Ops
  <1>3. CASE op \in [op : {"remove"}, path : Pointers]
    BY <1>3 DEF Seen, Ops
  <1>4. CASE op \in [op : {"move", "copy"}, from : Pointers, path : Pointers]
    BY <1>4 DEF Seen, Ops
  <1> QED
    BY <1>2, <1>3, <1>4 DEF Ops

\* What is seen after a step that leaves the draft `slot` of `h`.
LEMMA MovedSeen ==
  ASSUME RInv, NEW h, NEW slot, MovesTo(h, slot),
         status' = "applying" => \E trees : Tells(h, trees, Own(h, slot))
  PROVE  /\ RInv' /\ View(heap', doc') = View(heap, doc) /\ cfg' = cfg
         /\ View(heap', working') = View(h, slot)
  <1>1. PInv
    BY DEF RInv
  <1>2. PInv' /\ working' = slot /\ doc' = doc /\ patchValue' = patchValue /\ cfg' = cfg
    BY <1>1, MovedTo, MovedOwners
  <1>3. View(heap', doc) = View(heap, doc) /\ View(heap', patchValue) = View(heap, patchValue)
    BY <1>1, CallerSeen
  <1>4. View(heap', slot) = View(h, slot)
    BY <1>1, MovedOwners
  <1>5. ASSUME status' = "applying"
        PROVE  \E trees : Tells(heap', trees, Own(heap', slot)) /\ Denoted(trees, slot) \in Trees
    <2>1. PICK trees : Tells(h, trees, Own(h, slot))
      BY <1>5
    <2> QED
      BY <1>1, <2>1, MovedDraft
  <1> QED
    BY <1>2, <1>3, <1>4, <1>5 DEF RInv

\* An operation that fails drops the draft.
LEMMA Dropped ==
  ASSUME RInv, MovesTo(heap, Void), status' # "applying"
  PROVE  RInv' /\ View(heap', doc') = View(heap, doc) /\ cfg' = cfg /\ View(heap', working') = Void
  <1>1. View(heap, Void) = Void
    BY VoidLinks DEF View
  <1> QED
    BY <1>1, MovedSeen

LEMMA DraftSeen ==
  ASSUME RInv, status = "applying", NEW C, C = Others(heap, doc, argument, patchValue)
  PROVE  \E trees : /\ Tells(heap, trees, Draft(heap, C))
                    /\ Denoted(trees, working) \in Trees
                    /\ View(heap, working) = Denoted(trees, working)
  <1>1. PICK trees : Tells(heap, trees, Own(heap, working)) /\ Denoted(trees, working) \in Trees
    BY DEF RInv
  <1>2. PInv /\ HeapOK(heap) /\ working \in Links(DOMAIN heap)
    BY DEF RInv, PInv, Owned
  <1>3. View(heap, working) = Denoted(trees, working)
    BY <1>1, <1>2, OwnPart, ViewTold
  <1>4. Draft(heap, C) = Own(heap, working)
    BY <1>2, OwnIsDraft
  <1> QED
    BY <1>1, <1>3, <1>4

LEMMA ApplyRefines ==
  ASSUME RInv, NEW op \in Ops(Scalars \cup {patchValue}), Apply(op)
  PROVE  RInv' /\ Abstract!SpecStep(Seen(heap, op))
  <1> DEFINE C     == Others(heap, doc, argument, patchValue)
             new   == applyPatchOp(heap, working, op)
             value == SpecOp(View(heap, working), Seen(heap, op))
  <1>1. /\ status = "applying" /\ applied' = applied + 1 /\ applied < MaxOps
        /\ IF new.ok THEN status' = status ELSE status' = "failed"
    BY DEF Apply, Outcome
  <1>2. PInv
    BY DEF RInv
  <1>3. RegionsOK(heap, C) /\ RootOK(heap, C, working)
    BY <1>1, <1>2, ApplyingRegions
  <1>4. IF new.ok THEN MovesTo(new.heap, new.slot) ELSE MovesTo(heap, Void)
    BY <1>2, ApplyMoves
  <1>5. Scalars \cup {patchValue} \subseteq Links(DOMAIN heap)
    <2>1. Scalars \subseteq Links(DOMAIN heap)
      BY PatchAssumption DEF Links
    <2>2. patchValue \in Links(DOMAIN heap)
      BY <1>2 DEF PInv, Owned
    <2> QED
      BY <2>1, <2>2
  <1>6. OpTold(new, C, value) /\ OpOK(heap, C, new)
    <2>1. PICK trees : /\ Tells(heap, trees, Draft(heap, C))
                       /\ Denoted(trees, working) \in Trees
                       /\ View(heap, working) = Denoted(trees, working)
      BY <1>1, DraftSeen
    <2> HIDE DEF C
    <2>2. OpTold(applyPatchOp(heap, working, op), C, SpecOp(Denoted(trees, working), Seen(heap, op)))
      BY <1>3, <1>5, <2>1, PatchOpIsTold
    <2>3. OpOK(heap, C, new)
      BY <1>3, <1>5, PatchOpOK
    <2> QED
      BY <2>1, <2>2, <2>3
  <1> HIDE DEF C, new, value
  <1>7. /\ RInv' /\ View(heap', doc') = View(heap, doc) /\ cfg' = cfg
        /\ IF value = Invalid THEN status' = "failed" /\ View(heap', working') = Void
                              ELSE status' = status   /\ View(heap', working') = value
    <2>1. CASE value = Invalid
      <3>1. ~new.ok
        BY <1>6, <2>1 DEF OpTold
      <3>2. status' = "failed" /\ MovesTo(heap, Void)
        BY <1>1, <1>4, <3>1
      <3> QED
        BY <2>1, <3>2, Dropped
    <2>2. CASE value # Invalid
      <3> DEFINE k    == new.heap
                 slot == new.slot
      <3>1. new.ok
        BY <1>6, <2>2 DEF OpTold
      <3>2. PICK more : Tells(k, more, Draft(k, C)) /\ Denoted(more, slot) = value
        BY <1>6, <2>2 DEF OpTold
      <3>3. status' = status /\ MovesTo(k, slot)
        BY <1>1, <1>4, <3>1
      <3>4. RegionsOK(k, C) /\ RootOK(k, C, slot)
        BY <1>6, <3>1 DEF OpOK
      <3> HIDE DEF k, slot
      <3>5. Own(k, slot) \subseteq Draft(k, C) /\ ClosedPart(k, Own(k, slot)) /\ slot \in Links(Own(k, slot))
        BY <3>4, OwnInDraft
      <3>6. PICK rest : Tells(k, rest, Own(k, slot)) /\ Denoted(rest, slot) = value
        BY <3>2, <3>5, ToldWithin
      <3>7. /\ RInv' /\ View(heap', doc') = View(heap, doc) /\ cfg' = cfg
            /\ View(heap', working') = View(k, slot)
        BY <3>3, <3>6, MovedSeen
      <3>8. View(heap', slot) = value /\ View(heap', slot) = View(k, slot)
        BY <1>2, <3>3, <3>6, MovedDraft, MovedOwners
      <3> QED
        BY <2>2, <3>3, <3>7, <3>8
    <2> QED
      BY <2>1, <2>2
  <1>8. Abstract!SpecStep(Seen(heap, op))
    <2>1. Abstract!Void = Void
      BY DEF Abstract!Void, Abstract!Scalar, Void, Scalar
    <2>2. UNCHANGED <<View(heap, doc), cfg.hasSchema>>
      BY <1>7
    <2> QED
      BY <1>1, <1>7, <2>1, <2>2 DEF Abstract!SpecStep, value
  <1> QED
    BY <1>7, <1>8

LEMMA FinishRefines ==
  ASSUME RInv, Finish
  PROVE  RInv' /\ Abstract!SpecFinish
  <1> DEFINE norm == normalizeValueForSchema(View(heap, working), Root)
             new  == Store(heap, norm.value, TRUE, Root)
  <1>1. /\ status = "applying" /\ applied' = applied
        /\ IF ~cfg.hasSchema THEN status' = "done"
           ELSE IF ~norm.ok THEN status' = "failed" ELSE status' = "done"
    BY DEF Finish
  <1>2. PInv /\ HeapOK(heap)
    BY DEF RInv, PInv, Owned
  <1>3. IF ~cfg.hasSchema THEN MovesTo(heap, working)
        ELSE IF ~norm.ok THEN MovesTo(heap, Void)
        ELSE norm.value \in Trees /\ MovesTo(new.heap, new.slot)
    BY <1>2, FinishMoves
  <1>4. norm.value \in Trees => View(new.heap, new.slot) = norm.value
    <2> HIDE DEF norm
    <2> QED
      BY <1>2, EntriesBelow, StoredView
  <1> HIDE DEF norm, new
  <1>5. /\ RInv' /\ View(heap', doc') = View(heap, doc) /\ cfg' = cfg
        /\ IF ~cfg.hasSchema THEN status' = "done" /\ View(heap', working') = View(heap, working)
           ELSE IF norm.ok THEN status' = "done" /\ View(heap', working') = norm.value
           ELSE status' = "failed" /\ View(heap', working') = Void
    <2>1. CASE ~cfg.hasSchema
      <3>1. MovesTo(heap, working) /\ status' = "done"
        BY <1>1, <1>3, <2>1
      <3> QED
        BY <2>1, <3>1, MovedSeen
    <2>2. CASE cfg.hasSchema /\ ~norm.ok
      <3>1. MovesTo(heap, Void) /\ status' = "failed"
        BY <1>1, <1>3, <2>2
      <3> QED
        BY <2>2, <3>1, Dropped
    <2>3. CASE cfg.hasSchema /\ norm.ok
      <3>1. norm.value \in Trees /\ MovesTo(new.heap, new.slot) /\ status' = "done"
        BY <1>1, <1>3, <2>3
      <3>2. /\ RInv' /\ View(heap', doc') = View(heap, doc) /\ cfg' = cfg
            /\ View(heap', working') = View(new.heap, new.slot)
        BY <3>1, MovedSeen
      <3> QED
        BY <1>4, <2>3, <3>1, <3>2
    <2> QED
      BY <2>1, <2>2, <2>3
  <1>6. Abstract!SpecFinish
    <2>1. Abstract!Void = Void
      BY DEF Abstract!Void, Abstract!Scalar, Void, Scalar
    <2>2. UNCHANGED <<View(heap, doc), cfg.hasSchema, applied>>
      BY <1>1, <1>5
    <2> QED
      BY <1>1, <1>5, <2>1, <2>2 DEF Abstract!SpecFinish, NormalForm, norm
  <1> QED
    BY <1>5, <1>6

\* What was there before a value was stored is seen as it was.
LEMMA AddedSeen ==
  ASSUME NEW h, HeapOK(h), NEW new, NEW slot, Added(h, new, slot), NEW x \in Links(DOMAIN h)
  PROVE  View(new, x) = View(h, x)
  <1> DEFINE D == DOMAIN h
  <1>1. HeapOK(new) /\ D \subseteq DOMAIN new /\ \A r \in D : new[r] = h[r]
    BY DEF Added
  <1>2. Closed(h, D) /\ D \subseteq DOMAIN h
    BY HeapClosed
  <1> HIDE DEF D
  <1>3. x \in Links(D)
    BY DEF D
  <1> QED
    BY <1>1, <1>2, <1>3, SameView

\* The nodes of a clone denote what was cloned.
LEMMA FreshTold ==
  ASSUME NEW h, HeapOK(h), NEW value \in Links(DOMAIN h),
         NEW copy, copy = cloneJSONValue(h, value)
  PROVE  /\ View(copy.heap, copy.slot) = View(h, value) /\ View(h, value) \in Trees
         /\ \E trees : /\ Tells(copy.heap, trees, Own(copy.heap, copy.slot))
                       /\ Denoted(trees, copy.slot) \in Trees
  <1> DEFINE C    == DOMAIN h
             none == [r \in {} |-> Void]
  <1>1. View(h, value) \in Trees
    BY ViewIsTree
  <1>2. View(copy.heap, copy.slot) = View(h, value)
    <2>1. copy = Store(h, View(h, value), FALSE, NoEntry)
      BY DEF cloneJSONValue
    <2> DEFINE tree == View(h, value)
    <2> HIDE DEF tree
    <2>2. LET store == Store(h, tree, FALSE, NoEntry) IN View(store.heap, store.slot) = tree
      BY <1>1, EntriesBelow, StoredView DEF tree
    <2> QED
      BY <2>1, <2>2 DEF tree
  <1>3. Draft(h, C) = {}
    BY DEF Draft
  <1>4. RegionsOK(h, C)
    <2>1. Closed(h, C)
      BY HeapClosed
    <2>2. Closed(h, {}) /\ OnePlace(h, {})
      BY DEF Closed, OnePlace
    <2> QED
      BY <1>3, <2>1, <2>2 DEF RegionsOK
  <1>5. Tells(h, none, Draft(h, C))
    BY <1>3 DEF Tells
  <1> HIDE DEF C, none
  <1>6. PICK more : /\ Tells(copy.heap, more, Draft(copy.heap, C))
                    /\ Denoted(more, copy.slot) = View(h, value)
    BY <1>4, <1>5, CloneTells
  <1>7. Own(copy.heap, copy.slot) = Draft(copy.heap, C)
    <2>1. Added(h, copy.heap, copy.slot)
      BY Cloned DEF StoredIn
    <2> QED
      BY <2>1, AddedApart DEF Draft, C
  <1> QED
    BY <1>1, <1>2, <1>6, <1>7

LEMMA InitSeen ==
  ASSUME NEW document \in Trees, NEW attached \in BOOLEAN, NEW entry \in Entries
  PROVE  LET d == Store(EmptyHeap, document, attached, entry)
             a == Store(d.heap, Argument, FALSE, NoEntry)
             p == cloneJSONValue(a.heap, a.slot)
             w == cloneJSONValue(p.heap, d.slot)
         IN  /\ View(w.heap, w.slot) = View(w.heap, d.slot) /\ View(w.heap, p.slot) = Argument
             /\ \E trees : /\ Tells(w.heap, trees, Own(w.heap, w.slot))
                           /\ Denoted(trees, w.slot) \in Trees
  <1> DEFINE d == Store(EmptyHeap, document, attached, entry)
             a == Store(d.heap, Argument, FALSE, NoEntry)
             p == cloneJSONValue(a.heap, a.slot)
             w == cloneJSONValue(p.heap, d.slot)
  <1>1. HeapOK(d.heap) /\ d.slot \in Links(DOMAIN d.heap)
    <2>1. Added(EmptyHeap, d.heap, d.slot)
      BY EmptyHeapOK, Stored DEF StoredIn
    <2> QED
      BY <2>1, EmptyHeapOK, AddedApart
  <1> HIDE DEF d
  <1>2. Added(d.heap, a.heap, a.slot) /\ View(a.heap, a.slot) = Argument
    <2>1. Argument \in Trees /\ NoEntry \in Entries
      BY PatchAssumption, EntriesBelow
    <2>2. Added(d.heap, a.heap, a.slot)
      BY <1>1, <2>1, Stored DEF StoredIn
    <2> QED
      BY <1>1, <2>1, <2>2, StoredView
  <1> HIDE DEF a
  <1>3. HeapOK(a.heap) /\ a.slot \in Links(DOMAIN a.heap) /\ d.slot \in Links(DOMAIN a.heap)
    BY <1>1, <1>2, AddedApart
  <1>4. Added(a.heap, p.heap, p.slot)
    BY <1>3, Cloned DEF StoredIn
  <1>5. View(p.heap, p.slot) = Argument
    BY <1>2, <1>3, FreshTold
  <1>6. HeapOK(p.heap) /\ d.slot \in Links(DOMAIN p.heap) /\ p.slot \in Links(DOMAIN p.heap)
    BY <1>3, <1>4, AddedApart
  <1> HIDE DEF p
  <1>7. Added(p.heap, w.heap, w.slot)
    BY <1>6, Cloned DEF StoredIn
  <1>8. /\ View(w.heap, w.slot) = View(p.heap, d.slot)
        /\ \E trees : /\ Tells(w.heap, trees, Own(w.heap, w.slot))
                      /\ Denoted(trees, w.slot) \in Trees
    BY <1>6, FreshTold
  <1>9. View(w.heap, d.slot) = View(p.heap, d.slot) /\ View(w.heap, p.slot) = View(p.heap, p.slot)
    BY <1>6, <1>7, AddedSeen
  <1> HIDE DEF w
  <1> SUFFICES /\ View(w.heap, w.slot) = View(w.heap, d.slot) /\ View(w.heap, p.slot) = Argument
               /\ \E trees : /\ Tells(w.heap, trees, Own(w.heap, w.slot))
                             /\ Denoted(trees, w.slot) \in Trees
    BY DEF d, a, p, w
  <1> QED
    BY <1>5, <1>8, <1>9

LEMMA InitRefines == Init => RInv /\ Abstract!SpecInit
  <1> SUFFICES ASSUME Init PROVE RInv /\ Abstract!SpecInit
    OBVIOUS
  <1>1. PICK document \in Documents, attached \in BOOLEAN, supplied \in BOOLEAN :
          LET norm == normalizeValueForSchema(document, Root)
          IN  /\ attached => norm.ok /\ norm.value \in Trees
              /\ Begin(EmptyHeap, IF attached THEN norm.value ELSE document, attached, supplied)
    BY DEF Init
  <1> DEFINE tree  == IF attached THEN normalizeValueForSchema(document, Root).value ELSE document
             entry == IF attached THEN Root ELSE NoEntry
  <1>2. tree \in Trees /\ entry \in Entries
    BY <1>1, PatchAssumption, EntriesBelow
  <1>3. Begin(EmptyHeap, tree, attached, supplied)
    BY <1>1
  <1> HIDE DEF tree
  <1>4. /\ View(heap, working) = View(heap, doc) /\ View(heap, patchValue) = Argument
        /\ \E trees : /\ Tells(heap, trees, Own(heap, working))
                      /\ Denoted(trees, working) \in Trees
    BY <1>2, <1>3, InitSeen DEF Begin
  <1>5. PInv
    BY InitInv
  <1>6. status = "applying" /\ applied = 0
    BY DEF Init
  <1> QED
    BY <1>4, <1>5, <1>6 DEF RInv, Abstract!SpecInit

\* ApplyPatch, seen by its caller, is RFC 6902: editing the clone in place, node
\* by node, through pointers resolved anew for each operation, makes of a
\* document what the operations on immutable values make of it, in their order;
\* one that fails drops everything that was done before, and the end is the
\* normal form of the last draft.
THEOREM PatchIsRFC6902 == Spec => ImplementsPatchSpec
  <1>1. RInv /\ [Next]_vars => RInv' /\ [Abstract!SpecNext]_Abstract!specVars
    <2> SUFFICES ASSUME RInv, [Next]_vars
                 PROVE  RInv' /\ [Abstract!SpecNext]_Abstract!specVars
      OBVIOUS
    <2>1. CASE Finish
      BY <2>1, FinishRefines DEF Abstract!SpecNext
    <2>2. CASE \E op \in Ops(Scalars \cup {patchValue}) : Apply(op)
      <3>1. PICK op \in Ops(Scalars \cup {patchValue}) : Apply(op)
        BY <2>2
      <3>2. RInv' /\ Abstract!SpecStep(Seen(heap, op))
        BY <3>1, ApplyRefines
      <3>3. Seen(heap, op) \in Ops(Scalars \cup {Argument})
        BY <3>1, SeenOps
      <3> QED
        BY <3>2, <3>3 DEF Abstract!SpecNext
    <2>3. CASE UNCHANGED vars
      BY <2>3, StutterInv DEF RInv, vars, Abstract!specVars
    <2> QED
      BY <2>1, <2>2, <2>3 DEF Next
  <1>2. Spec => [][Abstract!SpecNext]_Abstract!specVars
    BY <1>1, InitRefines, PTL DEF Spec
  <1>3. Spec => Abstract!SpecInit
    BY InitRefines, PTL DEF Spec
  <1> QED
    BY <1>2, <1>3, PTL DEF ImplementsPatchSpec, Abstract!PatchSpecification
=============================================================================
