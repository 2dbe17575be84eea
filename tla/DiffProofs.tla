----------------------------- MODULE DiffProofs -----------------------------
(***************************************************************************)
(* Diff and the application of its patch, for every pair of documents.     *)
(*                                                                         *)
(* What holds of the patch is proved of two values of any depth, by        *)
(* induction on it: its first operation, applied to the first value, leaves*)
(* a value from which the rest of the patch is the patch to the second     *)
(* (OneStep), and there is none exactly when the values are equal          *)
(* (EmptyIff).  A patch that is written down is read back as it was        *)
(* (PatchWritten).  Normalising tells no two equal values apart            *)
(* (NormalRespects), so that what has become equal to `after` stays so     *)
(* when the schema is applied in the end.  The inductive invariant is      *)
(* DiffInv.                                                                *)
(***************************************************************************)
EXTENDS Diff, NodeHeapProofs

-----------------------------------------------------------------------------
(* What the recursive definitions say.                                     *)

EqualAt(n, below) ==
  [a \in Trees |-> [b \in Trees |-> equalAround(a, b, IF n = 0 THEN <<>> ELSE below)]]

OpsAt(n, below) ==
  [left \in Trees |-> [right \in Trees |->
     appendDiffOps(left, right, IF n = 0 THEN <<>> ELSE below)]]

DiffScalars ==
  {s \in ScalarValues : ~IsVoid(s) /\ (s.kind = "number" => s.text \in DOMAIN NumberValue)}

DiffObjects(values) ==
  {o \in ObjectsOf(values) : KeysOf(o.fields) \subseteq Range(SortedKeys) /\ Distinct(o.fields)}

DiffArrays(values) == {a \in ArraysOf(values) : Len(a.items) <= MaxIndex + 1}

DiffableAt(n, below) ==
  IF n = 0 THEN DiffScalars ELSE DiffScalars \cup DiffObjects(below) \cup DiffArrays(below)

LEMMA EqualIs ==
  ASSUME NEW n \in 0..MaxDepth
  PROVE  equal[n] = EqualAt(n, equal[n - 1])
  <1> DEFINE Is(g, m) == g = [i \in 0..m |-> EqualAt(i, g[i - 1])]
             T == {m \in Nat : \E g : Is(g, m)}
  <1>0. \A x, y : EqualAt(0, x) = EqualAt(0, y)
    BY DEF EqualAt
  <1>1. 0 \in T
    <2> DEFINE g == [i \in 0..0 |-> EqualAt(0, Void)]
    <2>1. g = [i \in 0..0 |-> EqualAt(i, g[i - 1])]
      <3>1. \A i \in 0..0 : i = 0
        OBVIOUS
      <3>2. \A i \in 0..0 : EqualAt(0, Void) = EqualAt(i, g[i - 1])
        BY <1>0, <3>1, Zenon
      <3> QED
        BY <3>2, Zenon
    <2> QED
      BY <2>1, Zenon
  <1>2. ASSUME NEW m \in Nat, m \in T PROVE m + 1 \in T
    <2>1. PICK g : Is(g, m)
      BY <1>2
    <2> DEFINE h == [i \in 0..m + 1 |-> IF i = m + 1 THEN EqualAt(m + 1, g[m]) ELSE g[i]]
    <2>2. \A i \in 0..m : g[i] = EqualAt(i, g[i - 1])
      BY <2>1, Zenon
    <2>3. ASSUME NEW i \in 0..m + 1 PROVE h[i] = EqualAt(i, h[i - 1])
      <3>1. CASE i = m + 1
        <4>1. h[i] = EqualAt(m + 1, g[m]) /\ h[i - 1] = g[m]
          BY <3>1
        <4> QED
          BY <3>1, <4>1, Zenon
      <3>2. CASE i # m + 1 /\ i # 0
        <4>1. i \in 0..m /\ h[i] = g[i] /\ h[i - 1] = g[i - 1]
          BY <3>2
        <4> QED
          BY <2>2, <4>1, Zenon
      <3>3. CASE i = 0
        <4>1. i \in 0..m /\ h[i] = g[i]
          BY <3>3
        <4>2. g[i] = EqualAt(i, g[i - 1])
          BY <2>2, <4>1
        <4> QED
          BY <1>0, <3>3, <4>1, <4>2, Zenon
      <3> QED
        BY <3>1, <3>2, <3>3
    <2>4. Is(h, m + 1)
      <3>1. h = [i \in 0..m + 1 |-> h[i]]
        OBVIOUS
      <3> HIDE DEF h
      <3> QED
        BY <2>3, <3>1, Zenon
    <2>5. m + 1 \in Nat
      OBVIOUS
    <2> HIDE DEF Is
    <2> QED
      BY <2>4, <2>5, Zenon
  <1> HIDE DEF T
  <1>3. MaxDepth \in T
    BY <1>1, <1>2, DepthAssumption, Induction
  <1> DEFINE One(g, depth) ==
           [a \in Trees |-> [b \in Trees |->
              equalAround(a, b, IF depth = 0 THEN <<>> ELSE g[depth - 1])]]
         Lit(g) == g = [depth \in 0..MaxDepth |-> One(g, depth)]
  <1>4. equal = CHOOSE g : Lit(g)
    BY DEF equal
  <1>5. ASSUME NEW g, NEW depth \in 0..MaxDepth
        PROVE  EqualAt(depth, g[depth - 1]) = One(g, depth)
    BY DEF EqualAt
  <1> HIDE DEF One
  <1>6. \A g : Is(g, MaxDepth) <=> Lit(g)
    BY <1>5, Zenon
  <1> HIDE DEF Lit
  <1>7. Is(equal, MaxDepth)
    BY <1>3, <1>4, <1>6, Zenon DEF T
  <1> QED
    BY <1>7, Zenon

LEMMA OpsIs ==
  ASSUME NEW n \in 0..MaxDepth
  PROVE  opsBetween[n] = OpsAt(n, opsBetween[n - 1])
  <1> DEFINE Is(g, m) == g = [i \in 0..m |-> OpsAt(i, g[i - 1])]
             T == {m \in Nat : \E g : Is(g, m)}
  <1>0. \A x, y : OpsAt(0, x) = OpsAt(0, y)
    BY DEF OpsAt
  <1>1. 0 \in T
    <2> DEFINE g == [i \in 0..0 |-> OpsAt(0, Void)]
    <2>1. g = [i \in 0..0 |-> OpsAt(i, g[i - 1])]
      <3>1. \A i \in 0..0 : i = 0
        OBVIOUS
      <3>2. \A i \in 0..0 : OpsAt(0, Void) = OpsAt(i, g[i - 1])
        BY <1>0, <3>1, Zenon
      <3> QED
        BY <3>2, Zenon
    <2> QED
      BY <2>1, Zenon
  <1>2. ASSUME NEW m \in Nat, m \in T PROVE m + 1 \in T
    <2>1. PICK g : Is(g, m)
      BY <1>2
    <2> DEFINE h == [i \in 0..m + 1 |-> IF i = m + 1 THEN OpsAt(m + 1, g[m]) ELSE g[i]]
    <2>2. \A i \in 0..m : g[i] = OpsAt(i, g[i - 1])
      BY <2>1, Zenon
    <2>3. ASSUME NEW i \in 0..m + 1 PROVE h[i] = OpsAt(i, h[i - 1])
      <3>1. CASE i = m + 1
        <4>1. h[i] = OpsAt(m + 1, g[m]) /\ h[i - 1] = g[m]
          BY <3>1
        <4> QED
          BY <3>1, <4>1, Zenon
      <3>2. CASE i # m + 1 /\ i # 0
        <4>1. i \in 0..m /\ h[i] = g[i] /\ h[i - 1] = g[i - 1]
          BY <3>2
        <4> QED
          BY <2>2, <4>1, Zenon
      <3>3. CASE i = 0
        <4>1. i \in 0..m /\ h[i] = g[i]
          BY <3>3
        <4>2. g[i] = OpsAt(i, g[i - 1])
          BY <2>2, <4>1
        <4> QED
          BY <1>0, <3>3, <4>1, <4>2, Zenon
      <3> QED
        BY <3>1, <3>2, <3>3
    <2>4. Is(h, m + 1)
      <3>1. h = [i \in 0..m + 1 |-> h[i]]
        OBVIOUS
      <3> HIDE DEF h
      <3> QED
        BY <2>3, <3>1, Zenon
    <2>5. m + 1 \in Nat
      OBVIOUS
    <2> HIDE DEF Is
    <2> QED
      BY <2>4, <2>5, Zenon
  <1> HIDE DEF T
  <1>3. MaxDepth \in T
    BY <1>1, <1>2, DepthAssumption, Induction
  <1> DEFINE One(g, depth) ==
           [left \in Trees |-> [right \in Trees |->
              appendDiffOps(left, right, IF depth = 0 THEN <<>> ELSE g[depth - 1])]]
         Lit(g) == g = [depth \in 0..MaxDepth |-> One(g, depth)]
  <1>4. opsBetween = CHOOSE g : Lit(g)
    BY DEF opsBetween
  <1>5. ASSUME NEW g, NEW depth \in 0..MaxDepth
        PROVE  OpsAt(depth, g[depth - 1]) = One(g, depth)
    BY DEF OpsAt
  <1> HIDE DEF One
  <1>6. \A g : Is(g, MaxDepth) <=> Lit(g)
    BY <1>5, Zenon
  <1> HIDE DEF Lit
  <1>7. Is(opsBetween, MaxDepth)
    BY <1>3, <1>4, <1>6, Zenon DEF T
  <1> QED
    BY <1>7, Zenon

LEMMA DiffableIs ==
  ASSUME NEW n \in 0..MaxDepth
  PROVE  Diffable[n] = DiffableAt(n, Diffable[n - 1])
  <1> DEFINE Is(g, m) == g = [i \in 0..m |-> DiffableAt(i, g[i - 1])]
             T == {m \in Nat : \E g : Is(g, m)}
  <1>0. \A x, y : DiffableAt(0, x) = DiffableAt(0, y)
    BY DEF DiffableAt
  <1>1. 0 \in T
    <2> DEFINE g == [i \in 0..0 |-> DiffableAt(0, Void)]
    <2>1. g = [i \in 0..0 |-> DiffableAt(i, g[i - 1])]
      <3>1. \A i \in 0..0 : i = 0
        OBVIOUS
      <3>2. \A i \in 0..0 : DiffableAt(0, Void) = DiffableAt(i, g[i - 1])
        BY <1>0, <3>1, Zenon
      <3> QED
        BY <3>2, Zenon
    <2> QED
      BY <2>1, Zenon
  <1>2. ASSUME NEW m \in Nat, m \in T PROVE m + 1 \in T
    <2>1. PICK g : Is(g, m)
      BY <1>2
    <2> DEFINE h == [i \in 0..m + 1 |-> IF i = m + 1 THEN DiffableAt(m + 1, g[m]) ELSE g[i]]
    <2>2. \A i \in 0..m : g[i] = DiffableAt(i, g[i - 1])
      BY <2>1, Zenon
    <2>3. ASSUME NEW i \in 0..m + 1 PROVE h[i] = DiffableAt(i, h[i - 1])
      <3>1. CASE i = m + 1
        <4>1. h[i] = DiffableAt(m + 1, g[m]) /\ h[i - 1] = g[m]
          BY <3>1
        <4> QED
          BY <3>1, <4>1, Zenon
      <3>2. CASE i # m + 1 /\ i # 0
        <4>1. i \in 0..m /\ h[i] = g[i] /\ h[i - 1] = g[i - 1]
          BY <3>2
        <4> QED
          BY <2>2, <4>1, Zenon
      <3>3. CASE i = 0
        <4>1. i \in 0..m /\ h[i] = g[i]
          BY <3>3
        <4>2. g[i] = DiffableAt(i, g[i - 1])
          BY <2>2, <4>1
        <4> QED
          BY <1>0, <3>3, <4>1, <4>2, Zenon
      <3> QED
        BY <3>1, <3>2, <3>3
    <2>4. Is(h, m + 1)
      <3>1. h = [i \in 0..m + 1 |-> h[i]]
        OBVIOUS
      <3> HIDE DEF h
      <3> QED
        BY <2>3, <3>1, Zenon
    <2>5. m + 1 \in Nat
      OBVIOUS
    <2> HIDE DEF Is
    <2> QED
      BY <2>4, <2>5, Zenon
  <1> HIDE DEF T
  <1>3. MaxDepth \in T
    BY <1>1, <1>2, DepthAssumption, Induction
  <1>4. Diffable = CHOOSE g : Is(g, MaxDepth)
    BY Zenon DEF Diffable, DiffableAt, DiffScalars, DiffObjects, DiffArrays, Distinct
  <1>7. Is(Diffable, MaxDepth)
    BY <1>3, <1>4, Zenon DEF T
  <1> QED
    BY <1>7, Zenon
-----------------------------------------------------------------------------
(* The values that are diffed.                                             *)

LEMMA NestedInTrees == \A n \in 0..MaxDepth : Nested[n] \subseteq Trees
  <1> DEFINE T == {m \in Nat : m <= MaxDepth => Nested[MaxDepth - m] \subseteq Trees}
  <1>1. 0 \in T
    BY DepthAssumption DEF Trees
  <1>2. ASSUME NEW m \in Nat, m \in T PROVE m + 1 \in T
    <2>1. CASE m + 1 <= MaxDepth
      <3>1. MaxDepth - (m + 1) \in Nat /\ MaxDepth - (m + 1) + 1 = MaxDepth - m
        BY <2>1, DepthAssumption
      <3>2. Nested[MaxDepth - (m + 1)] \subseteq Nested[MaxDepth - m]
        BY <3>1, NestedGrows
      <3>3. Nested[MaxDepth - m] \subseteq Trees
        BY <1>2, <2>1, DepthAssumption
      <3> QED
        BY <3>2, <3>3
    <2> QED
      BY <2>1
  <1> HIDE DEF T
  <1>3. \A m \in Nat : m \in T
    BY <1>1, <1>2, Induction
  <1> QED
    <2> SUFFICES ASSUME NEW n \in 0..MaxDepth PROVE Nested[n] \subseteq Trees
      OBVIOUS
    <2>1. MaxDepth - n \in Nat /\ MaxDepth - n <= MaxDepth /\ MaxDepth - (MaxDepth - n) = n
      BY DepthAssumption
    <2> QED
      BY <1>3, <2>1 DEF T

LEMMA DiffScalarIs ==
  ASSUME NEW v \in DiffScalars
  PROVE  /\ v \in ScalarValues /\ ~IsVoid(v) /\ ~IsContainer(v)
         /\ v.kind = "number" => v.text \in DOMAIN NumberValue
  BY ScalarKind DEF DiffScalars

LEMMA DiffObjectIs ==
  ASSUME NEW V, NEW v \in DiffObjects(V)
  PROVE  /\ v \in ObjectsOf(V) /\ v.kind = "object" /\ v = Object(v.fields)
         /\ v.fields \in Seq(FieldsOf(STRING, V)) /\ Distinct(v.fields)
         /\ KeysOf(v.fields) \subseteq Range(SortedKeys)
         /\ IsContainer(v) /\ ~IsVoid(v)
  BY DEF DiffObjects, ObjectsOf, Object, IsContainer, IsVoid

LEMMA DiffArrayIs ==
  ASSUME NEW V, NEW v \in DiffArrays(V)
  PROVE  /\ v \in ArraysOf(V) /\ v.kind = "array" /\ v = Array(v.items)
         /\ v.items \in Seq(V) /\ Len(v.items) <= MaxIndex + 1
         /\ IsContainer(v) /\ ~IsVoid(v)
  BY DEF DiffArrays, ArraysOf, Array, IsContainer, IsVoid

LEMMA ObjectInDiffable ==
  ASSUME NEW V, NEW fields \in Seq(FieldsOf(STRING, V)), Distinct(fields),
         KeysOf(fields) \subseteq Range(SortedKeys)
  PROVE  Object(fields) \in DiffObjects(V)
  BY DEF DiffObjects, ObjectsOf, Object

LEMMA ArrayInDiffable ==
  ASSUME NEW V, NEW items \in Seq(V), Len(items) <= MaxIndex + 1
  PROVE  Array(items) \in DiffArrays(V)
  BY DEF DiffArrays, ArraysOf, Array

LEMMA DiffableLevels ==
  ASSUME NEW n \in 0..MaxDepth
  PROVE  /\ n = 0 => Diffable[n] = DiffScalars
         /\ n # 0 => Diffable[n] = DiffScalars \cup DiffObjects(Diffable[n - 1])
                                     \cup DiffArrays(Diffable[n - 1])
  BY DiffableIs, Zenon DEF DiffableAt

LEMMA DiffableNests == \A n \in 0..MaxDepth : Diffable[n] \subseteq Nested[n]
  <1> DEFINE T == {m \in Nat : m <= MaxDepth => Diffable[m] \subseteq Nested[m]}
  <1>1. 0 \in T
    <2>1. 0 \in 0..MaxDepth
      BY DepthAssumption
    <2>2. Diffable[0] = DiffScalars
      BY <2>1, DiffableLevels
    <2> QED
      BY <2>2, NestedIs DEF DiffScalars
  <1>2. ASSUME NEW m \in Nat, m \in T PROVE m + 1 \in T
    <2>1. CASE m + 1 <= MaxDepth
      <3>1. m + 1 \in 0..MaxDepth /\ m + 1 # 0 /\ (m + 1) - 1 = m
        BY <2>1, DepthAssumption
      <3>2. Diffable[m + 1] = DiffScalars \cup DiffObjects(Diffable[m]) \cup DiffArrays(Diffable[m])
        BY <3>1, DiffableLevels
      <3>3. Diffable[m] \subseteq Nested[m]
        BY <1>2, <3>1, DepthAssumption
      <3>4. ASSUME NEW v \in Diffable[m + 1] PROVE v \in Nested[m + 1]
        <4>1. Nested[m + 1] = Around(Nested[m])
          BY NestedIs
        <4>2. CASE v \in DiffScalars
          BY <4>1, <4>2 DEF Around, DiffScalars
        <4>3. CASE v \in DiffObjects(Diffable[m])
          <5>1. v.fields \in Seq(FieldsOf(STRING, Diffable[m])) /\ v = Object(v.fields)
            BY <4>3, DiffObjectIs
          <5>2. FieldsOf(STRING, Diffable[m]) \subseteq FieldsOf(STRING, Nested[m])
            BY <3>3 DEF FieldsOf
          <5>3. v.fields \in Seq(FieldsOf(STRING, Nested[m]))
            BY <5>1, <5>2
          <5> QED
            BY <4>1, <5>1, <5>3 DEF Around, ObjectsOf, Object
        <4>4. CASE v \in DiffArrays(Diffable[m])
          <5>1. v.items \in Seq(Diffable[m]) /\ v = Array(v.items)
            BY <4>4, DiffArrayIs
          <5>2. v.items \in Seq(Nested[m])
            BY <3>3, <5>1
          <5> QED
            BY <4>1, <5>1, <5>2 DEF Around, ArraysOf, Array
        <4> QED
          BY <3>2, <4>2, <4>3, <4>4
      <3> QED
        BY <3>4
    <2> QED
      BY <2>1
  <1> HIDE DEF T
  <1>3. \A m \in Nat : m \in T
    BY <1>1, <1>2, Induction
  <1> QED
    BY <1>3, DepthAssumption DEF T

\* What kinds of values there are, and what their parts are.
LEMMA DiffableShape ==
  ASSUME NEW n \in 0..MaxDepth, NEW v \in Diffable[n]
  PROVE  /\ v \in Trees /\ ~IsVoid(v)
         /\ ~IsContainer(v) => v \in DiffScalars
         /\ v.kind = "object" => n # 0 /\ n - 1 \in 0..MaxDepth
                                   /\ v \in DiffObjects(Diffable[n - 1])
         /\ v.kind = "array" => n # 0 /\ n - 1 \in 0..MaxDepth
                                  /\ v \in DiffArrays(Diffable[n - 1])
  <1>1. v \in Trees
    BY DiffableNests, NestedInTrees
  <1>2. CASE v \in DiffScalars
    BY <1>1, <1>2, DiffScalarIs DEF IsContainer
  <1>3. CASE v \notin DiffScalars
    <2>1. n # 0 /\ n - 1 \in 0..MaxDepth
      BY <1>3, DiffableLevels, DepthAssumption
    <2>2. v \in DiffObjects(Diffable[n - 1]) \/ v \in DiffArrays(Diffable[n - 1])
      BY <1>3, <2>1, DiffableLevels
    <2>3. CASE v \in DiffObjects(Diffable[n - 1])
      BY <1>1, <2>1, <2>3, DiffObjectIs
    <2>4. CASE v \in DiffArrays(Diffable[n - 1])
      BY <1>1, <2>1, <2>4, DiffArrayIs
    <2> QED
      BY <2>2, <2>3, <2>4
  <1> QED
    BY <1>2, <1>3

\* The deeper, the more.
LEMMA DiffableGrows ==
  ASSUME NEW n \in 0..MaxDepth, n + 1 \in 0..MaxDepth
  PROVE  Diffable[n] \subseteq Diffable[n + 1]
  <1> DEFINE T == {m \in Nat : m + 1 <= MaxDepth => Diffable[m] \subseteq Diffable[m + 1]}
  <1>1. 0 \in T
    <2>1. CASE 0 + 1 <= MaxDepth
      <3>1. 0 \in 0..MaxDepth /\ 0 + 1 \in 0..MaxDepth /\ 0 + 1 # 0
        BY <2>1, DepthAssumption
      <3> QED
        BY <3>1, DiffableLevels
    <2> QED
      BY <2>1
  <1>2. ASSUME NEW m \in Nat, m \in T PROVE m + 1 \in T
    <2>1. CASE (m + 1) + 1 <= MaxDepth
      <3>1. /\ m + 1 \in 0..MaxDepth /\ m + 1 # 0 /\ (m + 1) - 1 = m
            /\ (m + 1) + 1 \in 0..MaxDepth /\ (m + 1) + 1 # 0 /\ ((m + 1) + 1) - 1 = m + 1
        BY <2>1, DepthAssumption
      <3>2. Diffable[m] \subseteq Diffable[m + 1]
        BY <1>2, <2>1, DepthAssumption
      <3>3. Diffable[m + 1] = DiffScalars \cup DiffObjects(Diffable[m]) \cup DiffArrays(Diffable[m])
        BY <3>1, DiffableLevels
      <3>4. Diffable[(m + 1) + 1] = DiffScalars \cup DiffObjects(Diffable[m + 1])
                                     \cup DiffArrays(Diffable[m + 1])
        BY <3>1, DiffableLevels
      <3>5. DiffObjects(Diffable[m]) \subseteq DiffObjects(Diffable[m + 1])
        <4> SUFFICES ASSUME NEW v \in DiffObjects(Diffable[m])
                     PROVE  v \in DiffObjects(Diffable[m + 1])
          OBVIOUS
        <4>1. /\ v.fields \in Seq(FieldsOf(STRING, Diffable[m])) /\ v = Object(v.fields)
              /\ Distinct(v.fields) /\ KeysOf(v.fields) \subseteq Range(SortedKeys)
          BY DiffObjectIs
        <4>2. FieldsOf(STRING, Diffable[m]) \subseteq FieldsOf(STRING, Diffable[m + 1])
          BY <3>2 DEF FieldsOf
        <4>3. v.fields \in Seq(FieldsOf(STRING, Diffable[m + 1]))
          BY <4>1, <4>2
        <4> QED
          BY <4>1, <4>3, ObjectInDiffable
      <3>6. DiffArrays(Diffable[m]) \subseteq DiffArrays(Diffable[m + 1])
        <4> SUFFICES ASSUME NEW v \in DiffArrays(Diffable[m])
                     PROVE  v \in DiffArrays(Diffable[m + 1])
          OBVIOUS
        <4>1. /\ v.items \in Seq(Diffable[m]) /\ v = Array(v.items)
              /\ Len(v.items) <= MaxIndex + 1
          BY DiffArrayIs
        <4>2. v.items \in Seq(Diffable[m + 1])
          BY <3>2, <4>1
        <4> QED
          BY <4>1, <4>2, ArrayInDiffable
      <3> QED
        BY <3>3, <3>4, <3>5, <3>6
    <2> QED
      BY <2>1
  <1> HIDE DEF T
  <1>3. \A m \in Nat : m \in T
    BY <1>1, <1>2, Induction
  <1> QED
    BY <1>3, DepthAssumption DEF T

-----------------------------------------------------------------------------
(* When two values are equal.                                              *)

LastField(fields, key) == SelectLastInSeq(fields, LAMBDA f : f.key = key)

LEMMA LastFieldIs ==
  ASSUME NEW K, NEW V, NEW fields \in Seq(FieldsOf(K, V)), Distinct(fields), NEW key
  PROVE  /\ LastField(fields, key) > 0 <=> key \in KeysOf(fields)
         /\ LastField(fields, key) > 0 =>
              /\ LastField(fields, key) \in DOMAIN fields
              /\ fields[LastField(fields, key)].value = GetField(fields, key)
  <1> DEFINE I == {i \in 1..Len(fields) : fields[i].key = key}
             at == LastField(fields, key)
  <1>1. at = IF I # {} THEN Max(I) ELSE 0
    BY DEF LastField, SelectLastInSeq
  <1>2. I # {} => Max(I) \in I
    <2>1. I \subseteq 1..Len(fields) /\ Len(fields) \in Nat
      OBVIOUS
    <2> HIDE DEF I
    <2> QED
      BY <2>1, MaxIn
  <1>3. Len(fields) \in Nat /\ DOMAIN fields = 1..Len(fields)
    OBVIOUS
  <1> HIDE DEF at
  <1>4. CASE I # {}
    <2>1. at \in I
      BY <1>1, <1>2, <1>4
    <2>2. at \in 1..Len(fields) /\ fields[at].key = key
      BY <2>1
    <2>3. at > 0 /\ at \in DOMAIN fields /\ key \in KeysOf(fields)
      BY <1>3, <2>2 DEF KeysOf
    <2>4. GetField(fields, fields[at].key) = fields[at].value
      BY <2>3, GetFieldOf
    <2> QED
      BY <2>2, <2>3, <2>4 DEF at
  <1>5. CASE I = {}
    <2>1. at = 0
      BY <1>1, <1>5
    <2>2. key \notin KeysOf(fields)
      BY <1>3, <1>5 DEF KeysOf
    <2> QED
      BY <2>1, <2>2 DEF at
  <1> QED
    BY <1>4, <1>5

\* As many keys as fields.
LEMMA KeyCount ==
  ASSUME NEW K, NEW V, NEW fields \in Seq(FieldsOf(K, V)), Distinct(fields)
  PROVE  IsFiniteSet(KeysOf(fields)) /\ Cardinality(KeysOf(fields)) = Len(fields)
  <1> DEFINE f == [i \in 1..Len(fields) |-> fields[i].key]
  <1>1. Len(fields) \in Nat /\ DOMAIN fields = 1..Len(fields)
    OBVIOUS
  <1>2. f \in Bijection(1..Len(fields), KeysOf(fields))
    BY <1>1 DEF Bijection, Injection, Surjection, IsInjective, KeysOf, Distinct
  <1>3. IsFiniteSet(1..Len(fields)) /\ Cardinality(1..Len(fields)) = Len(fields)
    BY <1>1, FS_Interval
  <1>4. ExistsBijection(1..Len(fields), KeysOf(fields))
    BY <1>2 DEF ExistsBijection
  <1> QED
    BY <1>3, <1>4, FS_Bijection

LEMMA SameKeys ==
  ASSUME NEW K, NEW V, NEW left \in Seq(FieldsOf(K, V)), Distinct(left),
         NEW W, NEW right \in Seq(FieldsOf(K, W)), Distinct(right),
         KeysOf(left) \subseteq KeysOf(right)
  PROVE  Len(left) = Len(right) <=> KeysOf(left) = KeysOf(right)
  <1>1. Cardinality(KeysOf(left)) = Len(left)
    BY KeyCount
  <1>2. IsFiniteSet(KeysOf(right)) /\ Cardinality(KeysOf(right)) = Len(right)
    BY KeyCount
  <1>3. Cardinality(KeysOf(left)) = Cardinality(KeysOf(right)) => KeysOf(left) = KeysOf(right)
    BY <1>2, FS_Subset
  <1> QED
    BY <1>1, <1>2, <1>3

\* The parts are compared by `same`.
AlikeScalars(a, b) ==
  IF a.kind = "number" THEN NumberValue[a.text] = NumberValue[b.text] ELSE a.text = b.text

AlikeFields(left, right, same) ==
  /\ KeysOf(left) = KeysOf(right)
  /\ \A k \in KeysOf(left) : same[GetField(left, k)][GetField(right, k)]

AlikeItems(left, right, same) ==
  /\ Len(left) = Len(right)
  /\ \A i \in DOMAIN left : same[left[i]][right[i]]

Alike(a, b, same) ==
  /\ a.kind = b.kind
  /\ a.kind = "object" => AlikeFields(a.fields, b.fields, same)
  /\ a.kind = "array" => AlikeItems(a.items, b.items, same)
  /\ ~IsContainer(a) => AlikeScalars(a, b)

\* As the code compares them.
MatchingFields(left, right, same) ==
  /\ Len(left) = Len(right)
  /\ \A i \in DOMAIN left :
       LET other == LastField(right, left[i].key)
       IN  other > 0 /\ same[left[i].value][right[other].value]

\* Void too, where there is no value.
Sides(n) == Diffable[n] \cup {Void}

LEMMA AlikeFieldsIs ==
  ASSUME NEW V, NEW left \in Seq(FieldsOf(STRING, V)), Distinct(left),
         NEW right \in Seq(FieldsOf(STRING, V)), Distinct(right), NEW same
  PROVE  AlikeFields(left, right, same) <=> MatchingFields(left, right, same)
  <1> DEFINE At(i) == LastField(right, left[i].key)
  <1>1. \A i \in DOMAIN left : left[i].key \in KeysOf(left)
    BY DEF KeysOf
  <1>2. \A i \in DOMAIN left : GetField(left, left[i].key) = left[i].value
    BY GetFieldOf
  <1>3. \A i \in DOMAIN left : /\ At(i) > 0 <=> left[i].key \in KeysOf(right)
                               /\ At(i) > 0 => right[At(i)].value = GetField(right, left[i].key)
    BY LastFieldIs
  <1> HIDE DEF At
  <1>4. ASSUME AlikeFields(left, right, same)
        PROVE  /\ Len(left) = Len(right)
               /\ \A i \in DOMAIN left : At(i) > 0 /\ same[left[i].value][right[At(i)].value]
    <2>1. /\ KeysOf(left) = KeysOf(right)
          /\ \A k \in KeysOf(left) : same[GetField(left, k)][GetField(right, k)]
      BY <1>4, Zenon DEF AlikeFields
    <2>2. Len(left) = Len(right)
      BY <2>1, SameKeys
    <2>3. ASSUME NEW i \in DOMAIN left PROVE At(i) > 0 /\ same[left[i].value][right[At(i)].value]
      <3>1. At(i) > 0 /\ right[At(i)].value = GetField(right, left[i].key)
        BY <1>1, <1>3, <2>1, Zenon
      <3>2. same[GetField(left, left[i].key)][GetField(right, left[i].key)]
        BY <1>1, <2>1, Zenon
      <3> QED
        BY <1>2, <3>1, <3>2, Zenon
    <2> QED
      BY <2>2, <2>3, Zenon
  <1>5. ASSUME Len(left) = Len(right),
               \A i \in DOMAIN left : At(i) > 0 /\ same[left[i].value][right[At(i)].value]
        PROVE  AlikeFields(left, right, same)
    <2>1. \A k \in KeysOf(left) : \E i \in DOMAIN left : left[i].key = k
      BY DEF KeysOf
    <2>2. KeysOf(left) \subseteq KeysOf(right)
      BY <1>3, <1>5, <2>1, Zenon
    <2>3. KeysOf(left) = KeysOf(right)
      BY <1>5, <2>2, SameKeys
    <2>4. ASSUME NEW k \in KeysOf(left) PROVE same[GetField(left, k)][GetField(right, k)]
      <3>1. PICK i \in DOMAIN left : left[i].key = k
        BY <2>1
      <3>2. At(i) > 0 /\ same[left[i].value][right[At(i)].value]
        BY <1>5, Zenon
      <3>3. GetField(left, k) = left[i].value /\ GetField(right, k) = right[At(i)].value
        BY <1>2, <1>3, <3>1, <3>2, Zenon
      <3> QED
        BY <3>2, <3>3, Zenon
    <2> QED
      BY <2>3, <2>4, Zenon DEF AlikeFields
  <1> QED
    BY <1>4, <1>5, Zenon DEF At, MatchingFields

\* patch_equal.go, of values without hidden parts.
LEMMA EqualAroundIs ==
  ASSUME NEW n \in 0..MaxDepth, NEW a \in Sides(n), NEW b \in Sides(n), NEW same
  PROVE  equalAround(a, b, same) <=> Alike(a, b, same)
  <1>1. CASE a.kind # b.kind
    BY <1>1, Zenon DEF equalAround, Alike
  <1>2. CASE a.kind = b.kind /\ a.kind = "object"
    <2>1. a \in Diffable[n] /\ b \in Diffable[n]
      <3>1. Void.kind # "object"
        BY DEF Void, Scalar
      <3> QED
        BY <1>2, <3>1 DEF Sides
    <2>2. n - 1 \in 0..MaxDepth /\ a \in DiffObjects(Diffable[n - 1]) /\ b \in DiffObjects(Diffable[n - 1])
      BY <1>2, <2>1, DiffableShape
    <2>3. /\ a.fields \in Seq(FieldsOf(STRING, Diffable[n - 1])) /\ Distinct(a.fields)
          /\ b.fields \in Seq(FieldsOf(STRING, Diffable[n - 1])) /\ Distinct(b.fields)
      BY <2>2, DiffObjectIs
    <2>4. nonVoidObjectFields(a.fields) = a.fields /\ nonVoidObjectFields(b.fields) = b.fields
      <3>1. \A v \in Diffable[n - 1] : ~IsVoid(v)
        BY <2>2, DiffableShape
      <3>2. \A f \in FieldsOf(STRING, Diffable[n - 1]) : ~IsVoid(f.value)
        BY <3>1 DEF FieldsOf
      <3>3. /\ \A i \in DOMAIN a.fields : ~IsVoid(a.fields[i].value)
            /\ \A i \in DOMAIN b.fields : ~IsVoid(b.fields[i].value)
        BY <2>3, <3>2
      <3> QED
        BY <2>3, <3>3, NonVoidSame
    <2>5. AlikeFields(a.fields, b.fields, same) <=> MatchingFields(a.fields, b.fields, same)
      BY <2>3, AlikeFieldsIs, Zenon DEF MatchingFields
    <2>6. equalAround(a, b, same) <=> AlikeFields(a.fields, b.fields, same)
      <3>1. equalAround(a, b, same) <=>
              MatchingFields(nonVoidObjectFields(a.fields), nonVoidObjectFields(b.fields), same)
        BY <1>2, Zenon DEF equalAround, LastField, MatchingFields
      <3> QED
        BY <2>4, <2>5, <3>1, Zenon
    <2>7. Alike(a, b, same) <=> AlikeFields(a.fields, b.fields, same)
      BY <1>2, Zenon DEF Alike, IsContainer
    <2> QED
      BY <2>6, <2>7
  <1>3. CASE a.kind = b.kind /\ a.kind = "array"
    <2>1. equalAround(a, b, same) <=> AlikeItems(a.items, b.items, same)
      BY <1>3, Zenon DEF equalAround, AlikeItems
    <2>2. Alike(a, b, same) <=> AlikeItems(a.items, b.items, same)
      BY <1>3, Zenon DEF Alike, IsContainer
    <2> QED
      BY <2>1, <2>2
  <1>4. CASE a.kind = b.kind /\ a.kind # "object" /\ a.kind # "array"
    <2>1. equalAround(a, b, same) <=> AlikeScalars(a, b)
      BY <1>4, Zenon DEF equalAround, AlikeScalars
    <2>2. Alike(a, b, same) <=> AlikeScalars(a, b)
      <3>1. ~IsContainer(a)
        BY <1>4, Zenon DEF IsContainer
      <3> QED
        BY <1>4, <3>1, Zenon DEF Alike
    <2> QED
      BY <2>1, <2>2
  <1> QED
    BY <1>1, <1>2, <1>3, <1>4

LEMMA PartsOfFields ==
  ASSUME NEW V, NEW fields \in Seq(FieldsOf(STRING, V)), Distinct(fields)
  PROVE  \A k \in KeysOf(fields) : /\ GetField(fields, k) \in V
                                   /\ \E i \in DOMAIN fields : /\ fields[i].key = k
                                                               /\ fields[i].value = GetField(fields, k)
  <1> SUFFICES ASSUME NEW k \in KeysOf(fields)
               PROVE  /\ GetField(fields, k) \in V
                      /\ \E i \in DOMAIN fields : /\ fields[i].key = k
                                                  /\ fields[i].value = GetField(fields, k)
    OBVIOUS
  <1>1. PICK i \in DOMAIN fields : fields[i].key = k
    BY DEF KeysOf
  <1>2. GetField(fields, k) = fields[i].value
    BY <1>1, GetFieldOf
  <1>3. fields[i] \in FieldsOf(STRING, V)
    OBVIOUS
  <1> QED
    BY <1>1, <1>2, <1>3 DEF FieldsOf

\* Nothing but the comparison of the parts matters.
LEMMA AlikeBelow ==
  ASSUME NEW n \in 0..MaxDepth, NEW a \in Sides(n), NEW b \in Sides(n), NEW same, NEW other,
         n # 0 => \A v, w \in Diffable[n - 1] : same[v][w] <=> other[v][w]
  PROVE  Alike(a, b, same) <=> Alike(a, b, other)
  <1>1. CASE a.kind # b.kind
    BY <1>1, Zenon DEF Alike
  <1>2. CASE a.kind = b.kind /\ a.kind = "object"
    <2>1. a \in Diffable[n] /\ b \in Diffable[n]
      <3>1. Void.kind # "object"
        BY DEF Void, Scalar
      <3> QED
        BY <1>2, <3>1 DEF Sides
    <2>2. n # 0 /\ a \in DiffObjects(Diffable[n - 1]) /\ b \in DiffObjects(Diffable[n - 1])
      BY <1>2, <2>1, DiffableShape
    <2>3. /\ a.fields \in Seq(FieldsOf(STRING, Diffable[n - 1])) /\ Distinct(a.fields)
          /\ b.fields \in Seq(FieldsOf(STRING, Diffable[n - 1])) /\ Distinct(b.fields)
      BY <2>2, DiffObjectIs
    <2>4. /\ \A k \in KeysOf(a.fields) : GetField(a.fields, k) \in Diffable[n - 1]
          /\ \A k \in KeysOf(b.fields) : GetField(b.fields, k) \in Diffable[n - 1]
      BY <2>3, PartsOfFields
    <2>5. \A v, w \in Diffable[n - 1] : same[v][w] <=> other[v][w]
      BY <2>2
    <2>6. AlikeFields(a.fields, b.fields, same) <=> AlikeFields(a.fields, b.fields, other)
      BY <2>4, <2>5, Zenon DEF AlikeFields
    <2> QED
      BY <1>2, <2>6, Zenon DEF Alike, IsContainer
  <1>3. CASE a.kind = b.kind /\ a.kind = "array"
    <2>1. a \in Diffable[n] /\ b \in Diffable[n]
      <3>1. Void.kind # "array"
        BY DEF Void, Scalar
      <3> QED
        BY <1>3, <3>1 DEF Sides
    <2>2. n # 0 /\ a \in DiffArrays(Diffable[n - 1]) /\ b \in DiffArrays(Diffable[n - 1])
      BY <1>3, <2>1, DiffableShape
    <2>3. a.items \in Seq(Diffable[n - 1]) /\ b.items \in Seq(Diffable[n - 1])
      BY <2>2, DiffArrayIs
    <2>4. \A v, w \in Diffable[n - 1] : same[v][w] <=> other[v][w]
      BY <2>2
    <2>5. Len(a.items) = Len(b.items) =>
            \A i \in DOMAIN a.items : a.items[i] \in Diffable[n - 1] /\ b.items[i] \in Diffable[n - 1]
      BY <2>3
    <2>6. AlikeItems(a.items, b.items, same) <=> AlikeItems(a.items, b.items, other)
      BY <2>4, <2>5, Zenon DEF AlikeItems
    <2> QED
      BY <1>3, <2>6, Zenon DEF Alike, IsContainer
  <1>4. CASE a.kind = b.kind /\ a.kind # "object" /\ a.kind # "array"
    BY <1>4, Zenon DEF Alike, IsContainer
  <1> QED
    BY <1>1, <1>2, <1>3, <1>4

LEMMA SidesAreTrees ==
  ASSUME NEW n \in 0..MaxDepth, NEW a \in Sides(n)
  PROVE  a \in Trees
  <1>1. Void \in Trees
    <2>1. 0 \in 0..MaxDepth /\ Void \in ScalarValues
      BY DepthAssumption DEF ScalarValues
    <2> QED
      BY <2>1, NestedIs, NestedInTrees
  <1> QED
    BY <1>1, DiffableShape DEF Sides

EqualBelow(n) == IF n = 0 THEN <<>> ELSE equal[n - 1]

LEMMA EqualAtLevel ==
  ASSUME NEW n \in 0..MaxDepth, NEW m \in 0..MaxDepth, NEW a \in Sides(m), NEW b \in Sides(m)
  PROVE  equal[n][a][b] <=> Alike(a, b, EqualBelow(n))
  <1>1. a \in Trees /\ b \in Trees
    BY SidesAreTrees
  <1>2. equal[n] = EqualAt(n, equal[n - 1])
    BY EqualIs
  <1>3. EqualAt(n, equal[n - 1])[a][b] = equalAround(a, b, EqualBelow(n))
    BY <1>1, Zenon DEF EqualAt, EqualBelow
  <1>4. equalAround(a, b, EqualBelow(n)) <=> Alike(a, b, EqualBelow(n))
    BY EqualAroundIs
  <1> QED
    BY <1>2, <1>3, <1>4, Zenon

\* Two values that nest n deep are compared alike at every level from n on.
LEMMA EqualSettles ==
  ASSUME NEW n \in 0..MaxDepth
  PROVE  \A k \in n..MaxDepth : \A a, b \in Sides(n) : equal[k][a][b] <=> equal[n][a][b]
  <1> DEFINE Settled(m) == \A k \in m..MaxDepth : \A a, b \in Sides(m) :
                             equal[k][a][b] <=> equal[m][a][b]
             T == {m \in Nat : m <= MaxDepth => Settled(m)}
  <1>1. Settled(0)
    <2> SUFFICES ASSUME NEW k \in 0..MaxDepth, NEW a \in Sides(0), NEW b \in Sides(0)
                 PROVE  equal[k][a][b] <=> equal[0][a][b]
      BY Zenon
    <2>1. 0 \in 0..MaxDepth
      BY DepthAssumption
    <2>2. equal[k][a][b] <=> Alike(a, b, EqualBelow(k))
      BY <2>1, EqualAtLevel
    <2>3. equal[0][a][b] <=> Alike(a, b, EqualBelow(0))
      BY <2>1, EqualAtLevel
    <2>4. Alike(a, b, EqualBelow(k)) <=> Alike(a, b, EqualBelow(0))
      BY <2>1, AlikeBelow
    <2> QED
      BY <2>2, <2>3, <2>4, Zenon
  <1>2. ASSUME NEW m \in Nat, m \in T PROVE m + 1 \in T
    <2>1. CASE m + 1 <= MaxDepth
      <3>1. /\ m \in 0..MaxDepth /\ m + 1 \in 0..MaxDepth /\ m + 1 # 0 /\ (m + 1) - 1 = m
        BY <2>1, DepthAssumption
      <3>2. Settled(m)
        BY <1>2, <3>1, DepthAssumption
      <3>3. ASSUME NEW k \in m + 1..MaxDepth, NEW a \in Sides(m + 1), NEW b \in Sides(m + 1)
            PROVE  equal[k][a][b] <=> equal[m + 1][a][b]
        <4>1. k \in 0..MaxDepth /\ k # 0 /\ k - 1 \in m..MaxDepth
          BY <3>1, DepthAssumption
        <4>2. equal[k][a][b] <=> Alike(a, b, EqualBelow(k))
          BY <3>1, <4>1, EqualAtLevel
        <4>3. equal[m + 1][a][b] <=> Alike(a, b, EqualBelow(m + 1))
          BY <3>1, EqualAtLevel
        <4>4. EqualBelow(k) = equal[k - 1] /\ EqualBelow(m + 1) = equal[m]
          BY <3>1, <4>1 DEF EqualBelow
        <4>5. \A v, w \in Diffable[m] : equal[k - 1][v][w] <=> equal[m][v][w]
          BY <3>2, <4>1, Zenon DEF Sides
        <4>6. Alike(a, b, equal[k - 1]) <=> Alike(a, b, equal[m])
          <5> DEFINE f == equal[k - 1]
                     g == equal[m]
          <5>1. \A v, w \in Diffable[(m + 1) - 1] : f[v][w] <=> g[v][w]
            BY <3>1, <4>5, Zenon
          <5> HIDE DEF f, g
          <5>2. Alike(a, b, f) <=> Alike(a, b, g)
            BY <3>1, <5>1, AlikeBelow
          <5> QED
            BY <5>2, Zenon DEF f, g
        <4>7. equal[k][a][b] <=> Alike(a, b, equal[k - 1])
          BY <4>2, <4>4, Zenon
        <4>8. equal[m + 1][a][b] <=> Alike(a, b, equal[m])
          BY <4>3, <4>4, Zenon
        <4> QED
          BY <4>6, <4>7, <4>8, Zenon
      <3>4. Settled(m + 1)
        BY <3>3, Zenon
      <3> HIDE DEF Settled
      <3> QED
        BY <3>4
    <2> QED
      BY <2>1
  <1>3. 0 \in T
    BY <1>1
  <1> HIDE DEF T
  <1>4. \A m \in Nat : m \in T
    BY <1>2, <1>3, Induction
  <1>5. n \in Nat /\ n <= MaxDepth
    BY DepthAssumption
  <1>6. n \in T
    BY <1>4, <1>5
  <1> HIDE DEF Settled
  <1>7. Settled(n)
    BY <1>5, <1>6 DEF T
  <1> QED
    BY <1>7, Zenon DEF Settled

\* Equal are values that are alike and whose parts are equal.
LEMMA EqualIff ==
  ASSUME NEW n \in 0..MaxDepth, NEW a \in Sides(n), NEW b \in Sides(n)
  PROVE  valuesEqual(a, b) <=> Alike(a, b, equal[MaxDepth])
  <1>1. MaxDepth \in 0..MaxDepth
    BY DepthAssumption
  <1>2. equal[MaxDepth][a][b] <=> Alike(a, b, EqualBelow(MaxDepth))
    BY <1>1, EqualAtLevel
  <1>3. Alike(a, b, EqualBelow(MaxDepth)) <=> Alike(a, b, equal[MaxDepth])
    <2> DEFINE f == EqualBelow(MaxDepth)
               g == equal[MaxDepth]
    <2>1. ASSUME n # 0 PROVE \A v, w \in Diffable[n - 1] : f[v][w] <=> g[v][w]
      <3>1. /\ n - 1 \in 0..MaxDepth /\ MaxDepth # 0
            /\ MaxDepth - 1 \in n - 1..MaxDepth /\ MaxDepth \in n - 1..MaxDepth
        BY <2>1, DepthAssumption
      <3>2. f = equal[MaxDepth - 1]
        BY <3>1 DEF EqualBelow
      <3>3. ASSUME NEW v \in Diffable[n - 1], NEW w \in Diffable[n - 1]
            PROVE  equal[MaxDepth - 1][v][w] <=> equal[MaxDepth][v][w]
        <4>1. v \in Sides(n - 1) /\ w \in Sides(n - 1)
          BY DEF Sides
        <4>2. equal[MaxDepth - 1][v][w] <=> equal[n - 1][v][w]
          BY <3>1, <4>1, EqualSettles
        <4>3. equal[MaxDepth][v][w] <=> equal[n - 1][v][w]
          BY <3>1, <4>1, EqualSettles
        <4> QED
          BY <4>2, <4>3, Zenon
      <3> QED
        BY <3>2, <3>3, Zenon
    <2> HIDE DEF f, g
    <2>2. Alike(a, b, f) <=> Alike(a, b, g)
      BY <2>1, AlikeBelow
    <2> QED
      BY <2>2, Zenon DEF f, g
  <1> QED
    BY <1>2, <1>3, Zenon DEF valuesEqual

LEMMA EqualObjects ==
  ASSUME NEW n \in 0..MaxDepth, NEW a \in Diffable[n], a.kind = "object",
         NEW b \in Diffable[n], b.kind = "object"
  PROVE  valuesEqual(a, b) <=>
           /\ KeysOf(a.fields) = KeysOf(b.fields)
           /\ \A k \in KeysOf(a.fields) : valuesEqual(GetField(a.fields, k), GetField(b.fields, k))
  <1>1. a \in Sides(n) /\ b \in Sides(n)
    BY DEF Sides
  <1>2. valuesEqual(a, b) <=> Alike(a, b, equal[MaxDepth])
    BY <1>1, EqualIff
  <1> QED
    BY <1>2, Zenon DEF Alike, AlikeFields, IsContainer, valuesEqual

LEMMA EqualArrays ==
  ASSUME NEW n \in 0..MaxDepth, NEW a \in Diffable[n], a.kind = "array",
         NEW b \in Diffable[n], b.kind = "array"
  PROVE  valuesEqual(a, b) <=>
           /\ Len(a.items) = Len(b.items)
           /\ \A i \in DOMAIN a.items : valuesEqual(a.items[i], b.items[i])
  <1>1. a \in Sides(n) /\ b \in Sides(n)
    BY DEF Sides
  <1>2. valuesEqual(a, b) <=> Alike(a, b, equal[MaxDepth])
    BY <1>1, EqualIff
  <1>3. Alike(a, b, equal[MaxDepth]) <=> AlikeItems(a.items, b.items, equal[MaxDepth])
    BY Zenon DEF Alike, IsContainer
  <1> QED
    BY <1>2, <1>3, Zenon DEF AlikeItems, valuesEqual

LEMMA EqualKinds ==
  ASSUME NEW n \in 0..MaxDepth, NEW a \in Sides(n), NEW b \in Sides(n), valuesEqual(a, b)
  PROVE  a.kind = b.kind
  BY EqualIff, Zenon DEF Alike

\* Every value equals itself.
LEMMA EqualItself ==
  ASSUME NEW n \in 0..MaxDepth
  PROVE  \A a \in Sides(n) : valuesEqual(a, a)
  <1> DEFINE T == {m \in Nat : m <= MaxDepth => \A a \in Sides(m) : valuesEqual(a, a)}
  <1>1. ASSUME NEW m \in 0..MaxDepth, NEW a \in Sides(m),
               m # 0 => \A v \in Sides(m - 1) : valuesEqual(v, v)
        PROVE  valuesEqual(a, a)
    <2>1. CASE a.kind = "object"
      <3>1. a \in Diffable[m]
        <4>1. Void.kind # "object"
          BY DEF Void, Scalar
        <4> QED
          BY <2>1, <4>1 DEF Sides
      <3>2. m # 0 /\ a \in DiffObjects(Diffable[m - 1])
        BY <2>1, <3>1, DiffableShape
      <3>3. \A k \in KeysOf(a.fields) : GetField(a.fields, k) \in Diffable[m - 1]
        BY <3>2, DiffObjectIs, PartsOfFields
      <3>4. \A k \in KeysOf(a.fields) : valuesEqual(GetField(a.fields, k), GetField(a.fields, k))
        BY <1>1, <3>2, <3>3, Zenon DEF Sides
      <3> QED
        BY <2>1, <3>1, <3>4, EqualObjects
    <2>2. CASE a.kind = "array"
      <3>1. a \in Diffable[m]
        <4>1. Void.kind # "array"
          BY DEF Void, Scalar
        <4> QED
          BY <2>2, <4>1 DEF Sides
      <3>2. m # 0 /\ a \in DiffArrays(Diffable[m - 1])
        BY <2>2, <3>1, DiffableShape
      <3>3. \A i \in DOMAIN a.items : a.items[i] \in Diffable[m - 1]
        BY <3>2, DiffArrayIs
      <3>4. \A i \in DOMAIN a.items : valuesEqual(a.items[i], a.items[i])
        BY <1>1, <3>2, <3>3, Zenon DEF Sides
      <3> QED
        BY <2>2, <3>1, <3>4, EqualArrays
    <2>3. CASE a.kind # "object" /\ a.kind # "array"
      <3>1. Alike(a, a, equal[MaxDepth])
        BY <2>3, Zenon DEF Alike, AlikeScalars
      <3> QED
        BY <3>1, EqualIff
    <2> QED
      BY <2>1, <2>2, <2>3
  <1>2. 0 \in T
    <2>1. 0 \in 0..MaxDepth
      BY DepthAssumption
    <2> QED
      BY <1>1, <2>1
  <1>3. ASSUME NEW m \in Nat, m \in T PROVE m + 1 \in T
    <2>1. CASE m + 1 <= MaxDepth
      <3>1. m + 1 \in 0..MaxDepth /\ (m + 1) - 1 = m /\ m <= MaxDepth
        BY <2>1, DepthAssumption
      <3>2. \A v \in Sides(m) : valuesEqual(v, v)
        BY <1>3, <3>1
      <3> QED
        BY <1>1, <3>1, <3>2
    <2> QED
      BY <2>1
  <1> HIDE DEF T
  <1>4. \A m \in Nat : m \in T
    BY <1>2, <1>3, Induction
  <1> QED
    BY <1>4, DepthAssumption DEF T

-----------------------------------------------------------------------------
(* Sequences put one after the other.                                      *)

\* The first of two.
LEMMA HeadOfTwo ==
  ASSUME NEW E, NEW s \in Seq(E), NEW t \in Seq(E)
  PROVE  /\ s \o t \in Seq(E)
         /\ s \o t = <<>> <=> s = <<>> /\ t = <<>>
         /\ s # <<>> => Head(s \o t) = Head(s) /\ Tail(s \o t) = Tail(s) \o t
         /\ s = <<>> => s \o t = t
  <1>1. s \o t \in Seq(E) /\ Len(s \o t) = Len(s) + Len(t)
    OBVIOUS
  <1>2. s \o t = <<>> <=> s = <<>> /\ t = <<>>
    BY <1>1
  <1>3. s # <<>> => Head(s \o t) = Head(s) /\ Tail(s \o t) = Tail(s) \o t
    OBVIOUS
  <1>4. s = <<>> => s \o t = t
    OBVIOUS
  <1> QED
    BY <1>1, <1>2, <1>3, <1>4

LEMMA TailOfTwo ==
  ASSUME NEW E, NEW s \in Seq(E), NEW t \in Seq(E), s # <<>>
  PROVE  Tail(s \o t) = Tail(s) \o t
  OBVIOUS

LEMMA Below ==
  ASSUME NEW n \in Nat, NEW m \in Nat, n + 1 < m
  PROVE  n < m /\ n + 1 \in 1..m - 1 /\ ~(n + 1 >= m)
  OBVIOUS

\* flat[n] is made of the first n of them.
Flattening(S, E, flat) ==
  /\ flat[0] = <<>>
  /\ \A n \in 0..Len(S) : flat[n] \in Seq(E)
  /\ \A n \in 1..Len(S) : flat[n] = flat[n - 1] \o S[n]
  /\ FlattenSeq(S) = flat[Len(S)]

LEMMA FlatIs ==
  ASSUME NEW E, NEW S \in Seq(Seq(E))
  PROVE  \E flat : Flattening(S, E, flat)
  <1> DEFINE l == Len(S)
             Is(f) == f = [i \in 1..l |-> IF i = 1 THEN S[i] ELSE f[i - 1] \o S[i]]
             T == [n \in Nat |-> Seq(E)]
             F == [n \in Nat |-> [x \in T[n] |-> IF n + 1 <= l THEN x \o S[n + 1] ELSE x]]
  <1>1. l \in Nat /\ <<>> \in Seq(E) /\ \A n \in 1..l : S[n] \in Seq(E)
    OBVIOUS
  <1>2. ASSUME NEW n \in Nat, NEW x \in T[n] PROVE F[n][x] \in T[n + 1]
    <2>1. x \in Seq(E) /\ n + 1 \in Nat
      OBVIOUS
    <2>2. CASE n + 1 <= l
      <3>1. S[n + 1] \in Seq(E)
        BY <1>1, <2>1, <2>2
      <3> QED
        BY <2>1, <2>2, <3>1
    <2>3. CASE ~(n + 1 <= l)
      BY <2>1, <2>3
    <2> QED
      BY <2>2, <2>3
  <1>3. /\ \A n \in Nat : \A x \in Seq(E) : n + 1 <= l => F[n][x] = x \o S[n + 1]
        /\ \A n \in Nat : T[n] = Seq(E)
    OBVIOUS
  <1>9. <<>> \in T[0]
    BY <1>1
  <1>10. \A n \in Nat : \A x \in T[n] : F[n][x] \in T[n + 1]
    BY <1>2
  <1> HIDE DEF F, T
  <1>4. PICK f : /\ f = [n \in Nat |-> IF n = 0 THEN <<>> ELSE F[n - 1][f[n - 1]]]
                 /\ \A n \in Nat : f[n] \in T[n]
    BY <1>9, <1>10, Iteration
  <1>5. f[0] = <<>> /\ \A n \in Nat : f[n] \in Seq(E)
    BY <1>3, <1>4
  <1>6. ASSUME NEW n \in 1..l PROVE f[n] = f[n - 1] \o S[n]
    <2>1. n \in Nat /\ n - 1 \in Nat /\ n # 0 /\ (n - 1) + 1 = n /\ (n - 1) + 1 <= l
      BY <1>1
    <2>2. f[n] = F[n - 1][f[n - 1]]
      BY <1>4, <2>1
    <2>3. F[n - 1][f[n - 1]] = f[n - 1] \o S[(n - 1) + 1]
      BY <1>3, <1>5, <2>1
    <2> QED
      BY <2>1, <2>2, <2>3
  <1>7. CASE l = 0
    <2>1. S = <<>>
      BY <1>7
    <2>2. FlattenSeq(S) = S
      BY <1>7, Zenon DEF FlattenSeq
    <2>3. Flattening(S, E, f)
      BY <1>5, <1>7, <2>1, <2>2 DEF Flattening
    <2> QED
      BY <2>3
  <1>8. CASE l # 0
    <2> DEFINE g == [i \in 1..l |-> f[i]]
    <2>1. ASSUME NEW i \in 1..l PROVE g[i] = IF i = 1 THEN S[i] ELSE g[i - 1] \o S[i]
      <3>1. g[i] = f[i - 1] \o S[i] /\ S[i] \in Seq(E)
        BY <1>1, <1>6
      <3>2. CASE i = 1
        <4>1. i - 1 = 0 /\ f[i - 1] = <<>>
          BY <1>5, <3>2
        <4>2. f[i - 1] \o S[i] = S[i]
          BY <1>1, <3>1, <4>1, HeadOfTwo
        <4> QED
          BY <3>1, <3>2, <4>2
      <3>3. CASE i # 1
        <4>1. i - 1 \in 1..l
          BY <1>1, <3>3
        <4> QED
          BY <3>1, <3>3, <4>1
      <3> QED
        BY <3>2, <3>3
    <2>2. Is(g)
      BY <2>1, Zenon
    <2> DEFINE flatten == CHOOSE h : Is(h)
    <2>3. Is(flatten)
      BY <2>2
    <2>4. FlattenSeq(S) = flatten[l]
      BY <1>8, Zenon DEF FlattenSeq
    <2> HIDE DEF flatten, g
    <2>5. \A i \in 1..l : flatten[i] = IF i = 1 THEN S[i] ELSE flatten[i - 1] \o S[i]
      BY <2>3, Zenon
    <2>6. \A n \in Nat : n + 1 <= l => flatten[n + 1] = f[n + 1]
      <3> DEFINE U == {n \in Nat : n + 1 <= l => flatten[n + 1] = f[n + 1]}
      <3>1. 0 \in U
        <4>1. 0 + 1 \in 1..l /\ 0 + 1 = 1
          BY <1>1, <1>8
        <4>2. flatten[1] = S[1]
          BY <2>5, <4>1
        <4>6. 1 \in 1..l /\ 1 - 1 = 0
          BY <4>1
        <4>3. f[1] = f[1 - 1] \o S[1] /\ 1 - 1 = 0 /\ S[1] \in Seq(E)
          BY <1>1, <1>6, <4>6
        <4>4. f[1 - 1] = <<>> /\ <<>> \in Seq(E)
          BY <1>1, <1>5, <4>3
        <4>5. f[1] = S[1]
          BY <4>3, <4>4, HeadOfTwo
        <4> QED
          BY <4>2, <4>5
      <3>2. ASSUME NEW n \in Nat, n \in U PROVE n + 1 \in U
        <4>1. CASE (n + 1) + 1 <= l
          <5>1. /\ (n + 1) + 1 \in 1..l /\ (n + 1) + 1 # 1 /\ ((n + 1) + 1) - 1 = n + 1
                /\ n + 1 <= l
            BY <1>1, <4>1
          <5>2. flatten[n + 1] = f[n + 1]
            BY <3>2, <5>1
          <5>3. flatten[(n + 1) + 1] = flatten[n + 1] \o S[(n + 1) + 1]
            BY <2>5, <5>1
          <5>4. f[(n + 1) + 1] = f[n + 1] \o S[(n + 1) + 1]
            BY <1>6, <5>1
          <5>5. flatten[(n + 1) + 1] = f[(n + 1) + 1]
            BY <5>2, <5>3, <5>4, Zenon
          <5> QED
            BY <5>5
        <4> QED
          BY <4>1
      <3> HIDE DEF U
      <3>3. \A n \in Nat : n \in U
        BY <3>1, <3>2, Induction
      <3> QED
        BY <3>3 DEF U
    <2>7. FlattenSeq(S) = f[l]
      <3>1. l - 1 \in Nat /\ (l - 1) + 1 = l /\ (l - 1) + 1 <= l
        BY <1>1, <1>8
      <3> QED
        BY <2>4, <2>6, <3>1
    <2>8. \A n \in 0..l : f[n] \in Seq(E)
      BY <1>1, <1>5
    <2>10. Flattening(S, E, f)
      BY <1>5, <1>6, <2>7, <2>8, Zenon DEF Flattening
    <2> QED
      BY <2>10
  <1> QED
    BY <1>7, <1>8

\* Nothing comes of it when nothing is in them.
LEMMA FlatEmpty ==
  ASSUME NEW E, NEW S \in Seq(Seq(E))
  PROVE  /\ FlattenSeq(S) \in Seq(E)
         /\ FlattenSeq(S) = <<>> <=> \A i \in DOMAIN S : S[i] = <<>>
  <1> DEFINE l == Len(S)
  <1>1. PICK flat : Flattening(S, E, flat)
    BY FlatIs
  <1>2. /\ flat[0] = <<>> /\ \A n \in 0..l : flat[n] \in Seq(E)
        /\ \A n \in 1..l : flat[n] = flat[n - 1] \o S[n]
        /\ FlattenSeq(S) = flat[l]
    BY <1>1 DEF Flattening
  <1>3. l \in Nat /\ DOMAIN S = 1..l /\ \A n \in 1..l : S[n] \in Seq(E)
    OBVIOUS
  <1> DEFINE U == {n \in Nat : n <= l => (flat[n] = <<>> <=> \A i \in 1..n : S[i] = <<>>)}
  <1>4. 0 \in U
    BY <1>2
  <1>5. ASSUME NEW n \in Nat, n \in U PROVE n + 1 \in U
    <2> SUFFICES ASSUME n + 1 <= l
                 PROVE  flat[n + 1] = <<>> <=> \A i \in 1..n + 1 : S[i] = <<>>
      OBVIOUS
    <2>1. /\ n + 1 \in 1..l /\ n \in 0..l /\ (n + 1) - 1 = n
          /\ \A i : i \in 1..n + 1 <=> i \in 1..n \/ i = n + 1
      BY <1>3
    <2>2. flat[n + 1] = flat[n] \o S[n + 1] /\ flat[n] \in Seq(E) /\ S[n + 1] \in Seq(E)
      BY <1>2, <1>3, <2>1
    <2>3. flat[n + 1] = <<>> <=> flat[n] = <<>> /\ S[n + 1] = <<>>
      <3>1. Len(flat[n] \o S[n + 1]) = Len(flat[n]) + Len(S[n + 1])
        BY <2>2
      <3> HIDE DEF l
      <3> QED
        BY <2>2, <3>1
    <2>4. flat[n] = <<>> <=> \A i \in 1..n : S[i] = <<>>
      BY <1>5, <2>1
    <2> HIDE DEF l
    <2> QED
      BY <2>1, <2>3, <2>4
  <1> HIDE DEF U
  <1>6. \A n \in Nat : n \in U
    BY <1>4, <1>5, Induction
  <1>7. flat[l] = <<>> <=> \A i \in 1..l : S[i] = <<>>
    BY <1>3, <1>6 DEF U
  <1>8. flat[l] \in Seq(E)
    BY <1>2, <1>3
  <1> QED
    BY <1>2, <1>3, <1>7, <1>8

\* The first of the first.
LEMMA FlatFirst ==
  ASSUME NEW E, NEW S \in Seq(Seq(E)), NEW R \in Seq(Seq(E)), Len(R) = Len(S),
         NEW m \in DOMAIN S, \A i \in 1..m - 1 : S[i] = <<>> /\ R[i] = <<>>,
         S[m] # <<>>, R[m] = Tail(S[m]), \A i \in m + 1..Len(S) : R[i] = S[i]
  PROVE  /\ FlattenSeq(S) # <<>> /\ Head(FlattenSeq(S)) = Head(S[m])
         /\ FlattenSeq(R) = Tail(FlattenSeq(S))
  <1> DEFINE l == Len(S)
  <1>1. PICK flat : Flattening(S, E, flat)
    BY FlatIs
  <1>2. PICK rest : Flattening(R, E, rest)
    BY FlatIs
  <1>3. /\ flat[0] = <<>> /\ \A n \in 0..l : flat[n] \in Seq(E)
        /\ \A n \in 1..l : flat[n] = flat[n - 1] \o S[n]
        /\ FlattenSeq(S) = flat[l]
    BY <1>1 DEF Flattening
  <1>4. /\ rest[0] = <<>> /\ \A n \in 0..l : rest[n] \in Seq(E)
        /\ \A n \in 1..l : rest[n] = rest[n - 1] \o R[n]
        /\ FlattenSeq(R) = rest[l]
    BY <1>2 DEF Flattening
  <1>5. /\ l \in Nat /\ m \in 1..l /\ m \in Nat
        /\ \A n \in 1..l : S[n] \in Seq(E) /\ R[n] \in Seq(E)
        /\ \A n \in m + 1..l : R[n] = S[n]
    OBVIOUS
  <1> HIDE DEF l
  <1>11. l \in Nat /\ m \in Nat
    BY <1>5
  <1> DEFINE Before(n) == flat[n] = <<>> /\ rest[n] = <<>>
             After(n)  == /\ flat[n] # <<>> /\ Head(flat[n]) = Head(S[m])
                          /\ rest[n] = Tail(flat[n])
             U == {n \in Nat : n <= l => (n < m => Before(n)) /\ (n >= m => After(n))}
  <1>6. 0 \in U
    <2>1. Before(0) /\ ~(0 >= m)
      BY <1>3, <1>4, <1>5
    <2> QED
      BY <2>1
  <1>7. ASSUME NEW n \in Nat, n \in U PROVE n + 1 \in U
    <2>1. CASE n + 1 <= l
      <3>1. n + 1 \in 1..l /\ n \in 0..l /\ (n + 1) - 1 = n /\ n <= l
        BY <1>5, <2>1
      <3>2. /\ flat[n + 1] = flat[n] \o S[n + 1] /\ flat[n] \in Seq(E) /\ S[n + 1] \in Seq(E)
            /\ rest[n + 1] = rest[n] \o R[n + 1] /\ rest[n] \in Seq(E) /\ R[n + 1] \in Seq(E)
        BY <1>3, <1>4, <1>5, <3>1
      <3>3. n < m => Before(n)
        BY <1>7, <3>1
      <3>4. n >= m => After(n)
        BY <1>7, <3>1
      <3>5. CASE n + 1 < m
        <4>1. n < m /\ n + 1 \in 1..m - 1 /\ ~(n + 1 >= m)
          BY <1>11, <3>5, Below
        <4>2. S[n + 1] = <<>> /\ R[n + 1] = <<>>
          BY <4>1
        <4>3. flat[n] = <<>> /\ rest[n] = <<>>
          BY <3>3, <4>1
        <4>4. Before(n + 1)
          BY <3>2, <4>2, <4>3, HeadOfTwo
        <4> HIDE DEF Before, After
        <4> QED
          BY <4>1, <4>4
      <3>6. CASE n + 1 = m
        <4>1. n < m /\ ~(n + 1 < m)
          BY <1>5, <3>6
        <4>2. S[n + 1] = S[m] /\ R[n + 1] = Tail(S[m]) /\ S[m] # <<>>
          BY <3>6
        <4>3. flat[n] = <<>> /\ rest[n] = <<>>
          BY <3>3, <4>1
        <4>4. flat[n + 1] = S[m] /\ rest[n + 1] = Tail(S[m])
          BY <3>2, <4>2, <4>3, HeadOfTwo
        <4>5. After(n + 1)
          BY <4>2, <4>4
        <4> HIDE DEF Before, After
        <4> QED
          BY <4>1, <4>5
      <3>7. CASE n + 1 > m
        <4>1. n >= m /\ ~(n + 1 < m) /\ n + 1 \in m + 1..l
          BY <1>5, <3>1, <3>7
        <4>2. R[n + 1] = S[n + 1]
          BY <1>5, <4>1
        <4>3. flat[n] # <<>> /\ Head(flat[n]) = Head(S[m]) /\ rest[n] = Tail(flat[n])
          BY <3>4, <4>1
        <4> DEFINE f == flat[n]
                   r == S[n + 1]
        <4>6. f \in Seq(E) /\ r \in Seq(E) /\ f # <<>>
          BY <3>2, <4>3
        <4> HIDE DEF f, r
        <4>8. f \o r # <<>>
          BY <4>6, HeadOfTwo
        <4>9. Head(f \o r) = Head(f)
          BY <4>6, HeadOfTwo
        <4>10. Tail(f \o r) = Tail(f) \o r
          BY <4>6, TailOfTwo
        <4>7. f \o r # <<>> /\ Head(f \o r) = Head(f) /\ Tail(f \o r) = Tail(f) \o r
          BY <4>8, <4>9, <4>10, Zenon
        <4>4. /\ flat[n] \o S[n + 1] # <<>> /\ Head(flat[n] \o S[n + 1]) = Head(flat[n])
              /\ Tail(flat[n] \o S[n + 1]) = Tail(flat[n]) \o S[n + 1]
          BY <4>7, Zenon DEF f, r
        <4>5. After(n + 1)
          BY <3>2, <4>2, <4>3, <4>4, Zenon
        <4> HIDE DEF Before, After
        <4> QED
          BY <4>1, <4>5
      <3> QED
        BY <1>5, <3>5, <3>6, <3>7
    <2> QED
      BY <2>1
  <1> HIDE DEF U
  <1>8. \A n \in Nat : n \in U
    BY <1>6, <1>7, Induction
  <1>9. After(l)
    <2>1. l \in U /\ l >= m /\ l <= l
      BY <1>5, <1>8
    <2> HIDE DEF After, Before
    <2> QED
      BY <2>1 DEF U
  <1> QED
    BY <1>3, <1>4, <1>9, Zenon DEF l

\* The smallest place.
LEMMA FirstPlace ==
  ASSUME NEW l \in Nat, NEW I, I \subseteq 1..l, I # {}
  PROVE  \E m \in I : \A i \in 1..m - 1 : i \notin I
  <1>1. I \subseteq Nat
    OBVIOUS
  <1>2. PICK m \in I : \A i \in I : m <= i
    BY <1>1, Least
  <1> QED
    BY <1>1, <1>2

-----------------------------------------------------------------------------
(* What a diff consists of.                                                *)

FieldOpsBy(left, right, nested) ==
  [i \in DOMAIN right |->
     IF HasField(left, right[i].key)
       THEN Beneath(right[i].key, nested[GetField(left, right[i].key)][right[i].value])
       ELSE <<Add(joinPointer(<<>>, right[i].key), right[i].value)>>]

Gone(left, right) ==
  Those(SortedKeys, {i \in DOMAIN SortedKeys :
                       HasField(left, SortedKeys[i]) /\ ~HasField(right, SortedKeys[i])})

Removals(left, right) ==
  [i \in DOMAIN Gone(left, right) |-> Delete(joinPointer(<<>>, Gone(left, right)[i]))]

Shared(left, right) == IF Len(left) < Len(right) THEN Len(left) ELSE Len(right)

ItemOpsBy(left, right, nested) ==
  [i \in 1..Shared(left, right) |-> Beneath(Item(i), nested[left[i]][right[i]])]

Drops(left, right) ==
  [i \in 1..Len(left) - Shared(left, right) |->
     Delete(joinPointer(<<>>, Item(Len(left) + 1 - i)))]

Extras(left, right) ==
  [i \in 1..Len(right) - Shared(left, right) |->
     Add(joinPointer(<<>>, Item(Shared(left, right) + i)), right[Shared(left, right) + i])]

LEMMA ObjectOpsAre ==
  ASSUME NEW left, NEW right, NEW nested, nonVoidObjectFields(right) = right
  PROVE  objectDiffOps(left, right, nested)
           = FlattenSeq(FieldOpsBy(left, right, nested)) \o Removals(left, right)
  <1>1. objectDiffOps(left, right, nested)
          = FlattenSeq(FieldOpsBy(left, nonVoidObjectFields(right), nested)) \o Removals(left, right)
    BY Zenon DEF objectDiffOps, FieldOpsBy, Removals, Gone
  <1> QED
    BY <1>1, Zenon

LEMMA ArrayOpsAre ==
  ASSUME NEW left, NEW right, NEW nested
  PROVE  arrayDiffOps(left, right, nested)
           = FlattenSeq(ItemOpsBy(left, right, nested)) \o Drops(left, right) \o Extras(left, right)
  BY Zenon DEF arrayDiffOps, ItemOpsBy, Drops, Extras, Shared

\* Fields without hidden ones.
LEMMA NeatFields ==
  ASSUME NEW n \in 0..MaxDepth, NEW fields \in Seq(FieldsOf(STRING, Diffable[n])), Distinct(fields)
  PROVE  /\ nonVoidObjectFields(fields) = fields
         /\ \A i \in DOMAIN fields : fields[i].value \in Diffable[n] /\ fields[i].key \in STRING
         /\ \A k : HasField(fields, k) <=> k \in KeysOf(fields)
  <1>1. \A v \in Diffable[n] : ~IsVoid(v)
    BY DiffableShape
  <1>2. \A i \in DOMAIN fields : fields[i] \in FieldsOf(STRING, Diffable[n])
    OBVIOUS
  <1>3. \A i \in DOMAIN fields : fields[i].value \in Diffable[n] /\ fields[i].key \in STRING
    BY <1>2 DEF FieldsOf
  <1>4. nonVoidObjectFields(fields) = fields
    BY <1>1, <1>3, NonVoidSame
  <1>5. ASSUME NEW k PROVE HasField(fields, k) <=> k \in KeysOf(fields)
    <2>1. k \in KeysOf(fields) => ~IsVoid(GetField(fields, k))
      BY <1>1, PartsOfFields
    <2>2. k \notin KeysOf(fields) => GetField(fields, k) = Void
      BY GetFieldOf
    <2>3. IsVoid(Void)
      BY DEF IsVoid, Void, Scalar
    <2> QED
      BY <2>1, <2>2, <2>3, Zenon DEF HasField
  <1> QED
    BY <1>3, <1>4, <1>5

LEMMA SideKinds ==
  ASSUME NEW n, NEW a \in Sides(n), IsContainer(a)
  PROVE  a \in Diffable[n]
  <1>1. ~IsContainer(Void)
    BY DEF IsContainer, Void, Scalar
  <1> QED
    BY <1>1 DEF Sides

\* Nothing but the operations between the parts matters.
LEMMA OpsBelow ==
  ASSUME NEW n \in 0..MaxDepth, NEW a \in Sides(n), NEW b \in Sides(n), NEW f, NEW g,
         n # 0 => \A v, w \in Diffable[n - 1] : f[v][w] = g[v][w]
  PROVE  appendDiffOps(a, b, f) = appendDiffOps(a, b, g)
  <1>1. CASE a.kind = b.kind /\ a.kind = "object"
    <2>1. a \in Diffable[n] /\ b \in Diffable[n]
      BY <1>1, SideKinds DEF IsContainer
    <2>2. /\ n # 0 /\ n - 1 \in 0..MaxDepth
          /\ a \in DiffObjects(Diffable[n - 1]) /\ b \in DiffObjects(Diffable[n - 1])
      BY <1>1, <2>1, DiffableShape
    <2>3. /\ a.fields \in Seq(FieldsOf(STRING, Diffable[n - 1])) /\ Distinct(a.fields)
          /\ b.fields \in Seq(FieldsOf(STRING, Diffable[n - 1])) /\ Distinct(b.fields)
      BY <2>2, DiffObjectIs
    <2> DEFINE left == a.fields
               right == b.fields
    <2>4. nonVoidObjectFields(right) = right
      BY <2>2, <2>3, NeatFields
    <2>5. \A i \in DOMAIN right : right[i].value \in Diffable[n - 1]
      BY <2>2, <2>3, NeatFields
    <2>6. \A k : HasField(left, k) => k \in KeysOf(left)
      BY <2>2, <2>3, NeatFields
    <2>7. \A k \in KeysOf(left) : GetField(left, k) \in Diffable[n - 1]
      BY <2>3, PartsOfFields
    <2>8. \A v, w \in Diffable[n - 1] : f[v][w] = g[v][w]
      BY <2>2
    <2> HIDE DEF left, right
    <2>9. ASSUME NEW i \in DOMAIN right, HasField(left, right[i].key)
          PROVE  f[GetField(left, right[i].key)][right[i].value]
                   = g[GetField(left, right[i].key)][right[i].value]
      BY <2>5, <2>6, <2>7, <2>8, <2>9
    <2>10. FieldOpsBy(left, right, f) = FieldOpsBy(left, right, g)
      <3> DEFINE One(h, i) ==
                   IF HasField(left, right[i].key)
                     THEN Beneath(right[i].key, h[GetField(left, right[i].key)][right[i].value])
                     ELSE <<Add(joinPointer(<<>>, right[i].key), right[i].value)>>
      <3>1. \A i \in DOMAIN right : One(f, i) = One(g, i)
        BY <2>9, Zenon
      <3>2. /\ FieldOpsBy(left, right, f) = [i \in DOMAIN right |-> One(f, i)]
            /\ FieldOpsBy(left, right, g) = [i \in DOMAIN right |-> One(g, i)]
        BY Zenon DEF FieldOpsBy
      <3> HIDE DEF One
      <3> QED
        BY <3>1, <3>2, Zenon
    <2>11. objectDiffOps(left, right, f) = objectDiffOps(left, right, g)
      BY <2>4, <2>10, ObjectOpsAre
    <2> QED
      BY <1>1, <2>11, Zenon DEF appendDiffOps, left, right
  <1>2. CASE a.kind = b.kind /\ a.kind = "array"
    <2>1. a \in Diffable[n] /\ b \in Diffable[n]
      BY <1>2, SideKinds DEF IsContainer
    <2>2. /\ n # 0 /\ a \in DiffArrays(Diffable[n - 1]) /\ b \in DiffArrays(Diffable[n - 1])
      BY <1>2, <2>1, DiffableShape
    <2> DEFINE left == a.items
               right == b.items
    <2>3. left \in Seq(Diffable[n - 1]) /\ right \in Seq(Diffable[n - 1])
      BY <2>2, DiffArrayIs
    <2> HIDE DEF left, right
    <2>4. \A i \in 1..Shared(left, right) : left[i] \in Diffable[n - 1] /\ right[i] \in Diffable[n - 1]
      BY <2>3 DEF Shared
    <2>5. \A v, w \in Diffable[n - 1] : f[v][w] = g[v][w]
      BY <2>2
    <2>6. ItemOpsBy(left, right, f) = ItemOpsBy(left, right, g)
      BY <2>4, <2>5, Zenon DEF ItemOpsBy
    <2>7. arrayDiffOps(left, right, f) = arrayDiffOps(left, right, g)
      BY <2>6, ArrayOpsAre, Zenon
    <2> QED
      BY <1>2, <2>7, Zenon DEF appendDiffOps, left, right
  <1>3. CASE a.kind # b.kind \/ (a.kind # "object" /\ a.kind # "array")
    BY <1>3, Zenon DEF appendDiffOps
  <1> QED
    BY <1>1, <1>2, <1>3

OpsBelowLevel(n) == IF n = 0 THEN <<>> ELSE opsBetween[n - 1]

LEMMA OpsAtLevel ==
  ASSUME NEW n \in 0..MaxDepth, NEW m \in 0..MaxDepth, NEW a \in Sides(m), NEW b \in Sides(m)
  PROVE  opsBetween[n][a][b] = appendDiffOps(a, b, OpsBelowLevel(n))
  <1>1. a \in Trees /\ b \in Trees
    BY SidesAreTrees
  <1>2. opsBetween[n] = OpsAt(n, opsBetween[n - 1])
    BY OpsIs
  <1>3. OpsAt(n, opsBetween[n - 1])[a][b] = appendDiffOps(a, b, OpsBelowLevel(n))
    BY <1>1, Zenon DEF OpsAt, OpsBelowLevel
  <1> QED
    BY <1>2, <1>3, Zenon

LEMMA OpsSettle ==
  ASSUME NEW n \in 0..MaxDepth
  PROVE  \A k \in n..MaxDepth : \A a, b \in Sides(n) : opsBetween[k][a][b] = opsBetween[n][a][b]
  <1> DEFINE Settled(m) == \A k \in m..MaxDepth : \A a, b \in Sides(m) :
                             opsBetween[k][a][b] = opsBetween[m][a][b]
             T == {m \in Nat : m <= MaxDepth => Settled(m)}
  <1>1. Settled(0)
    <2> SUFFICES ASSUME NEW k \in 0..MaxDepth, NEW a \in Sides(0), NEW b \in Sides(0)
                 PROVE  opsBetween[k][a][b] = opsBetween[0][a][b]
      BY Zenon
    <2>1. 0 \in 0..MaxDepth
      BY DepthAssumption
    <2>2. opsBetween[k][a][b] = appendDiffOps(a, b, OpsBelowLevel(k))
      BY <2>1, OpsAtLevel
    <2>3. opsBetween[0][a][b] = appendDiffOps(a, b, OpsBelowLevel(0))
      BY <2>1, OpsAtLevel
    <2>4. appendDiffOps(a, b, OpsBelowLevel(k)) = appendDiffOps(a, b, OpsBelowLevel(0))
      BY <2>1, OpsBelow
    <2> QED
      BY <2>2, <2>3, <2>4, Zenon
  <1>2. ASSUME NEW m \in Nat, m \in T PROVE m + 1 \in T
    <2>1. CASE m + 1 <= MaxDepth
      <3>1. /\ m \in 0..MaxDepth /\ m + 1 \in 0..MaxDepth /\ m + 1 # 0 /\ (m + 1) - 1 = m
        BY <2>1, DepthAssumption
      <3>2. Settled(m)
        BY <1>2, <3>1, DepthAssumption
      <3>3. ASSUME NEW k \in m + 1..MaxDepth, NEW a \in Sides(m + 1), NEW b \in Sides(m + 1)
            PROVE  opsBetween[k][a][b] = opsBetween[m + 1][a][b]
        <4>1. k \in 0..MaxDepth /\ k # 0 /\ k - 1 \in m..MaxDepth
          BY <3>1, DepthAssumption
        <4>2. opsBetween[k][a][b] = appendDiffOps(a, b, OpsBelowLevel(k))
          BY <3>1, <4>1, OpsAtLevel
        <4>3. opsBetween[m + 1][a][b] = appendDiffOps(a, b, OpsBelowLevel(m + 1))
          BY <3>1, OpsAtLevel
        <4>4. OpsBelowLevel(k) = opsBetween[k - 1] /\ OpsBelowLevel(m + 1) = opsBetween[m]
          BY <3>1, <4>1 DEF OpsBelowLevel
        <4>5. ASSUME NEW v \in Diffable[m], NEW w \in Diffable[m]
              PROVE  opsBetween[k - 1][v][w] = opsBetween[m][v][w]
          <5>1. v \in Sides(m) /\ w \in Sides(m)
            BY DEF Sides
          <5> QED
            BY <3>2, <4>1, <5>1, Zenon
        <4> DEFINE f == OpsBelowLevel(k)
                   g == OpsBelowLevel(m + 1)
        <4>6. \A v, w \in Diffable[(m + 1) - 1] : f[v][w] = g[v][w]
          BY <3>1, <4>4, <4>5, Zenon
        <4> HIDE DEF f, g
        <4>7. appendDiffOps(a, b, f) = appendDiffOps(a, b, g)
          BY <3>1, <4>6, OpsBelow
        <4> QED
          BY <4>2, <4>3, <4>7, Zenon DEF f, g
      <3>4. Settled(m + 1)
        BY <3>3, Zenon
      <3> HIDE DEF Settled
      <3> QED
        BY <3>4
    <2> QED
      BY <2>1
  <1>3. 0 \in T
    BY <1>1
  <1> HIDE DEF T
  <1>4. \A m \in Nat : m \in T
    BY <1>2, <1>3, Induction
  <1>5. n \in Nat /\ n <= MaxDepth
    BY DepthAssumption
  <1>6. n \in T
    BY <1>4, <1>5
  <1> HIDE DEF Settled
  <1>7. Settled(n)
    BY <1>5, <1>6 DEF T
  <1> QED
    BY <1>7, Zenon DEF Settled

\* appendDiffOps, with the operations between the parts at the same level.
LEMMA DiffOpsIs ==
  ASSUME NEW n \in 0..MaxDepth, NEW a \in Sides(n), NEW b \in Sides(n)
  PROVE  diffOps(a, b) = appendDiffOps(a, b, opsBetween[MaxDepth])
  <1>1. MaxDepth \in 0..MaxDepth
    BY DepthAssumption
  <1>2. opsBetween[MaxDepth][a][b] = appendDiffOps(a, b, OpsBelowLevel(MaxDepth))
    BY <1>1, OpsAtLevel
  <1> DEFINE f == OpsBelowLevel(MaxDepth)
             g == opsBetween[MaxDepth]
  <1>3. ASSUME n # 0 PROVE \A v, w \in Diffable[n - 1] : f[v][w] = g[v][w]
    <2>1. /\ n - 1 \in 0..MaxDepth /\ MaxDepth # 0
          /\ MaxDepth - 1 \in n - 1..MaxDepth /\ MaxDepth \in n - 1..MaxDepth
      BY <1>3, DepthAssumption
    <2>2. f = opsBetween[MaxDepth - 1]
      BY <2>1 DEF OpsBelowLevel
    <2>3. ASSUME NEW v \in Diffable[n - 1], NEW w \in Diffable[n - 1]
          PROVE  opsBetween[MaxDepth - 1][v][w] = opsBetween[MaxDepth][v][w]
      <3>1. v \in Sides(n - 1) /\ w \in Sides(n - 1)
        BY DEF Sides
      <3>2. opsBetween[MaxDepth - 1][v][w] = opsBetween[n - 1][v][w]
        BY <2>1, <3>1, OpsSettle
      <3>3. opsBetween[MaxDepth][v][w] = opsBetween[n - 1][v][w]
        BY <2>1, <3>1, OpsSettle
      <3> QED
        BY <3>2, <3>3, Zenon
    <2> QED
      BY <2>2, <2>3, Zenon
  <1> HIDE DEF f, g
  <1>4. appendDiffOps(a, b, f) = appendDiffOps(a, b, g)
    BY <1>3, OpsBelow
  <1> QED
    BY <1>2, <1>4, Zenon DEF diffOps, f, g

FieldOps(left, right) ==
  [i \in DOMAIN right |->
     IF right[i].key \in KeysOf(left)
       THEN Beneath(right[i].key, diffOps(GetField(left, right[i].key), right[i].value))
       ELSE <<Add(joinPointer(<<>>, right[i].key), right[i].value)>>]

ItemOps(left, right) ==
  [i \in 1..Shared(left, right) |-> Beneath(Item(i), diffOps(left[i], right[i]))]

ObjectOps(left, right) == FlattenSeq(FieldOps(left, right)) \o Removals(left, right)
ArrayOps(left, right) ==
  FlattenSeq(ItemOps(left, right)) \o Drops(left, right) \o Extras(left, right)

LEMMA DiffOfObjects ==
  ASSUME NEW n \in 0..MaxDepth, NEW a \in Diffable[n], a.kind = "object",
         NEW b \in Diffable[n], b.kind = "object", ~valuesEqual(a, b)
  PROVE  diffOps(a, b) = ObjectOps(a.fields, b.fields)
  <1>1. a \in Sides(n) /\ b \in Sides(n)
    BY DEF Sides
  <1>2. diffOps(a, b) = appendDiffOps(a, b, opsBetween[MaxDepth])
    BY <1>1, DiffOpsIs
  <1>3. ~IsVoid(a) /\ ~IsVoid(b)
    BY DEF IsVoid
  <1>4. diffOps(a, b) = objectDiffOps(a.fields, b.fields, opsBetween[MaxDepth])
    BY <1>2, <1>3, Zenon DEF appendDiffOps
  <1>5. /\ n # 0 /\ n - 1 \in 0..MaxDepth
        /\ a \in DiffObjects(Diffable[n - 1]) /\ b \in DiffObjects(Diffable[n - 1])
    BY DiffableShape
  <1>6. /\ a.fields \in Seq(FieldsOf(STRING, Diffable[n - 1])) /\ Distinct(a.fields)
        /\ b.fields \in Seq(FieldsOf(STRING, Diffable[n - 1])) /\ Distinct(b.fields)
    BY <1>5, DiffObjectIs
  <1>7. nonVoidObjectFields(b.fields) = b.fields
    BY <1>5, <1>6, NeatFields
  <1>8. \A k : HasField(a.fields, k) <=> k \in KeysOf(a.fields)
    BY <1>5, <1>6, NeatFields
  <1>9. FieldOpsBy(a.fields, b.fields, opsBetween[MaxDepth]) = FieldOps(a.fields, b.fields)
    <2> DEFINE By(i) == IF HasField(a.fields, b.fields[i].key)
                          THEN Beneath(b.fields[i].key,
                                 opsBetween[MaxDepth][GetField(a.fields, b.fields[i].key)][b.fields[i].value])
                          ELSE <<Add(joinPointer(<<>>, b.fields[i].key), b.fields[i].value)>>
               Op(i) == IF b.fields[i].key \in KeysOf(a.fields)
                          THEN Beneath(b.fields[i].key,
                                 diffOps(GetField(a.fields, b.fields[i].key), b.fields[i].value))
                          ELSE <<Add(joinPointer(<<>>, b.fields[i].key), b.fields[i].value)>>
    <2>1. \A i \in DOMAIN b.fields : By(i) = Op(i)
      BY <1>8, Zenon DEF diffOps
    <2>2. /\ FieldOpsBy(a.fields, b.fields, opsBetween[MaxDepth]) = [i \in DOMAIN b.fields |-> By(i)]
          /\ FieldOps(a.fields, b.fields) = [i \in DOMAIN b.fields |-> Op(i)]
      BY Zenon DEF FieldOpsBy, FieldOps
    <2> HIDE DEF By, Op
    <2> QED
      BY <2>1, <2>2, Zenon
  <1> QED
    BY <1>4, <1>7, <1>9, ObjectOpsAre, Zenon DEF ObjectOps

LEMMA DiffOfArrays ==
  ASSUME NEW n \in 0..MaxDepth, NEW a \in Diffable[n], a.kind = "array",
         NEW b \in Diffable[n], b.kind = "array", ~valuesEqual(a, b)
  PROVE  diffOps(a, b) = ArrayOps(a.items, b.items)
  <1>1. a \in Sides(n) /\ b \in Sides(n)
    BY DEF Sides
  <1>2. diffOps(a, b) = appendDiffOps(a, b, opsBetween[MaxDepth])
    BY <1>1, DiffOpsIs
  <1>3. ~IsVoid(a) /\ ~IsVoid(b)
    BY DEF IsVoid
  <1>4. diffOps(a, b) = arrayDiffOps(a.items, b.items, opsBetween[MaxDepth])
    BY <1>2, <1>3, Zenon DEF appendDiffOps
  <1>5. ItemOpsBy(a.items, b.items, opsBetween[MaxDepth]) = ItemOps(a.items, b.items)
    BY Zenon DEF ItemOpsBy, ItemOps, diffOps
  <1> QED
    BY <1>4, <1>5, ArrayOpsAre, Zenon DEF ArrayOps

\* What is equal, absent on one side, or replaced.
LEMMA DiffOfOthers ==
  ASSUME NEW n \in 0..MaxDepth, NEW a \in Sides(n), NEW b \in Sides(n)
  PROVE  /\ valuesEqual(a, b) => diffOps(a, b) = <<>>
         /\ ~valuesEqual(a, b) /\ IsVoid(a) => diffOps(a, b) = <<Add(<<>>, b)>>
         /\ ~valuesEqual(a, b) /\ ~IsVoid(a) /\ IsVoid(b) => diffOps(a, b) = <<Delete(<<>>)>>
         /\ ~valuesEqual(a, b) /\ ~IsVoid(a) /\ ~IsVoid(b)
              /\ (a.kind # b.kind \/ ~IsContainer(a)) => diffOps(a, b) = <<Replace(<<>>, b)>>
  <1>1. diffOps(a, b) = appendDiffOps(a, b, opsBetween[MaxDepth])
    BY DiffOpsIs
  <1> QED
    BY <1>1, Zenon DEF appendDiffOps, IsContainer

-----------------------------------------------------------------------------
(* Pointers, character by character.                                       *)

\* (The provers do not know that a literal is in STRING.)
Chars == STRING \cup {Tilde, Slash, "0", "1"}

LEMMA OneFirst ==
  ASSUME NEW E, NEW c \in E, NEW text \in Seq(E)
  PROVE  /\ <<c>> \in Seq(E) /\ <<c>> \o text \in Seq(E) /\ <<c>> \o text # <<>>
         /\ Len(<<c>> \o text) = Len(text) + 1
         /\ Head(<<c>> \o text) = c /\ Tail(<<c>> \o text) = text
  <1>1. <<c>> \in Seq(E)
    OBVIOUS
  <1>2. <<c>> \o text \in Seq(E) /\ Len(<<c>> \o text) = Len(text) + 1
    BY <1>1
  <1>3. <<c>> \o text # <<>>
    BY <1>2
  <1>4. Head(<<c>> \o text) = c
    BY <1>1
  <1>5. Tail(<<c>> \o text) = text
    BY <1>1
  <1> QED
    BY <1>1, <1>2, <1>3, <1>4, <1>5

LEMMA HeadAndTail ==
  ASSUME NEW E, NEW text \in Seq(E), text # <<>>
  PROVE  /\ Head(text) \in E /\ Tail(text) \in Seq(E) /\ Len(Tail(text)) + 1 = Len(text)
         /\ Len(Tail(text)) \in Nat
         /\ text = <<Head(text)>> \o Tail(text)
  <1>1. Head(text) \in E /\ Tail(text) \in Seq(E) /\ Len(Tail(text)) + 1 = Len(text)
    OBVIOUS
  <1>2. <<Head(text)>> \o Tail(text) \in Seq(E) /\ Len(<<Head(text)>> \o Tail(text)) = Len(text)
    BY <1>1, OneFirst
  <1>3. \A i \in 1..Len(text) : (<<Head(text)>> \o Tail(text))[i] = text[i]
    BY <1>1
  <1>4. text = <<Head(text)>> \o Tail(text)
    BY <1>2, <1>3, SameSequence
  <1> QED
    BY <1>1, <1>4

\* r[n] is what becomes of the last n characters.
Rewriting(text, old, new, r) ==
  /\ Replacing(text, old, new) = r[Len(text)]
  /\ r[0] = <<>>
  /\ \A n \in 0..Len(text) : r[n] \in Seq(Chars)
  /\ \A n \in 1..Len(text) :
       r[n] = IF StandsAt(old, text, Len(text) - n)
                THEN new \o r[n - Len(old)] ELSE <<text[Len(text) - n + 1]>> \o r[n - 1]

LEMMA ReplacingIs ==
  ASSUME NEW text \in Seq(Chars), NEW old \in Seq(Chars), old # <<>>, NEW new \in Seq(Chars)
  PROVE  \E r : Rewriting(text, old, new, r)
  <1> DEFINE l == Len(text)
             w == Len(old)
             Stands(i) == StandsAt(old, text, l - i)
             Char(i) == <<text[l - i + 1]>>
             Body(i, g) == IF i = 0 THEN <<>>
                           ELSE IF Stands(i) THEN new \o g[i - w] ELSE Char(i) \o g[i - 1]
             Is(g, m) == /\ g = [i \in 0..m |-> g[i]]
                         /\ \A i \in 0..m : g[i] = Body(i, g) /\ g[i] \in Seq(Chars)
             T == {m \in Nat : m <= l => \E g : Is(g, m)}
  <1>1. l \in Nat /\ w \in Nat /\ w # 0
    OBVIOUS
  <1>2. \A i \in 1..l : Char(i) \in Seq(Chars)
    <2> SUFFICES ASSUME NEW i \in 1..l PROVE text[l - i + 1] \in Chars
      OBVIOUS
    <2>1. l - i + 1 \in 1..Len(text)
      OBVIOUS
    <2> QED
      BY <2>1
  <1>3. \A i \in 1..l : Stands(i) => i - w \in 0..i - 1
    <2> SUFFICES ASSUME NEW i \in 1..l, Stands(i) PROVE i - w \in 0..i - 1
      OBVIOUS
    <2>1. l - i + w <= l
      BY DEF StandsAt
    <2> HIDE DEF l, w
    <2> QED
      BY <1>1, <2>1
  <1> HIDE DEF l, w, Stands, Char
  <1>4. 0 \in T
    <2> DEFINE g == [i \in 0..0 |-> <<>>]
    <2>1. Is(g, 0)
      OBVIOUS
    <2> QED
      BY <2>1
  <1>5. ASSUME NEW m \in Nat, m \in T PROVE m + 1 \in T
    <2>1. CASE m + 1 <= l
      <3>1. m <= l /\ m + 1 \in 1..l /\ m + 1 # 0
        BY <1>1, <2>1
      <3>2. PICK g : Is(g, m)
        BY <1>5, <3>1
      <3> DEFINE h == [i \in 0..m + 1 |-> IF i = m + 1 THEN Body(m + 1, g) ELSE g[i]]
      <3>11. \A i \in 0..m : g[i] \in Seq(Chars) /\ g[i] = Body(i, g)
        BY <3>2, Zenon
      <3>12. \A i \in 0..m : i \in 0..m + 1 /\ i # m + 1
        OBVIOUS
      <3>13. \A i \in 0..m : h[i] = g[i]
        BY <3>12, Zenon
      <3>3. \A i \in 0..m : h[i] = g[i] /\ g[i] \in Seq(Chars) /\ g[i] = Body(i, g)
        BY <3>11, <3>13, Zenon
      <3>4. h[m + 1] = Body(m + 1, g)
        BY <3>1
      <3>5. \A i \in 0..m + 1 : i # 0 => i - 1 \in 0..m /\ (Stands(i) => i - w \in 0..m)
        BY <1>1, <1>3, <2>1
      <3>6. h = [i \in 0..m + 1 |-> h[i]]
        OBVIOUS
      <3> HIDE DEF h
      <3>7. \A i \in 0..m + 1 : Body(i, h) = Body(i, g)
        BY <3>3, <3>5
      <3>8. Body(m + 1, g) \in Seq(Chars)
        <4>1. CASE Stands(m + 1)
          <5>1. g[(m + 1) - w] \in Seq(Chars)
            BY <3>1, <3>3, <3>5, <4>1
          <5>2. new \o g[(m + 1) - w] \in Seq(Chars)
            BY <5>1
          <5> QED
            BY <3>1, <4>1, <5>2
        <4>2. CASE ~Stands(m + 1)
          <5>1. g[(m + 1) - 1] \in Seq(Chars) /\ Char(m + 1) \in Seq(Chars)
            BY <1>2, <3>1, <3>3, <3>5
          <5>2. Char(m + 1) \o g[(m + 1) - 1] \in Seq(Chars)
            BY <5>1
          <5> QED
            BY <3>1, <4>2, <5>2
        <4> QED
          BY <4>1, <4>2
      <3>9. ASSUME NEW i \in 0..m + 1 PROVE h[i] = Body(i, h) /\ h[i] \in Seq(Chars)
        <4>1. CASE i = m + 1
          BY <3>4, <3>7, <3>8, <4>1, Zenon
        <4>2. CASE i # m + 1
          <5>1. i \in 0..m
            BY <4>2
          <5> QED
            BY <3>3, <3>7, <5>1, Zenon
        <4> QED
          BY <4>1, <4>2
      <3>10. Is(h, m + 1)
        BY <3>6, <3>9, Zenon
      <3> HIDE DEF Is
      <3> QED
        BY <3>10
    <2> QED
      BY <2>1
  <1> HIDE DEF T, Is
  <1>6. \A m \in Nat : m \in T
    BY <1>4, <1>5, Induction
  <1>7. \E g : Is(g, l)
    BY <1>1, <1>6 DEF T
  <1> DEFINE Lit(g) == g = [n \in 0..Len(text) |->
                             IF n = 0 THEN <<>>
                             ELSE IF StandsAt(old, text, Len(text) - n)
                               THEN new \o g[n - Len(old)]
                               ELSE <<text[Len(text) - n + 1]>> \o g[n - 1]]
             r == CHOOSE g : Lit(g)
  <1>8. Replacing(text, old, new) = r[Len(text)]
    BY DEF Replacing
  <1>9. \A g : Lit(g) <=> g = [i \in 0..l |-> Body(i, g)]
    BY Zenon DEF l, w, Stands, Char
  <1>10. \A g : Is(g, l) => g = [i \in 0..l |-> Body(i, g)]
    BY Zenon DEF Is
  <1> HIDE DEF Lit
  <1>11. Lit(r)
    BY <1>7, <1>9, <1>10, Zenon
  <1> HIDE DEF r
  <1>12. \A i \in 0..l : r[i] = Body(i, r)
    BY <1>9, <1>11, Zenon
  <1>13. r[0] = <<>>
    BY <1>1, <1>12
  <1> DEFINE U == {m \in Nat : \A i \in 0..m : i <= l => r[i] \in Seq(Chars)}
  <1>14. 0 \in U
    <2>1. <<>> \in Seq(Chars) /\ \A i \in 0..0 : i = 0
      OBVIOUS
    <2> QED
      BY <1>13, <2>1, Zenon
  <1>15. ASSUME NEW m \in Nat, m \in U PROVE m + 1 \in U
    <2>1. ASSUME m + 1 <= l PROVE r[m + 1] \in Seq(Chars)
      <3>1. m + 1 \in 1..l /\ m + 1 \in 0..l /\ m + 1 # 0 /\ (m + 1) - 1 = m
        BY <1>1, <2>1
      <3>2. CASE Stands(m + 1)
        <4>1. (m + 1) - w \in 0..m /\ (m + 1) - w <= l
          BY <1>1, <1>3, <3>1, <3>2
        <4>2. r[(m + 1) - w] \in Seq(Chars)
          BY <1>15, <4>1
        <4>3. new \o r[(m + 1) - w] \in Seq(Chars)
          BY <4>2
        <4> QED
          BY <1>12, <3>1, <3>2, <4>3
      <3>3. CASE ~Stands(m + 1)
        <4>1. m \in 0..m /\ m <= l
          BY <1>1, <3>1
        <4>2. r[m] \in Seq(Chars) /\ Char(m + 1) \in Seq(Chars)
          BY <1>2, <1>15, <3>1, <4>1
        <4>3. Char(m + 1) \o r[m] \in Seq(Chars)
          BY <4>2
        <4> QED
          BY <1>12, <3>1, <3>3, <4>3
      <3> QED
        BY <3>2, <3>3
    <2>2. \A i \in 0..m + 1 : i \in 0..m \/ i = m + 1
      OBVIOUS
    <2> QED
      BY <1>15, <2>1, <2>2
  <1> HIDE DEF U
  <1>16. \A m \in Nat : m \in U
    BY <1>14, <1>15, Induction
  <1>17. \A i \in 0..l : r[i] \in Seq(Chars)
    BY <1>1, <1>16 DEF U
  <1>18. \A i \in 1..l : r[i] = IF Stands(i) THEN new \o r[i - w] ELSE Char(i) \o r[i - 1]
    <2>1. \A i \in 1..l : i \in 0..l /\ i # 0
      BY <1>1
    <2> QED
      BY <1>12, <2>1
  <1>19. Rewriting(text, old, new, r)
    BY <1>8, <1>13, <1>17, <1>18, Zenon DEF Rewriting, l, w, Stands, Char
  <1> QED
    BY <1>19

\* Replacing what stands at the end of a text is nobody else's business.
LEMMA ReplacingEnd ==
  ASSUME NEW before1 \in Seq(Chars), NEW text \in Seq(Chars),
         NEW old \in Seq(Chars), old # <<>>, NEW new \in Seq(Chars),
         NEW r, Rewriting(before1 \o text, old, new, r),
         NEW s, Rewriting(text, old, new, s)
  PROVE  r[Len(text)] = s[Len(text)]
  <1> DEFINE all == before1 \o text
             l == Len(text)
             b == Len(before1)
             w == Len(old)
  <1>1. /\ all \in Seq(Chars) /\ Len(all) = b + l /\ l \in Nat /\ b \in Nat
        /\ w \in Nat /\ w # 0
        /\ \A i \in 1..l : all[b + i] = text[i]
    OBVIOUS
  <1>2. DOMAIN old = 1..w
    OBVIOUS
  <1>3. \A n \in 1..l : StandsAt(old, all, Len(all) - n) <=> StandsAt(old, text, l - n)
    <2> SUFFICES ASSUME NEW n \in 1..l
                 PROVE  StandsAt(old, all, Len(all) - n) <=> StandsAt(old, text, l - n)
      OBVIOUS
    <2> HIDE DEF all, l, b, w
    <2>1. (Len(all) - n) + w <= Len(all) <=> (l - n) + w <= l
      BY <1>1
    <2>2. ASSUME (l - n) + w <= l, NEW i \in 1..w
          PROVE  all[(Len(all) - n) + i] = text[(l - n) + i]
      <3>1. (l - n) + i \in 1..l /\ (Len(all) - n) + i = b + ((l - n) + i)
        BY <1>1, <2>2
      <3> QED
        BY <1>1, <3>1
    <2> QED
      BY <1>2, <2>1, <2>2, Zenon DEF StandsAt, l, w
  <1>4. \A n \in 1..l : StandsAt(old, text, l - n) => n - w \in 0..n - 1
    <2> SUFFICES ASSUME NEW n \in 1..l, StandsAt(old, text, l - n) PROVE n - w \in 0..n - 1
      OBVIOUS
    <2>1. (l - n) + w <= l
      BY Zenon DEF StandsAt
    <2> HIDE DEF all, l, b, w
    <2> QED
      BY <1>1, <2>1
  <1>5. \A n \in 1..l : all[Len(all) - n + 1] = text[l - n + 1]
    <2> SUFFICES ASSUME NEW n \in 1..l PROVE all[Len(all) - n + 1] = text[l - n + 1]
      OBVIOUS
    <2> HIDE DEF all, l, b, w
    <2>1. l - n + 1 \in 1..l /\ Len(all) - n + 1 = b + (l - n + 1)
      BY <1>1
    <2> QED
      BY <1>1, <2>1
  <1> DEFINE StandsIn(n) == StandsAt(old, text, l - n)
             Char(n) == <<text[l - n + 1]>>
  <1>6. \A n \in 1..l : s[n] = IF StandsIn(n) THEN new \o s[n - w] ELSE Char(n) \o s[n - 1]
    BY Zenon DEF Rewriting
  <1>7. \A n \in 1..l : r[n] = IF StandsIn(n) THEN new \o r[n - w] ELSE Char(n) \o r[n - 1]
    <2> SUFFICES ASSUME NEW n \in 1..l
                 PROVE  r[n] = IF StandsIn(n) THEN new \o r[n - w] ELSE Char(n) \o r[n - 1]
      OBVIOUS
    <2>1. n \in 1..Len(all)
      <3> HIDE DEF all, l, b, w
      <3> QED
        BY <1>1
    <2>2. r[n] = IF StandsAt(old, all, Len(all) - n)
                   THEN new \o r[n - w] ELSE <<all[Len(all) - n + 1]>> \o r[n - 1]
      BY <2>1, Zenon DEF Rewriting
    <2> QED
      BY <1>3, <1>5, <2>2, Zenon
  <1>8. r[0] = <<>> /\ s[0] = <<>>
    BY Zenon DEF Rewriting
  <1> HIDE DEF all, l, b, w, StandsIn, Char
  <1>9. \A n \in 1..l : StandsIn(n) => n - w \in 0..n - 1
    BY <1>4, Zenon DEF StandsIn
  <1> DEFINE U == {m \in Nat : \A i \in 0..m : i <= l => r[i] = s[i]}
  <1>10. 0 \in U
    BY <1>8
  <1>11. ASSUME NEW m \in Nat, m \in U PROVE m + 1 \in U
    <2>1. ASSUME m + 1 <= l PROVE r[m + 1] = s[m + 1]
      <3>1. m + 1 \in 1..l /\ (m + 1) - 1 = m
        BY <1>1, <2>1
      <3>2. CASE StandsIn(m + 1)
        <4>1. (m + 1) - w \in 0..m /\ (m + 1) - w <= l
          BY <1>1, <1>9, <3>1, <3>2
        <4>2. r[(m + 1) - w] = s[(m + 1) - w]
          BY <1>11, <4>1
        <4> QED
          BY <1>6, <1>7, <3>1, <3>2, <4>2
      <3>3. CASE ~StandsIn(m + 1)
        <4>1. m \in 0..m /\ m <= l
          BY <1>1, <3>1
        <4>2. r[m] = s[m]
          BY <1>11, <4>1
        <4> QED
          BY <1>6, <1>7, <3>1, <3>3, <4>2
      <3> QED
        BY <3>2, <3>3
    <2>2. \A i \in 0..m + 1 : i \in 0..m \/ i = m + 1
      OBVIOUS
    <2> QED
      BY <1>11, <2>1, <2>2
  <1> HIDE DEF U
  <1>12. \A m \in Nat : m \in U
    BY <1>10, <1>11, Induction
  <1>13. l \in U /\ l \in 0..l
    BY <1>1, <1>12
  <1>14. r[l] = s[l]
    BY <1>1, <1>13 DEF U
  <1> QED
    BY <1>14, Zenon DEF l

LEMMA ReplacingTyped ==
  ASSUME NEW text \in Seq(Chars), NEW old \in Seq(Chars), old # <<>>, NEW new \in Seq(Chars)
  PROVE  /\ Replacing(text, old, new) \in Seq(Chars)
         /\ text = <<>> => Replacing(text, old, new) = <<>>
  <1>1. PICK r : Rewriting(text, old, new, r)
    BY ReplacingIs
  <1>2. Len(text) \in 0..Len(text)
    OBVIOUS
  <1>3. Replacing(text, old, new) = r[Len(text)] /\ r[Len(text)] \in Seq(Chars) /\ r[0] = <<>>
    BY <1>1, <1>2, Zenon DEF Rewriting
  <1>4. text = <<>> => Len(text) = 0
    OBVIOUS
  <1> QED
    BY <1>3, <1>4, Zenon

\* What is found is replaced,
LEMMA ReplacingFound ==
  ASSUME NEW text \in Seq(Chars), NEW old \in Seq(Chars), old # <<>>, NEW new \in Seq(Chars)
  PROVE  Replacing(old \o text, old, new) = new \o Replacing(text, old, new)
  <1> DEFINE all == old \o text
             l == Len(all)
  <1>1. all \in Seq(Chars)
    OBVIOUS
  <1>2. PICK r : Rewriting(all, old, new, r)
    BY <1>1, ReplacingIs
  <1>3. PICK s : Rewriting(text, old, new, s)
    BY ReplacingIs
  <1>4. r[Len(text)] = s[Len(text)]
    BY <1>2, <1>3, ReplacingEnd
  <1>5. l \in Nat /\ l \in 1..l /\ l - l = 0 /\ l - Len(old) = Len(text) /\ 0 + Len(old) <= l
    OBVIOUS
  <1>6. \A i \in DOMAIN old : all[0 + i] = old[i]
    OBVIOUS
  <1>7. StandsAt(old, all, 0)
    BY <1>5, <1>6, Zenon DEF StandsAt
  <1>8. r[l] = IF StandsAt(old, all, l - l) THEN new \o r[l - Len(old)] ELSE <<all[l - l + 1]>> \o r[l - 1]
    BY <1>2, <1>5, Zenon DEF Rewriting
  <1>9. r[l] = new \o r[Len(text)]
    BY <1>5, <1>7, <1>8, Zenon
  <1>10. Replacing(all, old, new) = r[l] /\ Replacing(text, old, new) = s[Len(text)]
    BY <1>2, <1>3, Zenon DEF Rewriting
  <1> QED
    BY <1>4, <1>9, <1>10, Zenon

\* everything else is kept.
LEMMA ReplacingKept ==
  ASSUME NEW c \in Chars, NEW text \in Seq(Chars), NEW old \in Seq(Chars), old # <<>>,
         NEW new \in Seq(Chars), ~StandsAt(old, <<c>> \o text, 0)
  PROVE  Replacing(<<c>> \o text, old, new) = <<c>> \o Replacing(text, old, new)
  <1> DEFINE one == <<c>>
             all == one \o text
             l == Len(all)
  <1>1. all \in Seq(Chars) /\ one \in Seq(Chars)
    BY OneFirst
  <1>2. PICK r : Rewriting(all, old, new, r)
    BY <1>1, ReplacingIs
  <1>3. PICK s : Rewriting(text, old, new, s)
    BY ReplacingIs
  <1>5. /\ l \in Nat /\ l \in 1..l /\ l - l = 0 /\ l - 1 = Len(text) /\ l - l + 1 = 1
        /\ all[1] = c
    OBVIOUS
  <1>6. ~StandsAt(old, all, 0)
    OBVIOUS
  <1> HIDE DEF one
  <1>4. r[Len(text)] = s[Len(text)]
    BY <1>1, <1>2, <1>3, ReplacingEnd
  <1>8. r[l] = IF StandsAt(old, all, l - l) THEN new \o r[l - Len(old)] ELSE <<all[l - l + 1]>> \o r[l - 1]
    BY <1>2, <1>5, Zenon DEF Rewriting
  <1>9. r[l] = <<c>> \o r[Len(text)]
    BY <1>5, <1>6, <1>8, Zenon
  <1>10. Replacing(all, old, new) = r[l] /\ Replacing(text, old, new) = s[Len(text)]
    BY <1>2, <1>3, Zenon DEF Rewriting
  <1> QED
    BY <1>4, <1>9, <1>10, Zenon DEF one

\* By the first character: sets of texts that are closed under putting one before.
LEMMA TextInduction ==
  ASSUME NEW S, <<>> \in S,
         \A c \in Chars, text \in Seq(Chars) : text \in S => <<c>> \o text \in S
  PROVE  \A text \in Seq(Chars) : text \in S
  <1> DEFINE U == {n \in Nat : \A text \in Seq(Chars) : Len(text) = n => text \in S}
  <1>1. 0 \in U
    <2>1. \A text \in Seq(Chars) : Len(text) = 0 => text = <<>>
      OBVIOUS
    <2> QED
      BY <2>1
  <1>2. ASSUME NEW n \in Nat, n \in U PROVE n + 1 \in U
    <2> SUFFICES ASSUME NEW text \in Seq(Chars), Len(text) = n + 1 PROVE text \in S
      OBVIOUS
    <2>1. text # <<>>
      OBVIOUS
    <2>2. Head(text) \in Chars /\ Tail(text) \in Seq(Chars) /\ Len(Tail(text)) = n
          /\ text = <<Head(text)>> \o Tail(text)
      BY <2>1, HeadAndTail
    <2>3. Tail(text) \in S
      BY <1>2, <2>2
    <2> QED
      BY <2>2, <2>3, Zenon
  <1> HIDE DEF U
  <1>3. \A n \in Nat : n \in U
    BY <1>1, <1>2, Induction
  <1>4. \A text \in Seq(Chars) : Len(text) \in Nat
    OBVIOUS
  <1> QED
    BY <1>3, <1>4 DEF U

\* The four replacements of an escape and its reversal.
MarkTildes(text)  == Replacing(text, <<Tilde>>, <<Tilde, "0">>)
MarkSlashes(text) == Replacing(text, <<Slash>>, <<Tilde, "1">>)
SlashesBack(text) == Replacing(text, <<Tilde, "1">>, <<Slash>>)
TildesBack(text)  == Replacing(text, <<Tilde, "0">>, <<Tilde>>)

\* <<c>> \o text, to be read from the left.
Then(c, text) == <<c>> \o text

LEMMA ThenIs ==
  ASSUME NEW c \in Chars, NEW text \in Seq(Chars)
  PROVE  /\ Then(c, text) \in Seq(Chars) /\ Then(c, text) # <<>>
         /\ Head(Then(c, text)) = c /\ Tail(Then(c, text)) = text
  BY OneFirst DEF Then

LEMMA TwoFirst ==
  ASSUME NEW c \in Chars, NEW d \in Chars, NEW text \in Seq(Chars)
  PROVE  <<c, d>> \in Seq(Chars) /\ <<c, d>> # <<>> /\ <<c, d>> \o text = <<c>> \o (<<d>> \o text)
  <1>1. <<c, d>> \in Seq(Chars) /\ <<c, d>> # <<>>
    OBVIOUS
  <1>2. /\ <<d>> \o text \in Seq(Chars) /\ Len(<<d>> \o text) = Len(text) + 1
        /\ Len(text) \in Nat
    BY OneFirst
  <1>3. /\ <<c>> \o (<<d>> \o text) \in Seq(Chars)
        /\ Len(<<c>> \o (<<d>> \o text)) = Len(<<d>> \o text) + 1
    BY <1>2, OneFirst
  <1>4. <<c, d>> \o text \in Seq(Chars) /\ Len(<<c, d>> \o text) = Len(text) + 2
    OBVIOUS
  <1>5. \A i \in 1..Len(text) + 2 : (<<c, d>> \o text)[i] = (<<c>> \o (<<d>> \o text))[i]
    <2> SUFFICES ASSUME NEW i \in 1..Len(text) + 2
                 PROVE  (<<c, d>> \o text)[i] = (<<c>> \o (<<d>> \o text))[i]
      OBVIOUS
    <2>1. CASE i = 1
      BY <1>2, <2>1
    <2>2. CASE i = 2
      BY <1>2, <2>2
    <2>3. CASE i > 2
      <3>1. (<<c, d>> \o text)[i] = text[i - 2]
        BY <2>3
      <3>2. i - 1 \in 1..Len(text) + 1 /\ i - 1 # 1
        BY <2>3
      <3>3. (<<c>> \o (<<d>> \o text))[i] = (<<d>> \o text)[i - 1]
        BY <1>2, <2>3
      <3>4. (<<d>> \o text)[i - 1] = text[i - 2]
        BY <3>2
      <3> QED
        BY <3>1, <3>3, <3>4
    <2> QED
      BY <2>1, <2>2, <2>3
  <1> DEFINE s == <<c, d>> \o text
             t == <<c>> \o (<<d>> \o text)
  <1>8. Len(t) = (Len(text) + 1) + 1 /\ Len(s) = Len(text) + 2 /\ Len(text) \in Nat
    BY <1>2, <1>3, <1>4, Zenon
  <1>9. s \in Seq(Chars) /\ t \in Seq(Chars) /\ \A i \in 1..Len(text) + 2 : s[i] = t[i]
    BY <1>3, <1>4, <1>5, Zenon
  <1> HIDE DEF s, t
  <1>6. s \in Seq(Chars) /\ t \in Seq(Chars) /\ Len(s) = Len(t) /\ \A i \in 1..Len(s) : s[i] = t[i]
    BY <1>8, <1>9
  <1>7. s = t
    BY <1>6, SameSequence
  <1> QED
    BY <1>1, <1>7 DEF s, t

LEMMA StandsOne ==
  ASSUME NEW E, NEW c \in E, NEW d \in E, NEW text \in Seq(E)
  PROVE  StandsAt(<<d>>, <<c>> \o text, 0) <=> c = d
  <1>1. Len(<<d>>) = 1 /\ DOMAIN <<d>> = {1} /\ <<d>>[1] = d
    OBVIOUS
  <1>2. 0 + 1 <= Len(<<c>> \o text) /\ (<<c>> \o text)[0 + 1] = c
    OBVIOUS
  <1> QED
    BY <1>1, <1>2, Zenon DEF StandsAt

LEMMA StandsTwo ==
  ASSUME NEW E, NEW c \in E, NEW d \in E, NEW e \in E, NEW text \in Seq(E)
  PROVE  StandsAt(<<d, e>>, <<c>> \o text, 0) => c = d /\ text # <<>> /\ Head(text) = e
  <1> SUFFICES ASSUME StandsAt(<<d, e>>, <<c>> \o text, 0)
               PROVE  c = d /\ text # <<>> /\ Head(text) = e
    OBVIOUS
  <1>1. Len(<<d, e>>) = 2 /\ 1 \in DOMAIN <<d, e>> /\ 2 \in DOMAIN <<d, e>>
        /\ <<d, e>>[1] = d /\ <<d, e>>[2] = e
    OBVIOUS
  <1>2. 0 + 2 <= Len(<<c>> \o text)
    BY <1>1, Zenon DEF StandsAt
  <1>3. (<<c>> \o text)[0 + 1] = d
    BY <1>1, Zenon DEF StandsAt
  <1>4. (<<c>> \o text)[0 + 2] = e
    BY <1>1, Zenon DEF StandsAt
  <1>5. Len(<<c>> \o text) = Len(text) + 1 /\ Len(text) \in Nat /\ text # <<>>
    BY <1>2
  <1>6. (<<c>> \o text)[0 + 1] = c
    OBVIOUS
  <1>7. (<<c>> \o text)[0 + 2] = text[1] /\ Head(text) = text[1]
    BY <1>2, <1>5
  <1> QED
    BY <1>3, <1>4, <1>5, <1>6, <1>7

One(d)    == <<d>>
Two(d, e) == <<d, e>>

LEMMA OneIs ==
  ASSUME NEW d \in Chars, NEW text \in Seq(Chars)
  PROVE  One(d) \in Seq(Chars) /\ One(d) # <<>> /\ One(d) \o text = Then(d, text)
  <1>1. One(d) \in Seq(Chars)
    BY OneFirst, Zenon DEF One
  <1>2. One(d) # <<>>
    BY DEF One
  <1>3. One(d) \o text = Then(d, text)
    BY Zenon DEF One, Then
  <1> QED
    BY <1>1, <1>2, <1>3

LEMMA TwoIs ==
  ASSUME NEW d \in Chars, NEW e \in Chars, NEW text \in Seq(Chars)
  PROVE  Two(d, e) \in Seq(Chars) /\ Two(d, e) # <<>> /\ Two(d, e) \o text = Then(d, Then(e, text))
  <1>1. /\ <<d, e>> \in Seq(Chars) /\ <<d, e>> # <<>>
        /\ <<d, e>> \o text = <<d>> \o (<<e>> \o text)
    BY TwoFirst, Zenon
  <1> QED
    BY <1>1, Zenon DEF Two, Then

LEMMA StandsOneIs ==
  ASSUME NEW c \in Chars, NEW d \in Chars, NEW text \in Seq(Chars)
  PROVE  StandsAt(One(d), Then(c, text), 0) <=> c = d
  BY StandsOne, Zenon DEF One, Then

LEMMA StandsTwoIs ==
  ASSUME NEW c \in Chars, NEW d \in Chars, NEW e \in Chars, NEW text \in Seq(Chars),
         StandsAt(Two(d, e), Then(c, text), 0)
  PROVE  c = d /\ text # <<>> /\ Head(text) = e
  BY StandsTwo, Zenon DEF Two, Then

LEMMA KeepsOne ==
  ASSUME NEW c \in Chars, NEW text \in Seq(Chars), NEW d \in Chars, NEW new \in Seq(Chars)
  PROVE  c # d => Replacing(Then(c, text), One(d), new) = Then(c, Replacing(text, One(d), new))
  <1>1. One(d) \in Seq(Chars) /\ One(d) # <<>> /\ One(d) \o text = Then(d, text)
    BY OneIs
  <1>2. c # d => ~StandsAt(One(d), Then(c, text), 0)
    BY StandsOneIs
  <1>4. ASSUME c # d
        PROVE  Replacing(Then(c, text), One(d), new) = Then(c, Replacing(text, One(d), new))
    BY <1>1, <1>2, <1>4, ReplacingKept, Zenon DEF Then
  <1> QED
    BY <1>4, Zenon

LEMMA KeepsTwo ==
  ASSUME NEW c \in Chars, NEW text \in Seq(Chars), NEW d \in Chars, NEW e \in Chars,
         NEW new \in Seq(Chars)
  PROVE  c # d \/ text = <<>> \/ Head(text) # e =>
           Replacing(Then(c, text), Two(d, e), new) = Then(c, Replacing(text, Two(d, e), new))
  <1>1. Two(d, e) \in Seq(Chars) /\ Two(d, e) # <<>> /\ Two(d, e) \o text = Then(d, Then(e, text))
    BY TwoIs
  <1>2. c # d \/ text = <<>> \/ Head(text) # e => ~StandsAt(Two(d, e), Then(c, text), 0)
    BY StandsTwoIs
  <1>4. ASSUME c # d \/ text = <<>> \/ Head(text) # e
        PROVE  Replacing(Then(c, text), Two(d, e), new) = Then(c, Replacing(text, Two(d, e), new))
    BY <1>1, <1>2, <1>4, ReplacingKept, Zenon DEF Then
  <1> QED
    BY <1>4, Zenon

LEMMA ReplaceByTwo ==
  ASSUME NEW c \in Chars, NEW d \in Chars, NEW e \in Chars, NEW f \in Chars,
         NEW text \in Seq(Chars)
  PROVE  LET replaced == Replacing(text, One(d), Two(e, f))
         IN  /\ Replacing(Then(d, text), One(d), Two(e, f)) = Then(e, Then(f, replaced))
             /\ c # d => Replacing(Then(c, text), One(d), Two(e, f)) = Then(c, replaced)
  <1> DEFINE new == Two(e, f)
             replaced == Replacing(text, One(d), new)
  <1>1. new \in Seq(Chars) /\ One(d) \in Seq(Chars) /\ One(d) # <<>>
    BY OneIs, TwoIs
  <1>2. replaced \in Seq(Chars)
    BY <1>1, ReplacingTyped
  <1>3. new \o replaced = Then(e, Then(f, replaced))
    BY <1>2, TwoIs
  <1> HIDE DEF new
  <1>4. /\ Replacing(Then(d, text), One(d), new) = new \o replaced
        /\ c # d => Replacing(Then(c, text), One(d), new) = Then(c, replaced)
    <2>1. Replacing(Then(d, text), One(d), new) = new \o Replacing(text, One(d), new)
      <3>1. Replacing(One(d) \o text, One(d), new) = new \o Replacing(text, One(d), new)
        BY <1>1, ReplacingFound
      <3>2. One(d) \o text = Then(d, text)
        BY OneIs
      <3> QED
        BY <3>1, <3>2, Zenon
    <2>2. c # d => Replacing(Then(c, text), One(d), new) = Then(c, Replacing(text, One(d), new))
      BY <1>1, KeepsOne
    <2> QED
      BY <2>1, <2>2, Zenon
  <1> QED
    BY <1>3, <1>4, Zenon DEF new

LEMMA ReplaceTwoBy ==
  ASSUME NEW c \in Chars, NEW d \in Chars, NEW e \in Chars, NEW f \in Chars,
         NEW text \in Seq(Chars)
  PROVE  LET replaced == Replacing(text, Two(d, e), One(f))
         IN  /\ Replacing(Then(d, Then(e, text)), Two(d, e), One(f)) = Then(f, replaced)
             /\ c # d \/ text = <<>> \/ Head(text) # e =>
                  Replacing(Then(c, text), Two(d, e), One(f)) = Then(c, replaced)
  <1> DEFINE new == One(f)
             replaced == Replacing(text, Two(d, e), new)
  <1>1. new \in Seq(Chars) /\ Two(d, e) \in Seq(Chars) /\ Two(d, e) # <<>>
    BY OneIs, TwoIs
  <1>2. replaced \in Seq(Chars)
    BY <1>1, ReplacingTyped
  <1>3. new \o replaced = Then(f, replaced)
    BY <1>2, OneIs
  <1> HIDE DEF new
  <1>4. /\ Replacing(Then(d, Then(e, text)), Two(d, e), new) = new \o replaced
        /\ c # d \/ text = <<>> \/ Head(text) # e =>
             Replacing(Then(c, text), Two(d, e), new) = Then(c, replaced)
    <2>1. Replacing(Then(d, Then(e, text)), Two(d, e), new)
            = new \o Replacing(text, Two(d, e), new)
      <3>1. Replacing(Two(d, e) \o text, Two(d, e), new) = new \o Replacing(text, Two(d, e), new)
        BY <1>1, ReplacingFound
      <3>2. Two(d, e) \o text = Then(d, Then(e, text))
        BY TwoIs
      <3> QED
        BY <3>1, <3>2, Zenon
    <2>2. c # d \/ text = <<>> \/ Head(text) # e =>
            Replacing(Then(c, text), Two(d, e), new) = Then(c, Replacing(text, Two(d, e), new))
      BY <1>1, KeepsTwo
    <2> QED
      BY <2>1, <2>2, Zenon
  <1> QED
    BY <1>3, <1>4, Zenon DEF new

LEMMA Characters ==
  /\ Tilde \in Chars /\ Slash \in Chars /\ "0" \in Chars /\ "1" \in Chars
  /\ Tilde # Slash /\ Tilde # "0" /\ Tilde # "1" /\ Slash # "0" /\ Slash # "1" /\ "0" # "1"
  <1>1. Tilde \in Chars /\ Slash \in Chars /\ "0" \in Chars /\ "1" \in Chars
    BY DEF Chars
  <1>2. Tilde # Slash /\ Tilde # "0" /\ Tilde # "1" /\ Slash # "0" /\ Slash # "1" /\ "0" # "1"
    BY DEF Tilde, Slash
  <1> QED
    BY <1>1, <1>2

LEMMA Marks ==
  /\ One(Tilde) \in Seq(Chars) /\ One(Slash) \in Seq(Chars)
  /\ Two(Tilde, "0") \in Seq(Chars) /\ Two(Tilde, "1") \in Seq(Chars)
  /\ One(Tilde) # <<>> /\ One(Slash) # <<>> /\ Two(Tilde, "0") # <<>> /\ Two(Tilde, "1") # <<>>
  <1>1. <<>> \in Seq(Chars)
    OBVIOUS
  <1> QED
    BY <1>1, Characters, OneIs, TwoIs

LEMMA MarksAre ==
  /\ \A text : MarkTildes(text) = Replacing(text, One(Tilde), Two(Tilde, "0"))
  /\ \A text : MarkSlashes(text) = Replacing(text, One(Slash), Two(Tilde, "1"))
  /\ \A text : SlashesBack(text) = Replacing(text, Two(Tilde, "1"), One(Slash))
  /\ \A text : TildesBack(text) = Replacing(text, Two(Tilde, "0"), One(Tilde))
  BY Zenon DEF One, Two, MarkTildes, MarkSlashes, SlashesBack, TildesBack

LEMMA MarkingTyped ==
  ASSUME NEW text \in Seq(Chars)
  PROVE  /\ MarkTildes(text) \in Seq(Chars) /\ MarkSlashes(text) \in Seq(Chars)
         /\ SlashesBack(text) \in Seq(Chars) /\ TildesBack(text) \in Seq(Chars)
  <1>1. MarkTildes(text) \in Seq(Chars)
    BY Marks, MarksAre, ReplacingTyped
  <1>2. MarkSlashes(text) \in Seq(Chars)
    BY Marks, MarksAre, ReplacingTyped
  <1>3. SlashesBack(text) \in Seq(Chars)
    BY Marks, MarksAre, ReplacingTyped
  <1>4. TildesBack(text) \in Seq(Chars)
    BY Marks, MarksAre, ReplacingTyped
  <1> QED
    BY <1>1, <1>2, <1>3, <1>4

LEMMA MarkingNothing ==
  /\ MarkTildes(<<>>) = <<>> /\ MarkSlashes(<<>>) = <<>>
  /\ SlashesBack(<<>>) = <<>> /\ TildesBack(<<>>) = <<>>
  <1>1. <<>> \in Seq(Chars)
    OBVIOUS
  <1>2. MarkTildes(<<>>) = <<>>
    BY <1>1, Marks, MarksAre, ReplacingTyped
  <1>3. MarkSlashes(<<>>) = <<>>
    BY <1>1, Marks, MarksAre, ReplacingTyped
  <1>4. SlashesBack(<<>>) = <<>>
    BY <1>1, Marks, MarksAre, ReplacingTyped
  <1>5. TildesBack(<<>>) = <<>>
    BY <1>1, Marks, MarksAre, ReplacingTyped
  <1> QED
    BY <1>2, <1>3, <1>4, <1>5

LEMMA Marking ==
  ASSUME NEW c \in Chars, NEW text \in Seq(Chars)
  PROVE  /\ MarkTildes(Then(Tilde, text)) = Then(Tilde, Then("0", MarkTildes(text)))
         /\ c # Tilde => MarkTildes(Then(c, text)) = Then(c, MarkTildes(text))
         /\ MarkSlashes(Then(Slash, text)) = Then(Tilde, Then("1", MarkSlashes(text)))
         /\ c # Slash => MarkSlashes(Then(c, text)) = Then(c, MarkSlashes(text))
  <1> DEFINE zero == "0"
             one  == "1"
  <1>1. Tilde \in Chars /\ Slash \in Chars /\ zero \in Chars /\ one \in Chars
    BY Characters
  <1>2. /\ \A s : MarkTildes(s) = Replacing(s, One(Tilde), Two(Tilde, zero))
        /\ \A s : MarkSlashes(s) = Replacing(s, One(Slash), Two(Tilde, one))
    BY MarksAre
  <1> HIDE DEF zero, one
  <1>3. /\ MarkTildes(Then(Tilde, text)) = Then(Tilde, Then(zero, MarkTildes(text)))
        /\ c # Tilde => MarkTildes(Then(c, text)) = Then(c, MarkTildes(text))
    BY <1>1, <1>2, ReplaceByTwo
  <1>4. /\ MarkSlashes(Then(Slash, text)) = Then(Tilde, Then(one, MarkSlashes(text)))
        /\ c # Slash => MarkSlashes(Then(c, text)) = Then(c, MarkSlashes(text))
    BY <1>1, <1>2, ReplaceByTwo
  <1> QED
    BY <1>3, <1>4, Zenon DEF zero, one

LEMMA Unmarking ==
  ASSUME NEW c \in Chars, NEW text \in Seq(Chars)
  PROVE  /\ SlashesBack(Then(Tilde, Then("1", text))) = Then(Slash, SlashesBack(text))
         /\ c # Tilde \/ text = <<>> \/ Head(text) # "1" =>
              SlashesBack(Then(c, text)) = Then(c, SlashesBack(text))
         /\ TildesBack(Then(Tilde, Then("0", text))) = Then(Tilde, TildesBack(text))
         /\ c # Tilde \/ text = <<>> \/ Head(text) # "0" =>
              TildesBack(Then(c, text)) = Then(c, TildesBack(text))
  <1> DEFINE zero == "0"
             one  == "1"
  <1>1. Tilde \in Chars /\ Slash \in Chars /\ zero \in Chars /\ one \in Chars
    BY Characters
  <1>2. /\ \A s : SlashesBack(s) = Replacing(s, Two(Tilde, one), One(Slash))
        /\ \A s : TildesBack(s) = Replacing(s, Two(Tilde, zero), One(Tilde))
    BY MarksAre
  <1> HIDE DEF zero, one
  <1>3. /\ SlashesBack(Then(Tilde, Then(one, text))) = Then(Slash, SlashesBack(text))
        /\ c # Tilde \/ text = <<>> \/ Head(text) # one =>
              SlashesBack(Then(c, text)) = Then(c, SlashesBack(text))
    BY <1>1, <1>2, ReplaceTwoBy
  <1>4. /\ TildesBack(Then(Tilde, Then(zero, text))) = Then(Tilde, TildesBack(text))
        /\ c # Tilde \/ text = <<>> \/ Head(text) # zero =>
              TildesBack(Then(c, text)) = Then(c, TildesBack(text))
    BY <1>1, <1>2, ReplaceTwoBy
  <1> QED
    BY <1>3, <1>4, Zenon DEF zero, one

LEMMA EscapeIs ==
  /\ \A text : escapeJSONPointerSegment(text) = MarkSlashes(MarkTildes(text))
  /\ \A text : unescapeJSONPointerSegment(text) = TildesBack(SlashesBack(text))
  BY Zenon DEF escapeJSONPointerSegment, unescapeJSONPointerSegment, MarkSlashes, MarkTildes,
               TildesBack, SlashesBack

\* Escaping, character by character.
Escaped(text) == MarkSlashes(MarkTildes(text))

LEMMA Escaping ==
  ASSUME NEW c \in Chars, NEW text \in Seq(Chars)
  PROVE  /\ Escaped(text) \in Seq(Chars) /\ Escaped(<<>>) = <<>>
         /\ Escaped(Then(Tilde, text)) = Then(Tilde, Then("0", Escaped(text)))
         /\ Escaped(Then(Slash, text)) = Then(Tilde, Then("1", Escaped(text)))
         /\ c # Tilde /\ c # Slash => Escaped(Then(c, text)) = Then(c, Escaped(text))
  <1> DEFINE mid == MarkTildes(text)
  <1>1. mid \in Seq(Chars)
    BY MarkingTyped
  <1>2. Then("0", mid) \in Seq(Chars)
    BY <1>1, Characters, ThenIs
  <1>3. MarkSlashes(mid) \in Seq(Chars)
    BY <1>1, MarkingTyped
  <1>4. /\ MarkTildes(Then(Tilde, text)) = Then(Tilde, Then("0", mid))
        /\ MarkTildes(Then(Slash, text)) = Then(Slash, mid)
        /\ c # Tilde => MarkTildes(Then(c, text)) = Then(c, mid)
    BY Characters, Marking
  <1> HIDE DEF mid
  <1>5. /\ MarkSlashes(Then("0", mid)) = Then("0", MarkSlashes(mid))
        /\ MarkSlashes(Then(Tilde, Then("0", mid))) = Then(Tilde, MarkSlashes(Then("0", mid)))
        /\ MarkSlashes(Then(Slash, mid)) = Then(Tilde, Then("1", MarkSlashes(mid)))
        /\ c # Slash => MarkSlashes(Then(c, mid)) = Then(c, MarkSlashes(mid))
    BY <1>1, <1>2, Characters, Marking
  <1>6. Escaped(<<>>) = <<>>
    BY MarkingNothing, Zenon DEF Escaped
  <1> QED
    BY <1>3, <1>4, <1>5, <1>6, Zenon DEF Escaped, mid

\* Between two slashes there is one token only.
NoSlashes(text) == \A i \in DOMAIN text : text[i] # Slash

LEMMA NoSlashFirst ==
  ASSUME NEW E, NEW c \in E, NEW text \in Seq(E), c # Slash, NoSlashes(text)
  PROVE  NoSlashes(<<c>> \o text)
  <1>1. \A i \in DOMAIN text : text[i] # Slash
    BY DEF NoSlashes
  <1>2. \A i \in DOMAIN (<<c>> \o text) : (<<c>> \o text)[i] # Slash
    <2> SUFFICES ASSUME NEW i \in DOMAIN (<<c>> \o text) PROVE (<<c>> \o text)[i] # Slash
      OBVIOUS
    <2>1. CASE i = 1
      BY <2>1
    <2>2. CASE i # 1
      <3>1. i - 1 \in DOMAIN text /\ (<<c>> \o text)[i] = text[i - 1]
        BY <2>2
      <3> QED
        BY <1>1, <3>1
    <2> QED
      BY <2>1, <2>2
  <1> QED
    BY <1>2 DEF NoSlashes

LEMMA EscapedHasNoSlashes == \A text \in Seq(Chars) : NoSlashes(Escaped(text))
  <1> DEFINE S == {text \in Seq(Chars) : NoSlashes(Escaped(text))}
  <1>1. <<>> \in S
    <2>1. <<>> \in Seq(Chars) /\ NoSlashes(<<>>)
      BY DEF NoSlashes
    <2>2. Escaped(<<>>) = <<>>
      BY <2>1, Characters, Escaping
    <2> QED
      BY <2>1, <2>2
  <1>2. ASSUME NEW c \in Chars, NEW text \in Seq(Chars), text \in S PROVE <<c>> \o text \in S
    <2>1. <<c>> \o text \in Seq(Chars)
      BY OneFirst
    <2>2. Escaped(text) \in Seq(Chars) /\ NoSlashes(Escaped(text))
      BY <1>2, Escaping
    <2>3. /\ Then("0", Escaped(text)) \in Seq(Chars) /\ NoSlashes(Then("0", Escaped(text)))
          /\ Then("1", Escaped(text)) \in Seq(Chars) /\ NoSlashes(Then("1", Escaped(text)))
      BY <2>2, Characters, ThenIs, NoSlashFirst DEF Then
    <2>4. /\ NoSlashes(Then(Tilde, Then("0", Escaped(text))))
          /\ NoSlashes(Then(Tilde, Then("1", Escaped(text))))
          /\ c # Slash => NoSlashes(Then(c, Escaped(text)))
      BY <2>2, <2>3, Characters, NoSlashFirst DEF Then
    <2>5. NoSlashes(Escaped(Then(c, text)))
      BY <2>4, Escaping
    <2> QED
      BY <2>1, <2>5 DEF Then
  <1> HIDE DEF S
  <1>3. \A text \in Seq(Chars) : text \in S
    BY <1>1, <1>2, TextInduction
  <1> QED
    BY <1>3 DEF S

LEMMA SlashesComeBack == \A text \in Seq(Chars) : SlashesBack(Escaped(text)) = MarkTildes(text)
  <1> DEFINE S == {text \in Seq(Chars) : SlashesBack(Escaped(text)) = MarkTildes(text)}
  <1>1. <<>> \in S
    <2>1. <<>> \in Seq(Chars)
      OBVIOUS
    <2>2. Escaped(<<>>) = <<>>
      BY <2>1, Characters, Escaping
    <2> QED
      BY <2>1, <2>2, MarkingNothing
  <1>2. ASSUME NEW c \in Chars, NEW text \in Seq(Chars), text \in S PROVE <<c>> \o text \in S
    <2>1. <<c>> \o text \in Seq(Chars)
      BY OneFirst
    <2> DEFINE esc == Escaped(text)
    <2>2. esc \in Seq(Chars) /\ SlashesBack(esc) = MarkTildes(text)
      BY <1>2, Escaping
    <2>3. /\ Escaped(Then(Tilde, text)) = Then(Tilde, Then("0", esc))
          /\ Escaped(Then(Slash, text)) = Then(Tilde, Then("1", esc))
          /\ c # Tilde /\ c # Slash => Escaped(Then(c, text)) = Then(c, esc)
      BY Escaping
    <2> HIDE DEF esc
    <2>4. /\ Then("0", esc) \in Seq(Chars) /\ Head(Then("0", esc)) = "0"
      BY <2>2, Characters, ThenIs
    <2>5. /\ SlashesBack(Then(Tilde, Then("0", esc))) = Then(Tilde, Then("0", SlashesBack(esc)))
          /\ SlashesBack(Then(Tilde, Then("1", esc))) = Then(Slash, SlashesBack(esc))
          /\ c # Tilde => SlashesBack(Then(c, esc)) = Then(c, SlashesBack(esc))
      <3>1. SlashesBack(Then(Tilde, Then("0", esc))) = Then(Tilde, SlashesBack(Then("0", esc)))
        BY <2>4, Characters, Unmarking
      <3>2. SlashesBack(Then("0", esc)) = Then("0", SlashesBack(esc))
        BY <2>2, Characters, Unmarking
      <3>3. /\ SlashesBack(Then(Tilde, Then("1", esc))) = Then(Slash, SlashesBack(esc))
            /\ c # Tilde => SlashesBack(Then(c, esc)) = Then(c, SlashesBack(esc))
        BY <2>2, Unmarking
      <3> QED
        BY <3>1, <3>2, <3>3, Zenon
    <2>6. /\ MarkTildes(Then(Tilde, text)) = Then(Tilde, Then("0", MarkTildes(text)))
          /\ c # Tilde => MarkTildes(Then(c, text)) = Then(c, MarkTildes(text))
      BY Marking
    <2>7. SlashesBack(Escaped(Then(c, text))) = MarkTildes(Then(c, text))
      <3>1. CASE c = Tilde
        BY <2>2, <2>3, <2>5, <2>6, <3>1, Zenon
      <3>2. CASE c = Slash
        BY <2>2, <2>3, <2>5, <2>6, <3>2, Characters, Zenon
      <3>3. CASE c # Tilde /\ c # Slash
        BY <2>2, <2>3, <2>5, <2>6, <3>3, Zenon
      <3> QED
        BY <3>1, <3>2, <3>3
    <2> QED
      BY <2>1, <2>7 DEF Then
  <1> HIDE DEF S
  <1>3. \A text \in Seq(Chars) : text \in S
    BY <1>1, <1>2, TextInduction
  <1> QED
    BY <1>3 DEF S

LEMMA TildesComeBack == \A text \in Seq(Chars) : TildesBack(MarkTildes(text)) = text
  <1> DEFINE S == {text \in Seq(Chars) : TildesBack(MarkTildes(text)) = text}
  <1>1. <<>> \in S
    <2>1. <<>> \in Seq(Chars)
      OBVIOUS
    <2> QED
      BY <2>1, MarkingNothing
  <1>2. ASSUME NEW c \in Chars, NEW text \in Seq(Chars), text \in S PROVE <<c>> \o text \in S
    <2>1. <<c>> \o text \in Seq(Chars)
      BY OneFirst
    <2> DEFINE mid == MarkTildes(text)
    <2>2. mid \in Seq(Chars) /\ TildesBack(mid) = text
      BY <1>2, MarkingTyped
    <2>3. /\ MarkTildes(Then(Tilde, text)) = Then(Tilde, Then("0", mid))
          /\ c # Tilde => MarkTildes(Then(c, text)) = Then(c, mid)
      BY Marking
    <2> HIDE DEF mid
    <2>4. /\ TildesBack(Then(Tilde, Then("0", mid))) = Then(Tilde, TildesBack(mid))
          /\ c # Tilde => TildesBack(Then(c, mid)) = Then(c, TildesBack(mid))
      BY <2>2, Unmarking
    <2>5. TildesBack(MarkTildes(Then(c, text))) = Then(c, text)
      BY <2>2, <2>3, <2>4, Zenon
    <2> QED
      BY <2>1, <2>5 DEF Then
  <1> HIDE DEF S
  <1>3. \A text \in Seq(Chars) : text \in S
    BY <1>1, <1>2, TextInduction
  <1> QED
    BY <1>3 DEF S

\* Unescaping reverses escaping.
LEMMA UnescapeEscape ==
  ASSUME NEW text \in Seq(Chars)
  PROVE  unescapeJSONPointerSegment(escapeJSONPointerSegment(text)) = text
  <1>1. escapeJSONPointerSegment(text) = Escaped(text)
    BY EscapeIs, Zenon DEF Escaped
  <1>2. unescapeJSONPointerSegment(Escaped(text)) = TildesBack(SlashesBack(Escaped(text)))
    BY EscapeIs, Zenon
  <1> QED
    BY <1>1, <1>2, SlashesComeBack, TildesComeBack, Zenon

\* p[n] are the pieces of the last n characters.
Pieces == Seq(Seq(Chars)) \ {<<>>}

PiecesWith(c, p) == IF c = Slash THEN <<<<>>>> \o p ELSE <<<<c>> \o Head(p)>> \o Tail(p)

Splitting(text, p) ==
  /\ Split(text) = p[Len(text)]
  /\ p[0] = <<<<>>>>
  /\ \A n \in 0..Len(text) : p[n] \in Pieces
  /\ \A n \in 1..Len(text) : p[n] = PiecesWith(text[Len(text) - n + 1], p[n - 1])

LEMMA OnePiece == <<<<>>>> \in Pieces
  BY DEF Pieces

LEMMA PiecesAre ==
  ASSUME NEW c \in Chars, NEW p \in Pieces
  PROVE  /\ PiecesWith(c, p) \in Pieces /\ <<<<>>>> \in Pieces
         /\ c # Slash => PiecesWith(c, p) = <<Then(c, Head(p))>> \o Tail(p)
         /\ c = Slash => PiecesWith(c, p) = <<<<>>>> \o p
  <1> DEFINE S == Seq(Chars)
  <1>1. p \in Seq(S) /\ p # <<>> /\ <<>> \in S
    BY DEF Pieces
  <1>2. \A s \in S : <<c>> \o s \in S
    BY OneFirst
  <1>3. <<<<>>>> \in Pieces
    BY DEF Pieces
  <1>4. \A s : s \in Pieces <=> s \in Seq(S) /\ s # <<>>
    BY DEF Pieces
  <1> HIDE DEF S
  <1>5. Head(p) \in S /\ Tail(p) \in Seq(S)
    BY <1>1, HeadAndTail
  <1>6. <<<<c>> \o Head(p)>> \o Tail(p) \in Seq(S) /\ <<<<c>> \o Head(p)>> \o Tail(p) # <<>>
    <2> DEFINE first == <<c>> \o Head(p)
    <2>1. first \in S
      BY <1>2, <1>5
    <2> HIDE DEF first
    <2>2. <<first>> \o Tail(p) \in Seq(S) /\ <<first>> \o Tail(p) # <<>>
      BY <1>5, <2>1, OneFirst
    <2> QED
      BY <2>2, Zenon DEF first
  <1>7. <<<<>>>> \o p \in Seq(S) /\ <<<<>>>> \o p # <<>>
    <2> DEFINE first == <<>>
    <2>1. first \in S
      BY <1>1
    <2> HIDE DEF first
    <2>2. <<first>> \o p \in Seq(S) /\ <<first>> \o p # <<>>
      BY <1>1, <2>1, OneFirst
    <2> QED
      BY <2>2, Zenon DEF first
  <1> QED
    BY <1>3, <1>4, <1>6, <1>7, Zenon DEF PiecesWith, Then

LEMMA SplitIs ==
  ASSUME NEW text \in Seq(Chars)
  PROVE  \E p : Splitting(text, p)
  <1> DEFINE l == Len(text)
             T == [n \in Nat |-> Pieces]
             F == [n \in Nat |-> [x \in T[n] |->
                     IF n + 1 <= l THEN PiecesWith(text[l - (n + 1) + 1], x) ELSE x]]
  <1>1. l \in Nat /\ \A n \in 1..l : text[l - n + 1] \in Chars
    <2>1. \A n \in 1..l : l - n + 1 \in 1..Len(text)
      OBVIOUS
    <2> QED
      BY <2>1
  <1>2. \A n \in Nat : T[n] = Pieces
    BY Zenon
  <1>3. \A n \in Nat : \A x \in Pieces :
          F[n][x] = IF n + 1 <= l THEN PiecesWith(text[l - (n + 1) + 1], x) ELSE x
    BY <1>2, Zenon
  <1> HIDE DEF F, T
  <1>4. \A n \in Nat : \A x \in T[n] : F[n][x] \in T[n + 1]
    <2> SUFFICES ASSUME NEW n \in Nat, NEW x \in Pieces PROVE F[n][x] \in Pieces
      <3>1. \A n \in Nat : n + 1 \in Nat
        OBVIOUS
      <3> QED
        BY <1>2, <3>1, Zenon
    <2>1. CASE n + 1 <= l
      <3>1. n + 1 \in 1..l
        BY <1>1, <2>1
      <3>2. PiecesWith(text[l - (n + 1) + 1], x) \in Pieces
        BY <1>1, <3>1, PiecesAre
      <3> QED
        BY <1>3, <2>1, <3>2, Zenon
    <2>2. CASE ~(n + 1 <= l)
      BY <1>3, <2>2, Zenon
    <2> QED
      BY <2>1, <2>2
  <1>5. <<<<>>>> \in T[0]
    <2>1. 0 \in Nat
      OBVIOUS
    <2> QED
      BY <1>2, <2>1, OnePiece, Zenon
  <1>6. PICK f : /\ f = [n \in Nat |-> IF n = 0 THEN <<<<>>>> ELSE F[n - 1][f[n - 1]]]
                 /\ \A n \in Nat : f[n] \in T[n]
    BY <1>4, <1>5, Iteration
  <1>7. \A n \in Nat : f[n] \in Pieces
    BY <1>2, <1>6, Zenon
  <1> DEFINE Body(n, g) == IF n = 0 THEN <<<<>>>> ELSE PiecesWith(text[l - n + 1], g[n - 1])
             g == [n \in 0..l |-> f[n]]
  <1>8. \A n \in 0..l : g[n] = Body(n, g)
    <2> SUFFICES ASSUME NEW n \in 0..l PROVE g[n] = Body(n, g)
      OBVIOUS
    <2>1. n \in Nat
      OBVIOUS
    <2>2. CASE n = 0
      <3>1. f[0] = <<<<>>>>
        BY <1>6
      <3> QED
        BY <2>2, <3>1
    <2>3. CASE n # 0
      <3>1. n - 1 \in Nat /\ n - 1 \in 0..l /\ (n - 1) + 1 = n /\ (n - 1) + 1 <= l
        BY <1>1, <2>3
      <3>2. f[n] = F[n - 1][f[n - 1]]
        BY <1>6, <2>1, <2>3
      <3>3. f[n - 1] \in Pieces
        BY <1>7, <3>1
      <3>4. F[n - 1][f[n - 1]] = PiecesWith(text[l - ((n - 1) + 1) + 1], f[n - 1])
        BY <1>3, <3>1, <3>3, Zenon
      <3>5. g[n] = f[n] /\ g[n - 1] = f[n - 1]
        BY <3>1
      <3> HIDE DEF g
      <3> QED
        BY <2>3, <3>1, <3>2, <3>4, <3>5, Zenon
    <2> QED
      BY <2>2, <2>3
  <1>9. g = [n \in 0..l |-> g[n]]
    OBVIOUS
  <1>10. \A n \in 0..l : g[n] \in Pieces
    BY <1>1, <1>7
  <1> DEFINE Lit(h) == h = [n \in 0..Len(text) |->
                             IF n = 0 THEN <<<<>>>>
                             ELSE LET c == text[Len(text) - n + 1]
                                  IN  IF c = Slash THEN <<<<>>>> \o h[n - 1]
                                      ELSE <<<<c>> \o Head(h[n - 1])>> \o Tail(h[n - 1])]
             r == CHOOSE h : Lit(h)
  <1>11. Split(text) = r[Len(text)]
    BY DEF Split
  <1>12. \A h : Lit(h) <=> h = [n \in 0..l |-> Body(n, h)]
    BY Zenon DEF PiecesWith
  <1> HIDE DEF g
  <1>13. g = [n \in 0..l |-> Body(n, g)]
    BY <1>8, <1>9, Zenon
  <1> HIDE DEF Lit
  <1>14. Lit(r)
    BY <1>12, <1>13, Zenon
  <1> HIDE DEF r
  <1>15. \A n \in 0..l : r[n] = Body(n, r)
    BY <1>12, <1>14, Zenon
  <1>16. 0 \in 0..l /\ \A n \in 1..l : n \in 0..l /\ n # 0
    BY <1>1
  <1>17. r[0] = <<<<>>>>
    BY <1>15, <1>16, Zenon
  <1>18. \A n \in 1..l : r[n] = PiecesWith(text[l - n + 1], r[n - 1])
    BY <1>15, <1>16, Zenon
  <1> DEFINE U == {m \in Nat : m <= l => r[m] \in Pieces}
  <1>19. 0 \in U
    <2>1. r[0] \in Pieces
      BY <1>17, OnePiece, Zenon
    <2> QED
      BY <2>1
  <1>20. ASSUME NEW m \in Nat, m \in U PROVE m + 1 \in U
    <2> SUFFICES ASSUME m + 1 <= l PROVE r[m + 1] \in Pieces
      OBVIOUS
    <2>1. m + 1 \in 1..l /\ (m + 1) - 1 = m /\ m <= l
      BY <1>1
    <2>2. r[m] \in Pieces /\ text[l - (m + 1) + 1] \in Chars
      BY <1>1, <1>20, <2>1
    <2>3. r[m + 1] = PiecesWith(text[l - (m + 1) + 1], r[m])
      BY <1>18, <2>1
    <2> QED
      BY <2>2, <2>3, PiecesAre
  <1> HIDE DEF U
  <1>21. \A m \in Nat : m \in U
    BY <1>19, <1>20, Induction
  <1>22. \A n \in 0..l : r[n] \in Pieces
    BY <1>1, <1>21 DEF U
  <1>23. Splitting(text, r)
    BY <1>11, <1>17, <1>18, <1>22, Zenon DEF Splitting
  <1> QED
    BY <1>23

LEMMA SplitNothing == Split(<<>>) = <<<<>>>>
  <1>1. <<>> \in Seq(Chars) /\ Len(<<>>) = 0
    OBVIOUS
  <1>2. PICK p : Splitting(<<>>, p)
    BY <1>1, SplitIs
  <1> QED
    BY <1>1, <1>2, Zenon DEF Splitting

LEMMA SplitFirst ==
  ASSUME NEW c \in Chars, NEW text \in Seq(Chars)
  PROVE  Split(text) \in Pieces /\ Split(Then(c, text)) = PiecesWith(c, Split(text))
  <1> DEFINE all == Then(c, text)
             l == Len(text)
  <1>1. all \in Seq(Chars)
    BY ThenIs
  <1>2. PICK r : Splitting(all, r)
    BY <1>1, SplitIs
  <1>3. PICK s : Splitting(text, s)
    BY SplitIs
  <1>4. Len(all) = l + 1 /\ all[1] = c /\ \A i \in 1..l : all[1 + i] = text[i]
    BY DEF Then
  <1>5. l \in Nat
    OBVIOUS
  <1> HIDE DEF all
  <1>6. /\ Split(all) = r[l + 1] /\ Split(text) = s[l]
        /\ r[0] = <<<<>>>> /\ s[0] = <<<<>>>>
        /\ \A n \in 0..l : s[n] \in Pieces
        /\ \A n \in 1..l + 1 : r[n] = PiecesWith(all[(l + 1) - n + 1], r[n - 1])
        /\ \A n \in 1..l : s[n] = PiecesWith(text[l - n + 1], s[n - 1])
    BY <1>2, <1>3, <1>4, Zenon DEF Splitting
  <1> HIDE DEF l
  <1> DEFINE U == {m \in Nat : m <= l => r[m] = s[m]}
  <1>7. 0 \in U
    BY <1>6
  <1>8. ASSUME NEW m \in Nat, m \in U PROVE m + 1 \in U
    <2> SUFFICES ASSUME m + 1 <= l PROVE r[m + 1] = s[m + 1]
      OBVIOUS
    <2>1. /\ m + 1 \in 1..l /\ m + 1 \in 1..l + 1 /\ (m + 1) - 1 = m /\ m <= l
          /\ l - (m + 1) + 1 \in 1..l
          /\ (l + 1) - (m + 1) + 1 = 1 + (l - (m + 1) + 1)
      BY <1>5
    <2>2. r[m] = s[m]
      BY <1>8, <2>1
    <2>3. all[(l + 1) - (m + 1) + 1] = text[l - (m + 1) + 1]
      BY <1>4, <2>1
    <2>4. r[m + 1] = PiecesWith(all[(l + 1) - (m + 1) + 1], r[(m + 1) - 1])
      BY <1>6, <2>1
    <2>5. s[m + 1] = PiecesWith(text[l - (m + 1) + 1], s[(m + 1) - 1])
      BY <1>6, <2>1
    <2> QED
      BY <2>1, <2>2, <2>3, <2>4, <2>5, Zenon
  <1> HIDE DEF U
  <1>9. \A m \in Nat : m \in U
    BY <1>7, <1>8, Induction
  <1>10. r[l] = s[l]
    BY <1>5, <1>9 DEF U
  <1>11. l + 1 \in 1..l + 1 /\ (l + 1) - (l + 1) + 1 = 1 /\ (l + 1) - 1 = l /\ l \in 0..l
    BY <1>5
  <1>12. r[l + 1] = PiecesWith(all[(l + 1) - (l + 1) + 1], r[(l + 1) - 1])
    BY <1>6, <1>11
  <1>13. r[l + 1] = PiecesWith(c, s[l])
    BY <1>4, <1>10, <1>11, <1>12, Zenon
  <1>14. Split(text) \in Pieces
    BY <1>6, <1>11
  <1> QED
    BY <1>6, <1>13, <1>14, Zenon DEF all

\* What stands in front of the first slash is the first piece.
LEMMA SplitToken ==
  ASSUME NEW rest \in Seq(Chars)
  PROVE  \A text \in Seq(Chars) :
           NoSlashes(text) => /\ Split(text) = <<text>>
                              /\ Split(text \o Then(Slash, rest)) = <<text>> \o Split(rest)
  <1> DEFINE more == Then(Slash, rest)
             Good(text) == Split(text) = <<text>> /\ Split(text \o more) = <<text>> \o Split(rest)
             S == {text \in Seq(Chars) : NoSlashes(text) => Good(text)}
  <1>1. more \in Seq(Chars) /\ Split(more) = <<<<>>>> \o Split(rest) /\ Split(rest) \in Pieces
    <2>1. Slash \in Chars
      BY Characters
    <2>2. more \in Seq(Chars)
      BY <2>1, ThenIs
    <2>3. Split(more) = PiecesWith(Slash, Split(rest)) /\ Split(rest) \in Pieces
      BY <2>1, SplitFirst
    <2> QED
      BY <2>2, <2>3, Zenon DEF PiecesWith
  <1> HIDE DEF more
  <1>2. <<>> \in S
    <2>1. <<>> \in Seq(Chars) /\ <<>> \o more = more
      BY <1>1
    <2> QED
      BY <1>1, <2>1, SplitNothing
  <1>3. ASSUME NEW c \in Chars, NEW text \in Seq(Chars), text \in S PROVE <<c>> \o text \in S
    <2>1. <<c>> \o text \in Seq(Chars)
      BY OneFirst
    <2> SUFFICES ASSUME NoSlashes(<<c>> \o text) PROVE Good(<<c>> \o text)
      BY <2>1
    <2>2. c # Slash /\ NoSlashes(text)
      <3>1. \A i \in DOMAIN (<<c>> \o text) : (<<c>> \o text)[i] # Slash
        BY DEF NoSlashes
      <3>2. 1 \in DOMAIN (<<c>> \o text) /\ (<<c>> \o text)[1] = c
        OBVIOUS
      <3>3. \A i \in DOMAIN text : i + 1 \in DOMAIN (<<c>> \o text) /\ (<<c>> \o text)[i + 1] = text[i]
        OBVIOUS
      <3>4. \A i \in DOMAIN text : text[i] # Slash
        BY <3>1, <3>3, Zenon
      <3> QED
        BY <3>1, <3>2, <3>4, Zenon DEF NoSlashes
    <2>3. Split(text) = <<text>> /\ Split(text \o more) = <<text>> \o Split(rest)
      BY <1>3, <2>2
    <2>4. text \o more \in Seq(Chars)
      BY <1>1
    <2>5. (<<c>> \o text) \o more = Then(c, text \o more)
      BY <1>1 DEF Then
    <2>6. Split(Then(c, text)) = <<Then(c, Head(Split(text)))>> \o Tail(Split(text))
      BY <2>2, SplitFirst, PiecesAre
    <2>7. Split(Then(c, text \o more))
            = <<Then(c, Head(Split(text \o more)))>> \o Tail(Split(text \o more))
      BY <2>2, <2>4, SplitFirst, PiecesAre
    <2>8. Head(<<text>>) = text /\ Tail(<<text>>) = <<>>
      OBVIOUS
    <2>9. Head(<<text>> \o Split(rest)) = text /\ Tail(<<text>> \o Split(rest)) = Split(rest)
      <3>1. Split(rest) \in Seq(Seq(Chars))
        BY <1>1 DEF Pieces
      <3> QED
        BY <3>1, OneFirst
    <2>10. <<Then(c, text)>> \o <<>> = <<Then(c, text)>>
      OBVIOUS
    <2>11. Split(Then(c, text)) = <<Then(c, text)>>
      BY <2>3, <2>6, <2>8, <2>10, Zenon
    <2>12. Split(Then(c, text \o more)) = <<Then(c, text)>> \o Split(rest)
      BY <2>3, <2>7, <2>9, Zenon
    <2> QED
      BY <2>5, <2>11, <2>12, Zenon DEF Then
  <1> HIDE DEF S
  <1>4. \A text \in Seq(Chars) : text \in S
    BY <1>2, <1>3, TextInduction
  <1> QED
    BY <1>4 DEF S, more

-----------------------------------------------------------------------------
(* What pointers lead to.                                                  *)

Pointers == {p \in Seq(Chars) : IsPointer(p)}
Tokens   == DOMAIN Spelling \cup {NoToken}

LEMMA SpellingIs ==
  ASSUME NEW t \in DOMAIN Spelling
  PROVE  Spelling[t] \in Seq(Chars) /\ Token(Spelling[t]) = t
  <1>1. Spelling[t] \in Seq(STRING)
    BY TokensAssumption
  <1>2. STRING \subseteq Chars
    BY DEF Chars
  <1>3. Spelling[t] \in Seq(Chars)
    <2> DEFINE E == STRING
    <2> HIDE DEF E
    <2>1. Spelling[t] \in Seq(E) /\ E \subseteq Chars
      BY <1>1, <1>2 DEF E
    <2> QED
      BY <2>1
  <1>4. \A u \in DOMAIN Spelling : Spelling[u] = Spelling[t] => u = t
    BY TokensAssumption
  <1>5. Token(Spelling[t]) = CHOOSE u \in DOMAIN Spelling : Spelling[u] = Spelling[t]
    BY DEF Token
  <1> QED
    BY <1>3, <1>4, <1>5

LEMMA TokenTyped == \A text : Token(text) \in Tokens
  BY DEF Token, Tokens

Pointer(t) == joinPointer(<<>>, t)

LEMMA PointerIs ==
  ASSUME NEW t \in DOMAIN Spelling
  PROVE  LET esc == Escaped(Spelling[t])
         IN  /\ Pointer(t) = Then(Slash, esc) /\ esc \in Seq(Chars) /\ NoSlashes(esc)
             /\ unescapeJSONPointerSegment(esc) = Spelling[t]
  <1> DEFINE esc == Escaped(Spelling[t])
  <1>1. Spelling[t] \in Seq(Chars)
    BY SpellingIs
  <1>2. esc \in Seq(Chars)
    BY <1>1, Escaping, Characters
  <1>3. escapeJSONPointerSegment(Spelling[t]) = esc
    BY EscapeIs, Zenon DEF Escaped
  <1>4. NoSlashes(esc) /\ unescapeJSONPointerSegment(esc) = Spelling[t]
    BY <1>1, <1>3, EscapedHasNoSlashes, UnescapeEscape
  <1> HIDE DEF esc
  <1>5. <<>> \o <<Slash>> \o esc = Then(Slash, esc)
    BY <1>2 DEF Then
  <1>6. Pointer(t) = Then(Slash, esc)
    BY <1>3, <1>5, Zenon DEF Pointer, joinPointer
  <1> QED
    BY <1>2, <1>4, <1>6 DEF esc

\* A token in front of a pointer.
LEMMA PointerBefore ==
  ASSUME NEW t \in DOMAIN Spelling, NEW p \in Pointers
  PROVE  /\ Pointer(t) \o p \in Pointers /\ Pointer(t) \o p # <<>>
         /\ ParseJSONPointer(p) \in Seq(Tokens)
         /\ ParseJSONPointer(Pointer(t) \o p) = <<t>> \o ParseJSONPointer(p)
  <1> DEFINE esc == Escaped(Spelling[t])
             all == Pointer(t) \o p
  <1>1. /\ Pointer(t) = Then(Slash, esc) /\ esc \in Seq(Chars) /\ NoSlashes(esc)
        /\ unescapeJSONPointerSegment(esc) = Spelling[t]
    BY PointerIs
  <1>2. p \in Seq(Chars) /\ (p = <<>> \/ (p # <<>> /\ Head(p) = Slash))
    BY DEF Pointers, IsPointer
  <1> HIDE DEF esc
  <1>3. esc \o p \in Seq(Chars) /\ all = Then(Slash, esc \o p)
    BY <1>1, <1>2 DEF Then
  <1>4. all \in Seq(Chars) /\ all # <<>> /\ Head(all) = Slash /\ Tail(all) = esc \o p
    BY <1>3, Characters, ThenIs
  <1> HIDE DEF all
  <1>5. all \in Pointers
    BY <1>4 DEF Pointers, IsPointer
  <1> DEFINE TokensOf(raw) == [i \in DOMAIN raw |-> Token(unescapeJSONPointerSegment(raw[i]))]
  <1>6. ParseJSONPointer(all) = TokensOf(Split(esc \o p))
    BY <1>4, Zenon DEF ParseJSONPointer
  <1>7. Token(unescapeJSONPointerSegment(esc)) = t
    BY <1>1, SpellingIs
  <1>8. t \in Tokens
    BY DEF Tokens
  <1>9. CASE p = <<>>
    <2>1. esc \o p = esc /\ ParseJSONPointer(p) = <<>>
      BY <1>1, <1>9 DEF ParseJSONPointer
    <2>2. Split(esc) = <<esc>>
      BY <1>1, <1>2, SplitToken
    <2>3. TokensOf(<<esc>>) = <<t>>
      <3>1. DOMAIN <<esc>> = {1} /\ <<esc>>[1] = esc
        OBVIOUS
      <3>2. TokensOf(<<esc>>) = [i \in {1} |-> t]
        BY <1>7, <3>1, Zenon
      <3>3. <<t>> = [i \in {1} |-> t]
        OBVIOUS
      <3> QED
        BY <3>2, <3>3, Zenon
    <2>4. <<t>> \o <<>> = <<t>> /\ <<>> \in Seq(Tokens)
      OBVIOUS
    <2>5. ParseJSONPointer(all) = <<t>> \o ParseJSONPointer(p)
      BY <1>6, <2>1, <2>2, <2>3, <2>4, Zenon
    <2> QED
      BY <1>4, <1>5, <2>1, <2>4, <2>5 DEF all
  <1>10. CASE p # <<>>
    <2> DEFINE q == Tail(p)
    <2>1. q \in Seq(Chars) /\ p = Then(Slash, q)
      BY <1>2, <1>10, HeadAndTail DEF Then
    <2>2. ParseJSONPointer(p) = TokensOf(Split(q))
      BY <1>10, Zenon DEF ParseJSONPointer
    <2> HIDE DEF q
    <2> DEFINE raw == Split(q)
    <2>3. Split(esc \o p) = <<esc>> \o raw
      BY <1>1, <2>1, SplitToken
    <2>4. raw \in Seq(Seq(Chars))
      BY <2>1, Characters, SplitFirst DEF Pieces
    <2> HIDE DEF raw
    <2>5. TokensOf(raw) \in Seq(Tokens) /\ Len(TokensOf(raw)) = Len(raw)
          /\ \A i \in 1..Len(raw) : TokensOf(raw)[i] = Token(unescapeJSONPointerSegment(raw[i]))
      <3>1. DOMAIN raw = 1..Len(raw) /\ Len(raw) \in Nat
        BY <2>4
      <3>2. \A i \in 1..Len(raw) : Token(unescapeJSONPointerSegment(raw[i])) \in Tokens
        BY TokenTyped
      <3> QED
        BY <3>1, <3>2
    <2>6. Len(<<esc>> \o raw) = Len(raw) + 1 /\ DOMAIN (<<esc>> \o raw) = 1..Len(raw) + 1
          /\ (<<esc>> \o raw)[1] = esc /\ \A i \in 1..Len(raw) : (<<esc>> \o raw)[i + 1] = raw[i]
      BY <1>1, <2>4
    <2> DEFINE both == <<esc>> \o raw
               left == TokensOf(both)
               right == <<t>> \o TokensOf(raw)
    <2>7. right \in Seq(Tokens) /\ Len(right) = Len(raw) + 1
      <3> DEFINE some == TokensOf(raw)
      <3>1. some \in Seq(Tokens) /\ Len(some) = Len(raw)
        BY <2>5
      <3> HIDE DEF some
      <3>2. <<t>> \o some \in Seq(Tokens) /\ Len(<<t>> \o some) = Len(raw) + 1
        BY <1>8, <3>1, OneFirst
      <3> QED
        BY <3>2 DEF some
    <2>8. left \in Seq(Tokens) /\ Len(left) = Len(raw) + 1
          /\ \A i \in 1..Len(raw) + 1 : left[i] = Token(unescapeJSONPointerSegment(both[i]))
      <3>1. DOMAIN both = 1..Len(raw) + 1 /\ Len(raw) + 1 \in Nat
        BY <2>4, <2>6
      <3>2. \A i \in 1..Len(raw) + 1 : Token(unescapeJSONPointerSegment(both[i])) \in Tokens
        BY TokenTyped
      <3> HIDE DEF both
      <3> QED
        BY <3>1, <3>2
    <2>9. \A i \in 1..Len(raw) + 1 : left[i] = right[i]
      <3> SUFFICES ASSUME NEW i \in 1..Len(raw) + 1 PROVE left[i] = right[i]
        OBVIOUS
      <3>1. CASE i = 1
        <4>1. right[1] = t
          BY <2>5
        <4>2. left[1] = t
          <5>1. left[i] = Token(unescapeJSONPointerSegment(both[i])) /\ both[1] = esc
            BY <2>6, <2>8
          <5> HIDE DEF left, both
          <5> QED
            BY <1>7, <3>1, <5>1, Zenon
        <4> HIDE DEF left, right
        <4> QED
          BY <3>1, <4>1, <4>2
      <3>2. CASE i # 1
        <4>1. i - 1 \in 1..Len(raw) /\ (i - 1) + 1 = i /\ Len(raw) \in Nat
          BY <2>4, <3>2
        <4>2. both[i] = raw[i - 1]
          BY <2>6, <4>1
        <4>3. left[i] = Token(unescapeJSONPointerSegment(raw[i - 1]))
          <5>1. left[i] = Token(unescapeJSONPointerSegment(both[i]))
            BY <2>8
          <5> HIDE DEF left, both
          <5> QED
            BY <4>2, <5>1, Zenon
        <4>4. right[i] = TokensOf(raw)[i - 1]
          <5> DEFINE some == TokensOf(raw)
          <5>1. some \in Seq(Tokens) /\ Len(some) = Len(raw)
            BY <2>5
          <5> HIDE DEF some
          <5>2. (<<t>> \o some)[i] = some[i - 1]
            BY <3>2, <4>1, <5>1
          <5> QED
            BY <5>2 DEF some
        <4>5. TokensOf(raw)[i - 1] = Token(unescapeJSONPointerSegment(raw[i - 1]))
          BY <2>5, <4>1
        <4> QED
          BY <4>3, <4>4, <4>5, Zenon
      <3> QED
        BY <3>1, <3>2
    <2> HIDE DEF left, right, TokensOf
    <2>10. left = right
      BY <2>7, <2>8, <2>9, SameSequence
    <2>11. ParseJSONPointer(all) = <<t>> \o ParseJSONPointer(p)
      BY <1>6, <2>2, <2>3, <2>10, Zenon DEF left, right, both, raw
    <2>12. ParseJSONPointer(p) \in Seq(Tokens)
      BY <2>2, <2>5, Zenon DEF raw
    <2> QED
      BY <1>4, <1>5, <2>11, <2>12 DEF all
  <1> QED
    BY <1>9, <1>10

-----------------------------------------------------------------------------
(* The operations of a diff.                                               *)

Operations ==
  [op : {"add", "replace"}, path : Pointers, value : Diffable[MaxDepth]]
    \cup [op : {"remove"}, path : Pointers]

\* An operation on a part.
AtPart(token, op) == [op EXCEPT !.path = Pointer(token) \o @]

LEMMA OperationIs ==
  ASSUME NEW op \in Operations
  PROVE  /\ op.path \in Pointers /\ op.op \in {"add", "replace", "remove"}
         /\ op.op # "remove" => op = [op |-> op.op, path |-> op.path, value |-> op.value]
                                  /\ op.value \in Diffable[MaxDepth]
         /\ op.op = "remove" => op = [op |-> "remove", path |-> op.path]
  BY DEF Operations

LEMMA OperationsAre ==
  ASSUME NEW path \in Pointers
  PROVE  /\ Delete(path) \in Operations
         /\ \A value \in Diffable[MaxDepth] :
              Add(path, value) \in Operations /\ Replace(path, value) \in Operations
  BY DEF Operations, Delete, Add, Replace

LEMMA AtPartIs ==
  ASSUME NEW op \in Operations, NEW token \in DOMAIN Spelling
  PROVE  /\ AtPart(token, op) \in Operations
         /\ AtPart(token, op).op = op.op /\ AtPart(token, op).path = Pointer(token) \o op.path
         /\ op.op # "remove" => AtPart(token, op).value = op.value
  <1> DEFINE path == Pointer(token) \o op.path
  <1>1. op.path \in Pointers
    BY OperationIs
  <1>2. path \in Pointers
    BY <1>1, PointerBefore
  <1>3. AtPart(token, op) = [op EXCEPT !.path = path]
    BY DEF AtPart
  <1> HIDE DEF path
  <1>4. CASE op.op = "remove"
    <2>1. op = [op |-> "remove", path |-> op.path]
      BY <1>4, OperationIs
    <2>2. AtPart(token, op) = [op |-> "remove", path |-> path]
      BY <1>3, <2>1
    <2> QED
      BY <1>2, <1>4, <2>2 DEF Operations, path
  <1>5. CASE op.op # "remove"
    <2>1. /\ op = [op |-> op.op, path |-> op.path, value |-> op.value]
          /\ op.value \in Diffable[MaxDepth] /\ op.op \in {"add", "replace"}
      BY <1>5, OperationIs
    <2>2. AtPart(token, op) = [op |-> op.op, path |-> path, value |-> op.value]
      BY <1>3, <2>1
    <2> QED
      BY <1>2, <2>1, <2>2 DEF Operations, path
  <1> QED
    BY <1>4, <1>5

LEMMA BeneathIs ==
  ASSUME NEW partOps \in Seq(Operations), NEW token \in DOMAIN Spelling
  PROVE  /\ Beneath(token, partOps) \in Seq(Operations)
         /\ Beneath(token, partOps) = <<>> <=> partOps = <<>>
         /\ partOps # <<>> =>
              /\ Head(Beneath(token, partOps)) = AtPart(token, Head(partOps))
              /\ Tail(Beneath(token, partOps)) = Beneath(token, Tail(partOps))
  <1>1. \A s : Beneath(token, s) = [i \in DOMAIN s |-> AtPart(token, s[i])]
    BY Zenon DEF Beneath, AtPart, Pointer
  <1>2. \A op \in Operations : AtPart(token, op) \in Operations
    BY AtPartIs
  <1>3. ASSUME NEW s \in Seq(Operations)
        PROVE  /\ Beneath(token, s) \in Seq(Operations) /\ Len(Beneath(token, s)) = Len(s)
               /\ \A i \in 1..Len(s) : Beneath(token, s)[i] = AtPart(token, s[i])
    <2>1. DOMAIN s = 1..Len(s) /\ Len(s) \in Nat /\ \A i \in 1..Len(s) : s[i] \in Operations
      OBVIOUS
    <2>2. Beneath(token, s) = [i \in 1..Len(s) |-> AtPart(token, s[i])]
      BY <1>1, <2>1, Zenon
    <2>3. \A i \in 1..Len(s) : AtPart(token, s[i]) \in Operations
      BY <1>2, <2>1
    <2> QED
      BY <2>1, <2>2, <2>3
  <1>4. Beneath(token, partOps) \in Seq(Operations) /\ Len(Beneath(token, partOps)) = Len(partOps)
    BY <1>3
  <1>5. Beneath(token, partOps) = <<>> <=> partOps = <<>>
    BY <1>4
  <1>6. ASSUME partOps # <<>>
        PROVE  /\ Head(Beneath(token, partOps)) = AtPart(token, Head(partOps))
               /\ Tail(Beneath(token, partOps)) = Beneath(token, Tail(partOps))
    <2> DEFINE s == Beneath(token, partOps)
               t == Beneath(token, Tail(partOps))
    <2>1. /\ Tail(partOps) \in Seq(Operations) /\ Len(Tail(partOps)) + 1 = Len(partOps)
          /\ Len(Tail(partOps)) \in Nat
          /\ Head(partOps) = partOps[1] /\ 1 \in 1..Len(partOps)
          /\ \A i \in 1..Len(Tail(partOps)) : /\ Tail(partOps)[i] = partOps[i + 1]
                                              /\ i + 1 \in 1..Len(partOps)
      BY <1>6
    <2>2. s \in Seq(Operations) /\ Len(s) = Len(partOps) /\ s # <<>>
          /\ \A i \in 1..Len(partOps) : s[i] = AtPart(token, partOps[i])
      BY <1>3, <1>5, <1>6
    <2>3. t \in Seq(Operations) /\ Len(t) = Len(Tail(partOps))
          /\ \A i \in 1..Len(Tail(partOps)) : t[i] = AtPart(token, Tail(partOps)[i])
      BY <1>3, <2>1
    <2> HIDE DEF s, t
    <2>4. Head(s) = s[1] /\ Tail(s) \in Seq(Operations) /\ Len(Tail(s)) + 1 = Len(s)
          /\ \A i \in 1..Len(Tail(s)) : Tail(s)[i] = s[i + 1]
      BY <2>2
    <2>5. Head(s) = AtPart(token, Head(partOps))
      BY <2>1, <2>2, <2>4
    <2>6. Len(Tail(s)) = Len(Tail(partOps)) /\ Len(Tail(s)) = Len(t)
      BY <2>1, <2>2, <2>3, <2>4
    <2>7. \A i \in 1..Len(Tail(s)) : Tail(s)[i] = t[i]
      BY <2>1, <2>2, <2>3, <2>4, <2>6
    <2>8. Tail(s) = t
      BY <2>3, <2>4, <2>6, <2>7, SameSequence
    <2> QED
      BY <2>5, <2>8 DEF s, t
  <1> QED
    BY <1>4, <1>5, <1>6

LEMMA DiffableWithin ==
  ASSUME NEW n \in 0..MaxDepth
  PROVE  Diffable[n] \subseteq Diffable[MaxDepth]
  <1> DEFINE T == {m \in Nat : n + m <= MaxDepth => Diffable[n] \subseteq Diffable[n + m]}
  <1>1. 0 \in T
    <2>1. n + 0 = n
      BY DepthAssumption
    <2> QED
      BY <2>1
  <1>2. ASSUME NEW m \in Nat, m \in T PROVE m + 1 \in T
    <2>1. CASE n + (m + 1) <= MaxDepth
      <3>1. n + m \in 0..MaxDepth /\ (n + m) + 1 \in 0..MaxDepth /\ n + (m + 1) = (n + m) + 1
        BY <2>1, DepthAssumption
      <3>2. Diffable[n + m] \subseteq Diffable[(n + m) + 1]
        BY <3>1, DiffableGrows
      <3>3. Diffable[n] \subseteq Diffable[n + m]
        BY <1>2, <3>1
      <3> QED
        BY <3>1, <3>2, <3>3
    <2> QED
      BY <2>1
  <1> HIDE DEF T
  <1>3. \A m \in Nat : m \in T
    BY <1>1, <1>2, Induction
  <1>4. MaxDepth - n \in Nat /\ n + (MaxDepth - n) = MaxDepth /\ n + (MaxDepth - n) <= MaxDepth
    BY DepthAssumption
  <1> QED
    BY <1>3, <1>4 DEF T

\* The fields and the items of values that are diffed.
DiffFields(values) ==
  {fields \in Seq(FieldsOf(STRING, values)) :
     Distinct(fields) /\ KeysOf(fields) \subseteq Range(SortedKeys)}
DiffItems(values) == {items \in Seq(values) : Len(items) <= MaxIndex + 1}

LEMMA SortedKeysAre ==
  /\ SortedKeys \in Seq(STRING) /\ Range(SortedKeys) = {SortedKeys[i] : i \in DOMAIN SortedKeys}
  /\ Range(SortedKeys) \subseteq DOMAIN Spelling
  BY TokensAssumption DEF Range

LEMMA DiffFieldsAre ==
  ASSUME NEW n \in 0..MaxDepth, NEW fields \in DiffFields(Diffable[n])
  PROVE  /\ fields \in Seq(FieldsOf(STRING, Diffable[n])) /\ Distinct(fields)
         /\ KeysOf(fields) \subseteq Range(SortedKeys)
         /\ \A i \in DOMAIN fields :
              /\ fields[i].value \in Diffable[n] /\ fields[i].key \in KeysOf(fields)
              /\ fields[i].key \in DOMAIN Spelling /\ fields[i].key \in STRING
              /\ GetField(fields, fields[i].key) = fields[i].value
         /\ \A k \in KeysOf(fields) :
              /\ GetField(fields, k) \in Diffable[n]
              /\ \E i \in DOMAIN fields : fields[i].key = k /\ fields[i].value = GetField(fields, k)
         /\ \A k : HasField(fields, k) <=> k \in KeysOf(fields)
  <1>1. /\ fields \in Seq(FieldsOf(STRING, Diffable[n])) /\ Distinct(fields)
        /\ KeysOf(fields) \subseteq Range(SortedKeys)
    BY DEF DiffFields
  <1>2. /\ \A i \in DOMAIN fields : fields[i].value \in Diffable[n] /\ fields[i].key \in STRING
        /\ \A k : HasField(fields, k) <=> k \in KeysOf(fields)
    BY <1>1, NeatFields
  <1>3. \A i \in DOMAIN fields : fields[i].key \in KeysOf(fields)
    BY DEF KeysOf
  <1>4. \A i \in DOMAIN fields : fields[i].key \in DOMAIN Spelling
    BY <1>1, <1>3, SortedKeysAre
  <1>5. \A i \in DOMAIN fields : GetField(fields, fields[i].key) = fields[i].value
    BY <1>1, GetFieldOf
  <1>6. \A k \in KeysOf(fields) :
              /\ GetField(fields, k) \in Diffable[n]
              /\ \E i \in DOMAIN fields : fields[i].key = k /\ fields[i].value = GetField(fields, k)
    BY <1>1, PartsOfFields
  <1> QED
    BY <1>1, <1>2, <1>3, <1>4, <1>5, <1>6

LEMMA ObjectSide ==
  ASSUME NEW n \in 0..MaxDepth, NEW a \in Sides(n), a.kind = "object"
  PROVE  /\ n # 0 /\ n - 1 \in 0..MaxDepth /\ (n - 1) + 1 = n /\ a \in Diffable[n]
         /\ a = Object(a.fields) /\ a.fields \in DiffFields(Diffable[n - 1])
  <1>1. a \in Diffable[n]
    BY SideKinds DEF IsContainer
  <1>2. n # 0 /\ n - 1 \in 0..MaxDepth /\ a \in DiffObjects(Diffable[n - 1])
    BY <1>1, DiffableShape
  <1> QED
    BY <1>1, <1>2, DiffObjectIs, DepthAssumption DEF DiffFields

LEMMA ArraySide ==
  ASSUME NEW n \in 0..MaxDepth, NEW a \in Sides(n), a.kind = "array"
  PROVE  /\ n # 0 /\ n - 1 \in 0..MaxDepth /\ (n - 1) + 1 = n /\ a \in Diffable[n]
         /\ a = Array(a.items) /\ a.items \in DiffItems(Diffable[n - 1])
  <1>1. a \in Diffable[n]
    BY SideKinds DEF IsContainer
  <1>2. n # 0 /\ n - 1 \in 0..MaxDepth /\ a \in DiffArrays(Diffable[n - 1])
    BY <1>1, DiffableShape
  <1> QED
    BY <1>1, <1>2, DiffArrayIs, DepthAssumption DEF DiffItems

LEMMA SideFromFields ==
  ASSUME NEW n \in 0..MaxDepth, n + 1 \in 0..MaxDepth, NEW fields \in DiffFields(Diffable[n])
  PROVE  Object(fields) \in Diffable[n + 1]
  <1>1. Object(fields) \in DiffObjects(Diffable[n])
    BY ObjectInDiffable DEF DiffFields
  <1>2. n + 1 # 0 /\ (n + 1) - 1 = n
    BY DepthAssumption
  <1> QED
    BY <1>1, <1>2, DiffableLevels

LEMMA SideFromItems ==
  ASSUME NEW n \in 0..MaxDepth, n + 1 \in 0..MaxDepth, NEW items \in DiffItems(Diffable[n])
  PROVE  Array(items) \in Diffable[n + 1]
  <1>1. Array(items) \in DiffArrays(Diffable[n])
    BY ArrayInDiffable DEF DiffItems
  <1>2. n + 1 # 0 /\ (n + 1) - 1 = n
    BY DepthAssumption
  <1> QED
    BY <1>1, <1>2, DiffableLevels

\* The keys that are gone, in order.
LEMMA GoneIs ==
  ASSUME NEW n \in 0..MaxDepth, NEW left \in DiffFields(Diffable[n]),
         NEW right \in DiffFields(Diffable[n])
  PROVE  LET places == {i \in DOMAIN SortedKeys :
                          SortedKeys[i] \in KeysOf(left) \ KeysOf(right)}
         IN  /\ Gone(left, right) = Those(SortedKeys, places)
             /\ Gone(left, right) \in Seq(STRING)
             /\ Range(Gone(left, right)) = KeysOf(left) \ KeysOf(right)
             /\ \A i \in DOMAIN Gone(left, right) :
                  Gone(left, right)[i] \in KeysOf(left) \ KeysOf(right)
  <1> DEFINE places == {i \in DOMAIN SortedKeys : SortedKeys[i] \in KeysOf(left) \ KeysOf(right)}
             gone == Gone(left, right)
  <1>1. /\ \A k : HasField(left, k) <=> k \in KeysOf(left)
        /\ \A k : HasField(right, k) <=> k \in KeysOf(right)
        /\ KeysOf(left) \subseteq Range(SortedKeys)
    BY DiffFieldsAre
  <1>2. {i \in DOMAIN SortedKeys : HasField(left, SortedKeys[i]) /\ ~HasField(right, SortedKeys[i])}
          = places
    BY <1>1
  <1>3. gone = Those(SortedKeys, places)
    BY <1>2, Zenon DEF Gone
  <1>4. SortedKeys \in Seq(STRING) /\ places \subseteq DOMAIN SortedKeys
    BY SortedKeysAre
  <1> DEFINE t == Those(SortedKeys, places)
  <1>5. PICK at \in [DOMAIN t -> places] :
          /\ t \in Seq(STRING)
          /\ \A k \in DOMAIN t : t[k] = SortedKeys[at[k]]
          /\ \A i \in places : \E k \in DOMAIN t : at[k] = i
    <2> HIDE DEF places
    <2> QED
      BY <1>4, ThoseIs
  <1>6. \A i \in places : SortedKeys[i] \in KeysOf(left) \ KeysOf(right)
    OBVIOUS
  <1>7. \A k \in KeysOf(left) \ KeysOf(right) : \E i \in places : SortedKeys[i] = k
    BY <1>1, SortedKeysAre
  <1> HIDE DEF places, t
  <1>8. \A k \in DOMAIN t : t[k] \in KeysOf(left) \ KeysOf(right)
    BY <1>5, <1>6
  <1>9. \A key \in KeysOf(left) \ KeysOf(right) : \E k \in DOMAIN t : t[k] = key
    BY <1>5, <1>7
  <1>10. Range(t) = KeysOf(left) \ KeysOf(right)
    <2>1. Range(t) = {t[k] : k \in DOMAIN t}
      BY DEF Range
    <2> QED
      BY <1>8, <1>9, <2>1
  <1> QED
    BY <1>3, <1>5, <1>8, <1>10 DEF t, places

LEMMA PointerAlone ==
  ASSUME NEW t \in DOMAIN Spelling
  PROVE  /\ Pointer(t) \in Pointers /\ <<>> \in Pointers
         /\ ParseJSONPointer(Pointer(t)) = <<t>> /\ ParseJSONPointer(<<>>) = <<>>
  <1>1. <<>> \in Pointers
    BY DEF Pointers, IsPointer
  <1>2. ParseJSONPointer(<<>>) = <<>>
    BY DEF ParseJSONPointer
  <1>3. Pointer(t) \o <<>> \in Pointers /\ ParseJSONPointer(Pointer(t) \o <<>>) = <<t>> \o <<>>
    BY <1>1, <1>2, PointerBefore
  <1>4. Pointer(t) \in Seq(Chars)
    BY PointerIs, ThenIs, Characters
  <1>5. Pointer(t) \o <<>> = Pointer(t) /\ <<t>> \o <<>> = <<t>>
    BY <1>4
  <1> QED
    BY <1>1, <1>2, <1>3, <1>5

LEMMA ItemIs ==
  ASSUME NEW i \in 1..MaxIndex + 1
  PROVE  /\ Item(i) \in DOMAIN Spelling /\ Item(i) # "-"
         /\ \A j \in 1..MaxIndex + 1 : Item(i) = Item(j) => i = j
  BY TokensAssumption

TypedBelow(n) == \A v, w \in Diffable[n] : diffOps(v, w) \in Seq(Operations)

LEMMA FieldOpsTyped ==
  ASSUME NEW n \in 0..MaxDepth, NEW left \in DiffFields(Diffable[n]),
         NEW right \in DiffFields(Diffable[n]), TypedBelow(n)
  PROVE  /\ FieldOps(left, right) \in Seq(Seq(Operations))
         /\ Len(FieldOps(left, right)) = Len(right)
         /\ Removals(left, right) \in Seq(Operations)
         /\ Len(Removals(left, right)) = Len(Gone(left, right))
  <1>1. Diffable[n] \subseteq Diffable[MaxDepth]
    BY DiffableWithin
  <1> DEFINE Ops(i) == IF right[i].key \in KeysOf(left)
                         THEN Beneath(right[i].key, diffOps(GetField(left, right[i].key), right[i].value))
                         ELSE <<Add(joinPointer(<<>>, right[i].key), right[i].value)>>
  <1>2. ASSUME NEW i \in DOMAIN right PROVE Ops(i) \in Seq(Operations)
    <2>1. right[i].value \in Diffable[n] /\ right[i].key \in DOMAIN Spelling
      BY DiffFieldsAre
    <2>2. CASE right[i].key \in KeysOf(left)
      <3>1. GetField(left, right[i].key) \in Diffable[n]
        BY <2>2, DiffFieldsAre
      <3>2. diffOps(GetField(left, right[i].key), right[i].value) \in Seq(Operations)
        BY <2>1, <3>1, Zenon DEF TypedBelow
      <3>3. Beneath(right[i].key, diffOps(GetField(left, right[i].key), right[i].value)) \in Seq(Operations)
        BY <2>1, <3>2, BeneathIs
      <3> QED
        BY <2>2, <3>3, Zenon
    <2>3. CASE right[i].key \notin KeysOf(left)
      <3> DEFINE op == Add(joinPointer(<<>>, right[i].key), right[i].value)
      <3>1. joinPointer(<<>>, right[i].key) \in Pointers
        BY <2>1, PointerAlone, Zenon DEF Pointer
      <3>2. op \in Operations
        BY <1>1, <2>1, <3>1, OperationsAre
      <3> HIDE DEF op
      <3>3. <<op>> \in Seq(Operations)
        BY <3>2
      <3> QED
        BY <2>3, <3>3, Zenon DEF op
    <2> QED
      BY <2>2, <2>3
  <1>3. FieldOps(left, right) = [i \in DOMAIN right |-> Ops(i)]
    BY Zenon DEF FieldOps
  <1>4. DOMAIN right = 1..Len(right) /\ Len(right) \in Nat
    BY DiffFieldsAre
  <1> HIDE DEF Ops
  <1>5. FieldOps(left, right) \in Seq(Seq(Operations)) /\ Len(FieldOps(left, right)) = Len(right)
    BY <1>2, <1>3, <1>4
  <1> DEFINE gone == Gone(left, right)
             Op(i) == Delete(joinPointer(<<>>, gone[i]))
  <1>6. gone \in Seq(STRING) /\ \A i \in DOMAIN gone : gone[i] \in KeysOf(left)
    BY GoneIs
  <1>7. Removals(left, right) = [i \in DOMAIN gone |-> Op(i)]
    BY Zenon DEF Removals
  <1> HIDE DEF gone
  <1>8. ASSUME NEW i \in DOMAIN gone PROVE Op(i) \in Operations
    <2>1. gone[i] \in DOMAIN Spelling
      BY <1>6, DiffFieldsAre, SortedKeysAre
    <2>2. joinPointer(<<>>, gone[i]) \in Pointers
      BY <2>1, PointerAlone, Zenon DEF Pointer
    <2> QED
      BY <2>2, OperationsAre
  <1> HIDE DEF Op
  <1>9. DOMAIN gone = 1..Len(gone) /\ Len(gone) \in Nat
    <2> DEFINE E == STRING
    <2>1. gone \in Seq(E)
      BY <1>6
    <2> HIDE DEF E
    <2> QED
      BY <2>1
  <1>10. Removals(left, right) \in Seq(Operations) /\ Len(Removals(left, right)) = Len(gone)
    BY <1>7, <1>8, <1>9
  <1> QED
    BY <1>5, <1>10 DEF gone

LEMMA SharedIs ==
  ASSUME NEW V, NEW left \in DiffItems(V), NEW right \in DiffItems(V)
  PROVE  /\ left \in Seq(V) /\ right \in Seq(V)
         /\ Shared(left, right) \in Nat /\ Len(left) \in Nat /\ Len(right) \in Nat
         /\ Len(left) <= MaxIndex + 1 /\ Len(right) <= MaxIndex + 1
         /\ Shared(left, right) <= Len(left) /\ Shared(left, right) <= Len(right)
         /\ Shared(left, right) = Len(left) \/ Shared(left, right) = Len(right)
         /\ \A i \in 1..Shared(left, right) : left[i] \in V /\ right[i] \in V
  BY DEF DiffItems, Shared

LEMMA ItemOpsTyped ==
  ASSUME NEW n \in 0..MaxDepth, NEW left \in DiffItems(Diffable[n]),
         NEW right \in DiffItems(Diffable[n]), TypedBelow(n)
  PROVE  /\ ItemOps(left, right) \in Seq(Seq(Operations))
         /\ Len(ItemOps(left, right)) = Shared(left, right)
         /\ Drops(left, right) \in Seq(Operations)
         /\ Len(Drops(left, right)) = Len(left) - Shared(left, right)
         /\ Extras(left, right) \in Seq(Operations)
         /\ Len(Extras(left, right)) = Len(right) - Shared(left, right)
  <1>1. Diffable[n] \subseteq Diffable[MaxDepth]
    BY DiffableWithin
  <1> DEFINE shared == Shared(left, right)
             l == Len(left)
             r == Len(right)
  <1>2. /\ left \in Seq(Diffable[n]) /\ right \in Seq(Diffable[n])
        /\ shared \in Nat /\ l \in Nat /\ r \in Nat /\ MaxIndex \in Nat
        /\ l <= MaxIndex + 1 /\ r <= MaxIndex + 1 /\ shared <= l /\ shared <= r
        /\ \A i \in 1..shared : left[i] \in Diffable[n] /\ right[i] \in Diffable[n]
    BY SharedIs, TokensAssumption
  <1>3. \A i \in 1..r : right[i] \in Diffable[n]
    BY <1>2
  <1> HIDE DEF shared, l, r
  <1>4. ASSUME NEW i \in 1..MaxIndex + 1
        PROVE  Item(i) \in DOMAIN Spelling /\ joinPointer(<<>>, Item(i)) \in Pointers
    BY ItemIs, PointerAlone, Zenon DEF Pointer
  <1>5. ItemOps(left, right) \in Seq(Seq(Operations)) /\ Len(ItemOps(left, right)) = shared
    <2> DEFINE Ops(i) == Beneath(Item(i), diffOps(left[i], right[i]))
    <2>1. ASSUME NEW i \in 1..shared PROVE Ops(i) \in Seq(Operations)
      <3>1. i \in 1..MaxIndex + 1
        BY <1>2
      <3>2. diffOps(left[i], right[i]) \in Seq(Operations)
        BY <1>2, Zenon DEF TypedBelow
      <3> QED
        BY <1>4, <3>1, <3>2, BeneathIs
    <2>2. ItemOps(left, right) = [i \in 1..shared |-> Ops(i)]
      BY Zenon DEF ItemOps, shared
    <2> HIDE DEF Ops
    <2> QED
      BY <1>2, <2>1, <2>2
  <1>6. Drops(left, right) \in Seq(Operations) /\ Len(Drops(left, right)) = l - shared
    <2> DEFINE Op(i) == Delete(joinPointer(<<>>, Item(l + 1 - i)))
    <2>1. ASSUME NEW i \in 1..l - shared PROVE Op(i) \in Operations
      <3>1. l + 1 - i \in 1..MaxIndex + 1
        BY <1>2
      <3>2. joinPointer(<<>>, Item(l + 1 - i)) \in Pointers
        BY <1>4, <3>1
      <3> QED
        BY <3>2, OperationsAre
    <2>2. Drops(left, right) = [i \in 1..l - shared |-> Op(i)]
      BY Zenon DEF Drops, shared, l
    <2>3. l - shared \in Nat
      BY <1>2
    <2> HIDE DEF Op
    <2> QED
      BY <2>1, <2>2, <2>3
  <1>7. Extras(left, right) \in Seq(Operations) /\ Len(Extras(left, right)) = r - shared
    <2> DEFINE Op(i) == Add(joinPointer(<<>>, Item(shared + i)), right[shared + i])
    <2>1. ASSUME NEW i \in 1..r - shared PROVE Op(i) \in Operations
      <3>1. shared + i \in 1..MaxIndex + 1 /\ shared + i \in 1..r
        BY <1>2
      <3>2. joinPointer(<<>>, Item(shared + i)) \in Pointers
        BY <1>4, <3>1
      <3>3. right[shared + i] \in Diffable[MaxDepth]
        BY <1>1, <1>3, <3>1
      <3> QED
        BY <3>2, <3>3, OperationsAre
    <2>2. Extras(left, right) = [i \in 1..r - shared |-> Op(i)]
      BY Zenon DEF Extras, shared, r
    <2>3. r - shared \in Nat
      BY <1>2
    <2> HIDE DEF Op
    <2> QED
      BY <2>1, <2>2, <2>3
  <1> QED
    BY <1>5, <1>6, <1>7 DEF shared, l, r

LEMMA VoidSide ==
  ASSUME NEW n \in 0..MaxDepth, NEW a \in Sides(n)
  PROVE  IsVoid(a) <=> a = Void
  <1>1. \A v \in Diffable[n] : ~IsVoid(v)
    BY DiffableShape
  <1>2. IsVoid(Void)
    BY DEF IsVoid, Void, Scalar
  <1>3. a \in Diffable[n] \/ a = Void
    BY DEF Sides
  <1>4. CASE a \in Diffable[n]
    <2>1. ~IsVoid(a)
      BY <1>1, <1>4
    <2>2. a # Void
      BY <1>2, <2>1, Zenon
    <2> QED
      BY <2>1, <2>2
  <1>5. CASE a = Void
    BY <1>2, <1>5, Zenon
  <1> QED
    BY <1>3, <1>4, <1>5

SidesTyped(n) == \A a, b \in Sides(n) : diffOps(a, b) \in Seq(Operations)

LEMMA OpsTypedStep ==
  ASSUME NEW n \in 0..MaxDepth, n # 0 => SidesTyped(n - 1), NEW a \in Sides(n), NEW b \in Sides(n)
  PROVE  diffOps(a, b) \in Seq(Operations)
  <1>1. n # 0 => TypedBelow(n - 1)
    <2> SUFFICES ASSUME n # 0, NEW v \in Diffable[n - 1], NEW w \in Diffable[n - 1]
                 PROVE  diffOps(v, w) \in Seq(Operations)
      BY Zenon DEF TypedBelow
    <2>1. v \in Sides(n - 1) /\ w \in Sides(n - 1)
      BY DEF Sides
    <2> QED
      BY <2>1, Zenon DEF SidesTyped
  <1>2. Diffable[n] \subseteq Diffable[MaxDepth]
    BY DiffableWithin
  <1>3. <<>> \in Pointers
    BY DEF Pointers, IsPointer
  <1>4. ASSUME ~IsVoid(b) PROVE b \in Diffable[MaxDepth]
    <2>1. b # Void
      BY <1>4, VoidSide
    <2> QED
      BY <1>2, <2>1 DEF Sides
  <1>5. CASE valuesEqual(a, b)
    <2>1. diffOps(a, b) = <<>>
      BY <1>5, DiffOfOthers
    <2> QED
      BY <2>1
  <1>6. CASE ~valuesEqual(a, b) /\ IsVoid(a)
    <2>1. ~IsVoid(b)
      <3>1. SUFFICES ASSUME IsVoid(b) PROVE FALSE
        OBVIOUS
      <3>2. a = b
        BY <1>6, <3>1, VoidSide
      <3> QED
        BY <1>6, <3>2, EqualItself
    <2>2. Add(<<>>, b) \in Operations
      BY <1>3, <1>4, <2>1, OperationsAre
    <2>3. diffOps(a, b) = <<Add(<<>>, b)>>
      BY <1>6, DiffOfOthers
    <2> DEFINE op == Add(<<>>, b)
    <2> HIDE DEF op
    <2>4. <<op>> \in Seq(Operations)
      BY <2>2 DEF op
    <2> QED
      BY <2>3, <2>4 DEF op
  <1>7. CASE ~valuesEqual(a, b) /\ ~IsVoid(a) /\ IsVoid(b)
    <2>1. Delete(<<>>) \in Operations
      BY <1>3, OperationsAre
    <2>2. diffOps(a, b) = <<Delete(<<>>)>>
      BY <1>7, DiffOfOthers
    <2> DEFINE op == Delete(<<>>)
    <2> HIDE DEF op
    <2>3. <<op>> \in Seq(Operations)
      BY <2>1 DEF op
    <2> QED
      BY <2>2, <2>3 DEF op
  <1>8. CASE ~valuesEqual(a, b) /\ ~IsVoid(a) /\ ~IsVoid(b) /\ (a.kind # b.kind \/ ~IsContainer(a))
    <2>1. Replace(<<>>, b) \in Operations
      BY <1>3, <1>4, <1>8, OperationsAre
    <2>2. diffOps(a, b) = <<Replace(<<>>, b)>>
      BY <1>8, DiffOfOthers
    <2> DEFINE op == Replace(<<>>, b)
    <2> HIDE DEF op
    <2>3. <<op>> \in Seq(Operations)
      BY <2>1 DEF op
    <2> QED
      BY <2>2, <2>3 DEF op
  <1>9. CASE ~valuesEqual(a, b) /\ a.kind = "object" /\ b.kind = "object"
    <2>1. /\ n # 0 /\ n - 1 \in 0..MaxDepth /\ a \in Diffable[n] /\ b \in Diffable[n]
          /\ a.fields \in DiffFields(Diffable[n - 1]) /\ b.fields \in DiffFields(Diffable[n - 1])
      BY <1>9, ObjectSide
    <2>2. diffOps(a, b) = ObjectOps(a.fields, b.fields)
      BY <1>9, <2>1, DiffOfObjects
    <2>3. /\ FieldOps(a.fields, b.fields) \in Seq(Seq(Operations))
          /\ Removals(a.fields, b.fields) \in Seq(Operations)
      BY <1>1, <2>1, FieldOpsTyped
    <2>4. FlattenSeq(FieldOps(a.fields, b.fields)) \in Seq(Operations)
      BY <2>3, FlatEmpty
    <2>5. FlattenSeq(FieldOps(a.fields, b.fields)) \o Removals(a.fields, b.fields) \in Seq(Operations)
      BY <2>3, <2>4, HeadOfTwo
    <2> QED
      BY <2>2, <2>5 DEF ObjectOps
  <1>10. CASE ~valuesEqual(a, b) /\ a.kind = "array" /\ b.kind = "array"
    <2>1. /\ n # 0 /\ n - 1 \in 0..MaxDepth /\ a \in Diffable[n] /\ b \in Diffable[n]
          /\ a.items \in DiffItems(Diffable[n - 1]) /\ b.items \in DiffItems(Diffable[n - 1])
      BY <1>10, ArraySide
    <2>2. diffOps(a, b) = ArrayOps(a.items, b.items)
      BY <1>10, <2>1, DiffOfArrays
    <2>3. /\ ItemOps(a.items, b.items) \in Seq(Seq(Operations))
          /\ Drops(a.items, b.items) \in Seq(Operations)
          /\ Extras(a.items, b.items) \in Seq(Operations)
      BY <1>1, <2>1, ItemOpsTyped
    <2>4. FlattenSeq(ItemOps(a.items, b.items)) \in Seq(Operations)
      BY <2>3, FlatEmpty
    <2>5. FlattenSeq(ItemOps(a.items, b.items)) \o Drops(a.items, b.items) \in Seq(Operations)
      BY <2>3, <2>4, HeadOfTwo
    <2>6. FlattenSeq(ItemOps(a.items, b.items)) \o Drops(a.items, b.items) \o Extras(a.items, b.items)
             \in Seq(Operations)
      BY <2>3, <2>5, HeadOfTwo
    <2> QED
      BY <2>2, <2>6 DEF ArrayOps
  <1> QED
    BY <1>5, <1>6, <1>7, <1>8, <1>9, <1>10 DEF IsContainer

\* A diff is a sequence of operations on values.
LEMMA OpsTyped ==
  ASSUME NEW n \in 0..MaxDepth
  PROVE  SidesTyped(n)
  <1> DEFINE T == {m \in Nat : m <= MaxDepth => SidesTyped(m)}
  <1>1. 0 \in T
    <2>1. 0 \in 0..MaxDepth
      BY DepthAssumption
    <2>2. \A a, b \in Sides(0) : diffOps(a, b) \in Seq(Operations)
      BY <2>1, OpsTypedStep
    <2> QED
      BY <2>2 DEF SidesTyped
  <1>2. ASSUME NEW m \in Nat, m \in T PROVE m + 1 \in T
    <2>1. CASE m + 1 <= MaxDepth
      <3>1. m + 1 \in 0..MaxDepth /\ (m + 1) - 1 = m /\ m <= MaxDepth
        BY <2>1, DepthAssumption
      <3>2. SidesTyped((m + 1) - 1)
        BY <1>2, <3>1
      <3>3. \A a, b \in Sides(m + 1) : diffOps(a, b) \in Seq(Operations)
        BY <3>1, <3>2, OpsTypedStep
      <3>4. SidesTyped(m + 1)
        BY <3>3, Zenon DEF SidesTyped
      <3> QED
        BY <3>4
    <2> QED
      BY <2>1
  <1> HIDE DEF T
  <1>3. \A m \in Nat : m \in T
    BY <1>1, <1>2, Induction
  <1> QED
    BY <1>3, DepthAssumption DEF T

LEMMA BelowTyped ==
  ASSUME NEW n \in 0..MaxDepth
  PROVE  TypedBelow(n)
  <1>1. \A v \in Diffable[n] : v \in Sides(n)
    BY DEF Sides
  <1> QED
    BY <1>1, OpsTyped, Zenon DEF TypedBelow, SidesTyped

EmptyBelow(n) == \A v, w \in Diffable[n] : diffOps(v, w) = <<>> => valuesEqual(v, w)

LEMMA FieldsDiffer ==
  ASSUME NEW n \in 0..MaxDepth, EmptyBelow(n),
         NEW left \in DiffFields(Diffable[n]), NEW right \in DiffFields(Diffable[n]),
         ObjectOps(left, right) = <<>>
  PROVE  /\ KeysOf(left) = KeysOf(right)
         /\ \A k \in KeysOf(left) : valuesEqual(GetField(left, k), GetField(right, k))
  <1>1. TypedBelow(n)
    BY BelowTyped
  <1>2. /\ FieldOps(left, right) \in Seq(Seq(Operations))
        /\ Removals(left, right) \in Seq(Operations)
        /\ Len(Removals(left, right)) = Len(Gone(left, right))
    BY <1>1, FieldOpsTyped
  <1>3. /\ FlattenSeq(FieldOps(left, right)) \in Seq(Operations)
        /\ FlattenSeq(FieldOps(left, right)) = <<>> <=>
             \A i \in DOMAIN FieldOps(left, right) : FieldOps(left, right)[i] = <<>>
    BY <1>2, FlatEmpty
  <1>4. FlattenSeq(FieldOps(left, right)) = <<>> /\ Removals(left, right) = <<>>
    BY <1>2, <1>3, HeadOfTwo, Zenon DEF ObjectOps
  <1>5. DOMAIN FieldOps(left, right) = DOMAIN right
    BY Zenon DEF FieldOps
  <1>6. ASSUME NEW i \in DOMAIN right
        PROVE  /\ right[i].key \in KeysOf(left)
               /\ valuesEqual(GetField(left, right[i].key), right[i].value)
    <2> DEFINE key == right[i].key
               value == right[i].value
               old == GetField(left, key)
    <2>1. key \in DOMAIN Spelling /\ value \in Diffable[n]
      BY DiffFieldsAre
    <2>2. FieldOps(left, right)[i] = <<>>
      BY <1>3, <1>4, <1>5
    <2>3. FieldOps(left, right)[i] = IF key \in KeysOf(left) THEN Beneath(key, diffOps(old, value))
                                     ELSE <<Add(joinPointer(<<>>, key), value)>>
      BY Zenon DEF FieldOps
    <2>4. key \in KeysOf(left)
      <3> SUFFICES ASSUME key \notin KeysOf(left) PROVE FALSE
        OBVIOUS
      <3> DEFINE op == Add(joinPointer(<<>>, key), value)
      <3>1. <<op>> = <<>>
        BY <2>2, <2>3
      <3> HIDE DEF op
      <3> QED
        BY <3>1
    <2>5. old \in Diffable[n]
      BY <2>4, DiffFieldsAre
    <2> HIDE DEF key, value, old
    <2>6. diffOps(old, value) \in Seq(Operations)
      BY <1>1, <2>1, <2>5, Zenon DEF TypedBelow
    <2>7. Beneath(key, diffOps(old, value)) = <<>>
      BY <2>2, <2>3, <2>4
    <2>8. diffOps(old, value) = <<>>
      BY <2>1, <2>6, <2>7, BeneathIs
    <2>9. valuesEqual(old, value)
      BY <2>1, <2>5, <2>8, Zenon DEF EmptyBelow
    <2> QED
      BY <2>4, <2>9, Zenon DEF key, value, old
  <1>7. KeysOf(right) \subseteq KeysOf(left)
    BY <1>6, DiffFieldsAre
  <1>8. KeysOf(left) \ KeysOf(right) = {}
    <2>1. /\ Gone(left, right) \in Seq(STRING)
          /\ Range(Gone(left, right)) = KeysOf(left) \ KeysOf(right)
      BY GoneIs
    <2> DEFINE E == STRING
               gone == Gone(left, right)
    <2>2. gone \in Seq(E) /\ Len(gone) = 0
      BY <1>2, <1>4, <2>1
    <2> HIDE DEF E, gone
    <2>3. DOMAIN gone = {}
      BY <2>2
    <2>4. Range(gone) = {}
      BY <2>3 DEF Range
    <2> QED
      BY <2>1, <2>4 DEF gone
  <1>9. ASSUME NEW k \in KeysOf(right) PROVE valuesEqual(GetField(left, k), GetField(right, k))
    <2>1. PICK i \in DOMAIN right : right[i].key = k /\ right[i].value = GetField(right, k)
      BY DiffFieldsAre
    <2> QED
      BY <1>6, <2>1, Zenon
  <1> QED
    BY <1>7, <1>8, <1>9

LEMMA ItemsDiffer ==
  ASSUME NEW n \in 0..MaxDepth, EmptyBelow(n),
         NEW left \in DiffItems(Diffable[n]), NEW right \in DiffItems(Diffable[n]),
         ArrayOps(left, right) = <<>>
  PROVE  /\ Len(left) = Len(right)
         /\ \A i \in DOMAIN left : valuesEqual(left[i], right[i])
  <1>1. TypedBelow(n)
    BY BelowTyped
  <1>2. /\ ItemOps(left, right) \in Seq(Seq(Operations))
        /\ Len(ItemOps(left, right)) = Shared(left, right)
        /\ Drops(left, right) \in Seq(Operations)
        /\ Len(Drops(left, right)) = Len(left) - Shared(left, right)
        /\ Extras(left, right) \in Seq(Operations)
        /\ Len(Extras(left, right)) = Len(right) - Shared(left, right)
    BY <1>1, ItemOpsTyped
  <1>3. /\ FlattenSeq(ItemOps(left, right)) \in Seq(Operations)
        /\ FlattenSeq(ItemOps(left, right)) = <<>> <=>
             \A i \in DOMAIN ItemOps(left, right) : ItemOps(left, right)[i] = <<>>
    BY <1>2, FlatEmpty
  <1>4. FlattenSeq(ItemOps(left, right)) \o Drops(left, right) \in Seq(Operations)
    BY <1>2, <1>3, HeadOfTwo
  <1>5. /\ FlattenSeq(ItemOps(left, right)) \o Drops(left, right) = <<>>
        /\ Extras(left, right) = <<>>
    <2> DEFINE s == FlattenSeq(ItemOps(left, right)) \o Drops(left, right)
               t == Extras(left, right)
    <2>1. s \in Seq(Operations) /\ t \in Seq(Operations) /\ s \o t = <<>>
      BY <1>2, <1>4, Zenon DEF ArrayOps
    <2> HIDE DEF s, t
    <2>2. s = <<>> /\ t = <<>>
      BY <2>1, HeadOfTwo
    <2> QED
      BY <2>2 DEF s, t
  <1>6. FlattenSeq(ItemOps(left, right)) = <<>> /\ Drops(left, right) = <<>>
    BY <1>2, <1>3, <1>5, HeadOfTwo, Zenon
  <1>7. /\ Len(Drops(left, right)) = 0 /\ Len(Extras(left, right)) = 0
    BY <1>5, <1>6
  <1>8. /\ left \in Seq(Diffable[n]) /\ right \in Seq(Diffable[n])
        /\ Len(left) \in Nat /\ Len(right) \in Nat /\ Shared(left, right) \in Nat
        /\ Len(left) <= MaxIndex + 1 /\ MaxIndex \in Nat
        /\ \A i \in 1..Shared(left, right) : left[i] \in Diffable[n] /\ right[i] \in Diffable[n]
    BY SharedIs, TokensAssumption
  <1>9. Len(left) = Len(right) /\ Shared(left, right) = Len(left)
    <2>1. Len(left) - Shared(left, right) = 0 /\ Len(right) - Shared(left, right) = 0
      BY <1>2, <1>7, Zenon
    <2>2. Len(left) \in Nat /\ Len(right) \in Nat /\ Shared(left, right) \in Nat
      BY <1>8, Zenon
    <2> QED
      BY <2>1, <2>2
  <1>10. DOMAIN left = 1..Len(left) /\ DOMAIN ItemOps(left, right) = 1..Shared(left, right)
    <2>1. DOMAIN left = 1..Len(left)
      BY <1>8
    <2>2. DOMAIN ItemOps(left, right) = 1..Shared(left, right)
      BY Zenon DEF ItemOps
    <2> QED
      BY <2>1, <2>2
  <1>11. ASSUME NEW i \in 1..Shared(left, right) PROVE valuesEqual(left[i], right[i])
    <2>1. ItemOps(left, right)[i] = <<>>
      BY <1>3, <1>6, <1>10
    <2>2. ItemOps(left, right)[i] = Beneath(Item(i), diffOps(left[i], right[i]))
      BY Zenon DEF ItemOps
    <2>3. i \in 1..MaxIndex + 1
      BY <1>8, <1>9
    <2>4. Item(i) \in DOMAIN Spelling
      BY <2>3, ItemIs
    <2>5. diffOps(left[i], right[i]) \in Seq(Operations)
      BY <1>1, <1>8, Zenon DEF TypedBelow
    <2>6. diffOps(left[i], right[i]) = <<>>
      BY <2>1, <2>2, <2>4, <2>5, BeneathIs
    <2> QED
      BY <1>8, <2>6, Zenon DEF EmptyBelow
  <1> QED
    BY <1>9, <1>10, <1>11

\* Only the diff of equal values is empty.
LEMMA EmptyStep ==
  ASSUME NEW n \in 0..MaxDepth, n # 0 => EmptyBelow(n - 1), NEW a \in Sides(n), NEW b \in Sides(n),
         diffOps(a, b) = <<>>
  PROVE  valuesEqual(a, b)
  <1> SUFFICES ASSUME ~valuesEqual(a, b) PROVE FALSE
    OBVIOUS
  <1>1. CASE IsVoid(a)
    <2> DEFINE op == Add(<<>>, b)
    <2>1. <<op>> = <<>>
      BY <1>1, DiffOfOthers
    <2> HIDE DEF op
    <2> QED
      BY <2>1
  <1>2. CASE ~IsVoid(a) /\ IsVoid(b)
    <2> DEFINE op == Delete(<<>>)
    <2>1. <<op>> = <<>>
      BY <1>2, DiffOfOthers
    <2> HIDE DEF op
    <2> QED
      BY <2>1
  <1>3. CASE ~IsVoid(a) /\ ~IsVoid(b) /\ (a.kind # b.kind \/ ~IsContainer(a))
    <2> DEFINE op == Replace(<<>>, b)
    <2>1. <<op>> = <<>>
      BY <1>3, DiffOfOthers
    <2> HIDE DEF op
    <2> QED
      BY <2>1
  <1>4. CASE a.kind = "object" /\ b.kind = "object"
    <2>1. /\ n # 0 /\ n - 1 \in 0..MaxDepth /\ a \in Diffable[n] /\ b \in Diffable[n]
          /\ a.fields \in DiffFields(Diffable[n - 1]) /\ b.fields \in DiffFields(Diffable[n - 1])
      BY <1>4, ObjectSide
    <2>2. ObjectOps(a.fields, b.fields) = <<>>
      BY <1>4, <2>1, DiffOfObjects
    <2>3. /\ KeysOf(a.fields) = KeysOf(b.fields)
          /\ \A k \in KeysOf(a.fields) : valuesEqual(GetField(a.fields, k), GetField(b.fields, k))
      BY <2>1, <2>2, FieldsDiffer
    <2> QED
      BY <1>4, <2>1, <2>3, EqualObjects
  <1>5. CASE a.kind = "array" /\ b.kind = "array"
    <2>1. /\ n # 0 /\ n - 1 \in 0..MaxDepth /\ a \in Diffable[n] /\ b \in Diffable[n]
          /\ a.items \in DiffItems(Diffable[n - 1]) /\ b.items \in DiffItems(Diffable[n - 1])
      BY <1>5, ArraySide
    <2>2. ArrayOps(a.items, b.items) = <<>>
      BY <1>5, <2>1, DiffOfArrays
    <2>3. /\ Len(a.items) = Len(b.items)
          /\ \A i \in DOMAIN a.items : valuesEqual(a.items[i], b.items[i])
      BY <2>1, <2>2, ItemsDiffer
    <2> QED
      BY <1>5, <2>1, <2>3, EqualArrays
  <1> QED
    BY <1>1, <1>2, <1>3, <1>4, <1>5 DEF IsContainer

LEMMA EmptyIff ==
  ASSUME NEW n \in 0..MaxDepth
  PROVE  \A a, b \in Sides(n) : diffOps(a, b) = <<>> <=> valuesEqual(a, b)
  <1> DEFINE Only(m) == \A a, b \in Sides(m) : diffOps(a, b) = <<>> => valuesEqual(a, b)
             T == {m \in Nat : m <= MaxDepth => Only(m)}
  <1>1. 0 \in T
    <2>1. 0 \in 0..MaxDepth
      BY DepthAssumption
    <2>2. Only(0)
      BY <2>1, EmptyStep
    <2> HIDE DEF Only
    <2> QED
      BY <2>2
  <1>2. ASSUME NEW m \in Nat, m \in T PROVE m + 1 \in T
    <2>1. CASE m + 1 <= MaxDepth
      <3>1. m + 1 \in 0..MaxDepth /\ (m + 1) - 1 = m /\ m <= MaxDepth
        BY <2>1, DepthAssumption
      <3>2. Only(m)
        <4> HIDE DEF Only
        <4> QED
          BY <1>2, <3>1
      <3>3. EmptyBelow(m)
        <4>1. \A v \in Diffable[m] : v \in Sides(m)
          BY DEF Sides
        <4> QED
          BY <3>2, <4>1, Zenon DEF EmptyBelow
      <3>4. EmptyBelow((m + 1) - 1)
        BY <3>1, <3>3
      <3>5. Only(m + 1)
        BY <3>1, <3>4, EmptyStep
      <3> HIDE DEF Only
      <3> QED
        BY <3>5
    <2> QED
      BY <2>1
  <1> HIDE DEF T
  <1>3. \A m \in Nat : m \in T
    BY <1>1, <1>2, Induction
  <1>4. Only(n)
    <2> HIDE DEF Only
    <2> QED
      BY <1>3, DepthAssumption DEF T
  <1>5. \A a, b \in Sides(n) : valuesEqual(a, b) => diffOps(a, b) = <<>>
    BY DiffOfOthers
  <1> QED
    BY <1>4, <1>5, Zenon

-----------------------------------------------------------------------------
(* Patches written and read back.                                          *)

LEMMA FieldsAsGiven ==
  ASSUME NEW K, NEW V, NEW fields \in Seq(FieldsOf(K, V)), Distinct(fields),
         \A i \in DOMAIN fields : ~IsVoid(fields[i].value)
  PROVE  /\ nonVoidObjectFields(fields) = fields
         /\ \A i \in DOMAIN fields : GetField(fields, fields[i].key) = fields[i].value
         /\ \A k : k \notin KeysOf(fields) => GetField(fields, k) = Void
  BY NonVoidSame, GetFieldOf

LEMMA AmongTwoFields ==
  ASSUME NEW K, NEW V, NEW fields \in Seq(FieldsOf(K, V)), DOMAIN fields = {1, 2},
         NEW k, NEW l, k # l, NEW a, NEW b,
         ~IsVoid(a), ~IsVoid(b),
         fields[1].key = k, fields[1].value = a,
         fields[2].key = l, fields[2].value = b
  PROVE  /\ nonVoidObjectFields(fields) = fields /\ Distinct(fields) /\ KeysOf(fields) = {k, l}
         /\ GetField(fields, k) = a /\ GetField(fields, l) = b
         /\ \A key : key \notin {k, l} => GetField(fields, key) = Void
  <1>2. Distinct(fields)
    BY DEF Distinct
  <1>3. KeysOf(fields) = {k, l}
    BY DEF KeysOf
  <1>4. \A i \in DOMAIN fields : ~IsVoid(fields[i].value)
    <2>1. ~IsVoid(fields[1].value) /\ ~IsVoid(fields[2].value)
      OBVIOUS
    <2> QED
      BY <2>1
  <1>5. /\ nonVoidObjectFields(fields) = fields
        /\ \A i \in DOMAIN fields : GetField(fields, fields[i].key) = fields[i].value
        /\ \A key : key \notin KeysOf(fields) => GetField(fields, key) = Void
    BY <1>2, <1>4, FieldsAsGiven, SMT
  <1>6. GetField(fields, k) = a /\ GetField(fields, l) = b
    BY <1>5
  <1> QED
    BY <1>2, <1>3, <1>5, <1>6

TwoAre(fields, k, a, l, b) == fields = <<Field(k, a), Field(l, b)>>

LEMMA TwoFields ==
  ASSUME NEW k, NEW l, k # l, NEW a, NEW b, ~IsVoid(a), ~IsVoid(b),
         NEW fields, TwoAre(fields, k, a, l, b)
  PROVE  /\ nonVoidObjectFields(fields) = fields /\ Distinct(fields) /\ KeysOf(fields) = {k, l}
         /\ GetField(fields, k) = a /\ GetField(fields, l) = b
         /\ \A key : key \notin {k, l} => GetField(fields, key) = Void
  <1> DEFINE K == {k, l}
             V == {a, b}
  <1>1. fields \in Seq(FieldsOf(K, V)) /\ DOMAIN fields = {1, 2}
    BY DEF FieldsOf, Field, TwoAre
  <1>2. /\ fields[1].key = k /\ fields[1].value = a
        /\ fields[2].key = l /\ fields[2].value = b
    BY DEF Field, TwoAre
  <1> HIDE DEF K, V
  <1> QED
    BY <1>1, <1>2, AmongTwoFields

LEMMA AmongThreeFields ==
  ASSUME NEW K, NEW V, NEW fields \in Seq(FieldsOf(K, V)), DOMAIN fields = {1, 2, 3},
         NEW k, NEW l, NEW m, k # l, k # m, l # m, NEW a, NEW b, NEW c,
         ~IsVoid(a), ~IsVoid(b), ~IsVoid(c),
         fields[1].key = k, fields[1].value = a,
         fields[2].key = l, fields[2].value = b,
         fields[3].key = m, fields[3].value = c
  PROVE  /\ nonVoidObjectFields(fields) = fields /\ Distinct(fields)
         /\ KeysOf(fields) = {k, l, m}
         /\ GetField(fields, k) = a /\ GetField(fields, l) = b /\ GetField(fields, m) = c
         /\ \A key : key \notin {k, l, m} => GetField(fields, key) = Void
  <1>2. Distinct(fields)
    BY DEF Distinct
  <1>3. KeysOf(fields) = {k, l, m}
    BY DEF KeysOf
  <1>4. \A i \in DOMAIN fields : ~IsVoid(fields[i].value)
    <2>1. ~IsVoid(fields[1].value) /\ ~IsVoid(fields[2].value) /\ ~IsVoid(fields[3].value)
      OBVIOUS
    <2> QED
      BY <2>1
  <1>5. /\ nonVoidObjectFields(fields) = fields
        /\ \A i \in DOMAIN fields : GetField(fields, fields[i].key) = fields[i].value
        /\ \A key : key \notin KeysOf(fields) => GetField(fields, key) = Void
    BY <1>2, <1>4, FieldsAsGiven, SMT
  <1>6. GetField(fields, k) = a /\ GetField(fields, l) = b /\ GetField(fields, m) = c
    BY <1>5
  <1> QED
    BY <1>2, <1>3, <1>5, <1>6

ThreeAre(fields, k, a, l, b, m, c) == fields = <<Field(k, a), Field(l, b), Field(m, c)>>

LEMMA ThreeFields ==
  ASSUME NEW k, NEW l, NEW m, k # l, k # m, l # m, NEW a, NEW b, NEW c, ~IsVoid(a), ~IsVoid(b), ~IsVoid(c),
         NEW fields, ThreeAre(fields, k, a, l, b, m, c)
  PROVE  /\ nonVoidObjectFields(fields) = fields /\ Distinct(fields)
         /\ KeysOf(fields) = {k, l, m}
         /\ GetField(fields, k) = a /\ GetField(fields, l) = b /\ GetField(fields, m) = c
         /\ \A key : key \notin {k, l, m} => GetField(fields, key) = Void
  <1> DEFINE K == {k, l, m}
             V == {a, b, c}
  <1>1. fields \in Seq(FieldsOf(K, V)) /\ DOMAIN fields = {1, 2, 3}
    BY DEF FieldsOf, Field, ThreeAre
  <1>2. /\ fields[1].key = k /\ fields[1].value = a
        /\ fields[2].key = l /\ fields[2].value = b
        /\ fields[3].key = m /\ fields[3].value = c
    BY DEF Field, ThreeAre
  <1> HIDE DEF K, V
  <1> QED
    BY <1>1, <1>2, AmongThreeFields

LEMMA AppendThird ==
  ASSUME NEW x, NEW y, NEW z
  PROVE  Append(<<x, y>>, z) = <<x, y, z>>
  <1> DEFINE E == {x, y, z}
             s == <<x, y>>
             t == <<x, y, z>>
  <1>1. /\ s \in Seq(E) /\ Len(s) = 2 /\ s[1] = x /\ s[2] = y
        /\ t \in Seq(E) /\ Len(t) = 3 /\ t[1] = x /\ t[2] = y /\ t[3] = z /\ z \in E
    OBVIOUS
  <1> HIDE DEF E, s, t
  <1>2. /\ Append(s, z) \in Seq(E) /\ Len(Append(s, z)) = Len(s) + 1
        /\ \A i \in 1..Len(s) : Append(s, z)[i] = s[i]
        /\ Append(s, z)[Len(s) + 1] = z
    <2>1. s \in Seq(E) /\ z \in E
      BY <1>1
    <2>2. Append(s, z) \in Seq(E)
      BY <2>1
    <2>3. Len(Append(s, z)) = Len(s) + 1
      BY <2>1
    <2>4. \A i \in 1..Len(s) : Append(s, z)[i] = s[i]
      BY <2>1
    <2>5. Append(s, z)[Len(s) + 1] = z
      BY <2>1
    <2> QED
      BY <2>2, <2>3, <2>4, <2>5
  <1>3. \A i \in 1..Len(t) : t[i] = Append(s, z)[i]
    <2>1. \A i \in 1..3 : i = 3 \/ i \in 1..2
      OBVIOUS
    <2>2. 1..2 = {1, 2} /\ 2 + 1 = 3
      OBVIOUS
    <2>3. Append(s, z)[3] = z /\ Append(s, z)[1] = x /\ Append(s, z)[2] = y
      BY <1>1, <1>2, <2>2
    <2> QED
      BY <1>1, <2>1, <2>2, <2>3
  <1>4. t = Append(s, z)
    <2>1. Len(t) = Len(Append(s, z))
      BY <1>1, <1>2
    <2> QED
      BY <1>1, <1>2, <1>3, <2>1, SameSequence
  <1> QED
    BY <1>4 DEF s, t

LEMMA StrIs ==
  ASSUME NEW text
  PROVE  Str(text).kind = "string" /\ Str(text).text = text /\ ~IsVoid(Str(text))
  BY DEF Str, Scalar, IsVoid

\* What was written is read back as it was.
LEMMA OperationWritten ==
  ASSUME NEW op \in Operations
  PROVE  IsPatchOp(toJSONValue(op)) /\ PatchOpOf(toJSONValue(op)) = op
  <1> DEFINE value == toJSONValue(op)
  <1>1. op.path \in Pointers /\ IsPointer(op.path)
    BY OperationIs DEF Pointers
  <1>2. CASE op.op = "remove"
    <2> DEFINE fields == <<Field("op", Str(op.op)), Field("path", Str(op.path))>>
               Get(k) == GetField(fields, k)
    <2>1. value = Object(fields)
      BY <1>2, Zenon DEF toJSONValue
    <2>2. value.fields = fields /\ value.kind = "object"
      BY <2>1 DEF Object
    <2>3. /\ nonVoidObjectFields(fields) = fields /\ Distinct(fields)
          /\ KeysOf(fields) = {"op", "path"}
          /\ Get("op") = Str(op.op) /\ Get("path") = Str(op.path)
          /\ \A key : key \notin {"op", "path"} => Get(key) = Void
      <3> DEFINE a == Str(op.op)
                 b == Str(op.path)
      <3>1. ~IsVoid(a) /\ ~IsVoid(b) /\ TwoAre(fields, "op", a, "path", b) /\ "op" # "path"
        BY StrIs DEF TwoAre
      <3> HIDE DEF a, b, fields
      <3>2. /\ nonVoidObjectFields(fields) = fields /\ Distinct(fields)
            /\ KeysOf(fields) = {"op", "path"}
            /\ GetField(fields, "op") = a /\ GetField(fields, "path") = b
            /\ \A key : key \notin {"op", "path"} => GetField(fields, key) = Void
        BY <3>1, TwoFields
      <3> QED
        BY <3>2 DEF a, b
    <2> HIDE DEF fields, value
    <2>4. Get("value") = Void /\ Get("from") = Void
      BY <2>3
    <2> HIDE DEF Get
    <2>5. IsVoid(Void)
      BY DEF IsVoid, Void, Scalar
    <2>6. ~HasField(fields, "value") /\ ~HasField(fields, "from")
      BY <2>4, <2>5, Zenon DEF HasField, Get
    <2>7. /\ Get("op").text = "remove" /\ Get("op").kind = "string"
          /\ Get("path").text = op.path /\ Get("path").kind = "string"
      BY <1>2, <2>3, StrIs
    <2>8. ~NeedsValue(Get("op")) /\ ~NeedsFrom(Get("op"))
      BY <2>7 DEF NeedsValue, NeedsFrom
    <2>9. \A i, j \in DOMAIN fields : fields[i].key = fields[j].key => i = j
      BY <2>3, Zenon DEF Distinct
    <2>10. KeysOf(fields) \subseteq {"op", "path", "from", "value"}
      BY <2>3
    <2>11. IsPointer(Get("path").text)
      BY <1>1, <2>7
    <2>12. IsPatchOp(value)
      BY <2>2, <2>3, <2>6, <2>7, <2>8, <2>9, <2>10, <2>11, Zenon DEF IsPatchOp, Get
    <2>13. PatchOpOf(value) = [op |-> Get("op").text, path |-> Get("path").text]
      BY <2>2, <2>8, Zenon DEF PatchOpOf, Get
    <2>14. op = [op |-> "remove", path |-> op.path]
      BY <1>2, OperationIs
    <2> QED
      BY <2>7, <2>12, <2>13, <2>14 DEF value
  <1>3. CASE op.op # "remove"
    <2> DEFINE fields == <<Field("op", Str(op.op)), Field("path", Str(op.path)), Field("value", op.value)>>
               Get(k) == GetField(fields, k)
    <2>1. /\ op = [op |-> op.op, path |-> op.path, value |-> op.value]
          /\ op.value \in Diffable[MaxDepth] /\ op.op \in {"add", "replace"}
      BY <1>3, OperationIs
    <2>2. ~IsVoid(op.value)
      <3>1. MaxDepth \in 0..MaxDepth
        BY DepthAssumption
      <3> QED
        BY <2>1, <3>1, DiffableShape
    <2>3. value = Object(Append(<<Field("op", Str(op.op)), Field("path", Str(op.path))>>,
                                Field("value", op.value)))
      BY <2>1, Zenon DEF toJSONValue
    <2>4. value.fields = fields /\ value.kind = "object"
      <3> DEFINE x == Field("op", Str(op.op))
                 y == Field("path", Str(op.path))
                 z == Field("value", op.value)
      <3>1. value = Object(Append(<<x, y>>, z))
        BY <2>3
      <3> HIDE DEF x, y, z, value
      <3>2. Append(<<x, y>>, z) = <<x, y, z>>
        BY AppendThird
      <3>3. value.fields = <<x, y, z>> /\ value.kind = "object"
        BY <3>1, <3>2 DEF Object
      <3> QED
        BY <3>3 DEF x, y, z
    <2>5. /\ nonVoidObjectFields(fields) = fields /\ Distinct(fields)
          /\ KeysOf(fields) = {"op", "path", "value"}
          /\ Get("op") = Str(op.op) /\ Get("path") = Str(op.path) /\ Get("value") = op.value
          /\ \A key : key \notin {"op", "path", "value"} => Get(key) = Void
      <3> DEFINE a == Str(op.op)
                 b == Str(op.path)
                 c == op.value
      <3>1. /\ ~IsVoid(a) /\ ~IsVoid(b) /\ ~IsVoid(c)
            /\ ThreeAre(fields, "op", a, "path", b, "value", c)
            /\ "op" # "path" /\ "op" # "value" /\ "path" # "value"
        BY <2>2, StrIs DEF ThreeAre
      <3> HIDE DEF a, b, c, fields
      <3>2. /\ nonVoidObjectFields(fields) = fields /\ Distinct(fields)
            /\ KeysOf(fields) = {"op", "path", "value"}
            /\ GetField(fields, "op") = a /\ GetField(fields, "path") = b
            /\ GetField(fields, "value") = c
            /\ \A key : key \notin {"op", "path", "value"} => GetField(fields, key) = Void
        BY <3>1, ThreeFields, SMTT(60)
      <3> QED
        BY <3>2 DEF a, b, c
    <2> HIDE DEF fields, value
    <2>6. Get("from") = Void
      BY <2>5
    <2> HIDE DEF Get
    <2>7. IsVoid(Void)
      BY DEF IsVoid, Void, Scalar
    <2>8. HasField(fields, "value") /\ ~HasField(fields, "from")
      BY <2>2, <2>5, <2>6, <2>7, Zenon DEF HasField, Get
    <2>9. /\ Get("op").text = op.op /\ Get("op").kind = "string"
          /\ Get("path").text = op.path /\ Get("path").kind = "string"
      BY <2>5, StrIs
    <2>10. NeedsValue(Get("op")) /\ ~NeedsFrom(Get("op"))
      BY <2>1, <2>9 DEF NeedsValue, NeedsFrom
    <2>11. \A i, j \in DOMAIN fields : fields[i].key = fields[j].key => i = j
      BY <2>5, Zenon DEF Distinct
    <2>12. KeysOf(fields) \subseteq {"op", "path", "from", "value"}
      BY <2>5
    <2>13. IsPointer(Get("path").text)
      BY <1>1, <2>9
    <2>14. IsPatchOp(value)
      BY <2>4, <2>5, <2>8, <2>9, <2>10, <2>11, <2>12, <2>13, Zenon DEF IsPatchOp, Get
    <2>15. PatchOpOf(value) = [op |-> Get("op").text, path |-> Get("path").text,
                               value |-> Get("value")]
      BY <2>4, <2>10, Zenon DEF PatchOpOf, Get
    <2> QED
      BY <2>1, <2>5, <2>9, <2>14, <2>15 DEF value
  <1> QED
    BY <1>2, <1>3

LEMMA PatchWritten ==
  ASSUME NEW patch \in Seq(Operations)
  PROVE  IsPatch(PatchDocument(patch)) /\ PatchFromJSON(PatchDocument(patch)) = patch
  <1> DEFINE doc == PatchDocument(patch)
  <1>1. \A i \in DOMAIN patch : patch[i] \in Operations
    OBVIOUS
  <1>2. doc.kind = "array" /\ doc.items = [i \in DOMAIN patch |-> toJSONValue(patch[i])]
    BY DEF PatchDocument, Array
  <1> HIDE DEF doc
  <1>3. DOMAIN doc.items = DOMAIN patch /\ \A i \in DOMAIN patch : doc.items[i] = toJSONValue(patch[i])
    BY <1>2, Zenon
  <1>4. IsPatch(doc)
    BY <1>1, <1>2, <1>3, OperationWritten, Zenon DEF IsPatch
  <1>5. \A i \in DOMAIN patch : PatchOpOf(doc.items[i]) = patch[i]
    BY <1>1, <1>3, OperationWritten, Zenon
  <1>6. PatchFromJSON(doc) = [i \in DOMAIN patch |-> patch[i]]
    <2>1. PatchFromJSON(doc) = [i \in DOMAIN doc.items |-> PatchOpOf(doc.items[i])]
      BY Zenon DEF PatchFromJSON
    <2> QED
      BY <1>3, <1>5, <2>1, Zenon
  <1>7. [i \in DOMAIN patch |-> patch[i]] = patch
    OBVIOUS
  <1> QED
    BY <1>4, <1>6, <1>7 DEF doc

-----------------------------------------------------------------------------
(* What stands below a token.                                              *)

Values == Sides(MaxDepth)

LEMMA VoidIsVoid == IsVoid(Void) /\ Void \in Values
  BY DEF IsVoid, Void, Scalar, Values, Sides

LEMMA ChildIsValue ==
  ASSUME NEW v \in Values, NEW token
  PROVE  ChildAt(v, token) \in Values
  <1>1. MaxDepth \in 0..MaxDepth
    BY DepthAssumption
  <1>2. v \in Sides(MaxDepth)
    BY DEF Values
  <1>3. CASE v.kind = "object"
    <2>1. MaxDepth - 1 \in 0..MaxDepth /\ v.fields \in DiffFields(Diffable[MaxDepth - 1])
      BY <1>1, <1>2, <1>3, ObjectSide
    <2>2. v.fields \in Seq(FieldsOf(STRING, Diffable[MaxDepth - 1]))
      BY <2>1 DEF DiffFields
    <2>3. GetField(v.fields, token) \in Diffable[MaxDepth - 1] \cup {Void}
      BY <2>2, GetFieldIn
    <2>4. ChildAt(v, token) = GetField(v.fields, token)
      BY <1>3, Zenon DEF ChildAt
    <2>5. Diffable[MaxDepth - 1] \subseteq Diffable[MaxDepth]
      BY <2>1, DiffableWithin
    <2> QED
      BY <2>3, <2>4, <2>5 DEF Values, Sides
  <1>4. CASE v.kind = "array" /\ parseArrayIndex(token) + 1 \in DOMAIN v.items
    <2>1. MaxDepth - 1 \in 0..MaxDepth /\ v.items \in DiffItems(Diffable[MaxDepth - 1])
      BY <1>1, <1>2, <1>4, ArraySide
    <2>2. v.items \in Seq(Diffable[MaxDepth - 1])
      BY <2>1 DEF DiffItems
    <2>3. v.items[parseArrayIndex(token) + 1] \in Diffable[MaxDepth - 1]
      BY <1>4, <2>2
    <2>4. ChildAt(v, token) = v.items[parseArrayIndex(token) + 1]
      <3>1. v.kind # "object"
        BY <1>4
      <3> QED
        BY <1>4, <3>1, Zenon DEF ChildAt
    <2>5. Diffable[MaxDepth - 1] \subseteq Diffable[MaxDepth]
      BY <2>1, DiffableWithin
    <2> QED
      BY <2>3, <2>4, <2>5 DEF Values, Sides
  <1>5. CASE v.kind # "object" /\ ~(v.kind = "array" /\ parseArrayIndex(token) + 1 \in DOMAIN v.items)
    <2>1. ChildAt(v, token) = Void
      BY <1>5, Zenon DEF ChildAt
    <2> QED
      BY <2>1, VoidIsVoid
  <1> QED
    BY <1>3, <1>4, <1>5

LEMMA StepsDown ==
  ASSUME NEW v \in Values, NEW path
  PROVE  LET along == Along(v, path)
         IN  /\ along[0] = v
             /\ \A n \in Nat : along[n] \in Values /\ along[n + 1] = ChildAt(along[n], path[n + 1])
  <1> DEFINE V == Values
             S == [n \in Nat |-> V]
             F == [n \in Nat |-> [x \in V |-> ChildAt(x, path[n + 1])]]
             Is(f) == f = [n \in Nat |-> IF n = 0 THEN v ELSE ChildAt(f[n - 1], path[n])]
  <1>1. ASSUME NEW n \in Nat, NEW x \in V
        PROVE  F[n][x] \in V /\ F[n][x] = ChildAt(x, path[n + 1])
    BY ChildIsValue
  <1>2. \A n \in Nat : \A x \in S[n] : F[n][x] \in S[n + 1]
    BY <1>1
  <1> HIDE DEF F, V
  <1>3. PICK f : /\ f = [n \in Nat |-> IF n = 0 THEN v ELSE F[n - 1][f[n - 1]]]
                 /\ \A n \in Nat : f[n] \in V
    <2>1. v \in S[0]
      BY DEF V
    <2> HIDE DEF S
    <2>2. PICK f : /\ f = [n \in Nat |-> IF n = 0 THEN v ELSE F[n - 1][f[n - 1]]]
                   /\ \A n \in Nat : f[n] \in S[n]
      BY <1>2, <2>1, Iteration
    <2>3. \A n \in Nat : f[n] \in V
      BY <2>2 DEF S
    <2> QED
      BY <2>2, <2>3
  <1>4. ASSUME NEW n \in Nat
        PROVE  f[n] = IF n = 0 THEN v ELSE ChildAt(f[n - 1], path[n])
    <2>1. CASE n = 0
      BY <1>3, <2>1
    <2>2. CASE n # 0
      <3>1. n - 1 \in Nat /\ (n - 1) + 1 = n
        BY <2>2
      <3>2. f[n] = F[n - 1][f[n - 1]] /\ f[n - 1] \in V
        BY <1>3, <2>2, <3>1
      <3>3. F[n - 1][f[n - 1]] = ChildAt(f[n - 1], path[(n - 1) + 1])
        BY <1>1, <3>1, <3>2
      <3> QED
        BY <2>2, <3>1, <3>2, <3>3
    <2> QED
      BY <2>1, <2>2
  <1>5. Is(f)
    BY <1>3, <1>4
  <1> DEFINE along == CHOOSE g : Is(g)
  <1>6. Is(along)
    BY <1>5
  <1>7. Along(v, path) = along
    BY Zenon DEF Along
  <1> HIDE DEF along
  <1>8. along[0] = v /\ \A n \in Nat : along[n + 1] = ChildAt(along[n], path[n + 1])
    BY <1>6
  <1>9. \A n \in Nat : along[n] \in V
    <2> DEFINE T == {n \in Nat : along[n] \in V}
    <2>1. 0 \in T
      BY <1>8 DEF V
    <2>2. ASSUME NEW n \in Nat, n \in T PROVE n + 1 \in T
      BY <1>8, <2>2, ChildIsValue DEF V
    <2> HIDE DEF T
    <2>3. \A n \in Nat : n \in T
      BY <2>1, <2>2, Induction
    <2> QED
      BY <2>3 DEF T
  <1> QED
    BY <1>7, <1>8, <1>9 DEF V

\* A path is a token and the path on from there.
LEMMA TokenFirst ==
  ASSUME NEW E, NEW k \in E, NEW p \in Seq(E)
  PROVE  /\ <<k>> \o p \in Seq(E) /\ Len(<<k>> \o p) = Len(p) + 1 /\ (<<k>> \o p)[1] = k
         /\ \A i \in 1..Len(p) : (<<k>> \o p)[i + 1] = p[i]
  OBVIOUS

LEMMA AlongBelow ==
  ASSUME NEW v \in Values, NEW E, NEW k \in E, NEW p \in Seq(E)
  PROVE  \A n \in 0..Len(p) : Along(v, <<k>> \o p)[n + 1] = Along(ChildAt(v, k), p)[n]
  <1> DEFINE path  == <<k>> \o p
             long  == Along(v, path)
             short == Along(ChildAt(v, k), p)
  <1>1. path \in Seq(E) /\ path[1] = k /\ \A i \in 1..Len(p) : path[i + 1] = p[i]
    BY TokenFirst
  <1> HIDE DEF path
  <1>2. /\ long[0] = v
        /\ \A n \in Nat : long[n + 1] = ChildAt(long[n], path[n + 1])
    BY StepsDown
  <1>3. /\ short[0] = ChildAt(v, k)
        /\ \A n \in Nat : short[n + 1] = ChildAt(short[n], p[n + 1])
    BY ChildIsValue, StepsDown
  <1> HIDE DEF long, short
  <1> DEFINE T == {n \in Nat : n <= Len(p) => long[n + 1] = short[n]}
  <1>4. 0 \in T
    <2>1. long[0 + 1] = ChildAt(long[0], path[0 + 1])
      BY <1>2
    <2>2. path[0 + 1] = k
      BY <1>1
    <2>3. long[0 + 1] = short[0]
      BY <1>2, <1>3, <2>1, <2>2
    <2> QED
      BY <2>3
  <1>5. ASSUME NEW n \in Nat, n \in T PROVE n + 1 \in T
    <2>1. CASE n + 1 <= Len(p)
      <3>1. n <= Len(p) /\ n + 1 \in 1..Len(p) /\ n + 1 \in Nat
        BY <2>1
      <3>2. long[(n + 1) + 1] = ChildAt(long[n + 1], path[(n + 1) + 1])
        BY <1>2, <3>1
      <3>3. short[n + 1] = ChildAt(short[n], p[n + 1])
        BY <1>3
      <3>4. long[n + 1] = short[n] /\ path[(n + 1) + 1] = p[n + 1]
        BY <1>1, <1>5, <3>1
      <3>5. long[(n + 1) + 1] = short[n + 1]
        BY <3>2, <3>3, <3>4
      <3> QED
        BY <3>5
    <2> QED
      BY <2>1
  <1> HIDE DEF T
  <1>6. \A n \in Nat : n \in T
    BY <1>4, <1>5, Induction
  <1>7. \A n \in Nat : n <= Len(p) => long[n + 1] = short[n]
    BY <1>6 DEF T
  <1> QED
    BY <1>7 DEF path, long, short

\* put[n]: what is put at the place that the last n tokens lead from.
Putting(value, path, new, put) ==
  /\ put[0] = new
  /\ \A n \in 1..Len(path) :
       put[n] = ReplaceChild(Along(value, path)[Len(path) - n], path[Len(path) - n + 1], put[n - 1])
  /\ PutAt(value, path, new) = put[Len(path)]

LEMMA PutIs ==
  ASSUME NEW value, NEW E, NEW path \in Seq(E), NEW new
  PROVE  \E put : Putting(value, path, new, put)
  <1> DEFINE L == Len(path)
             Step(n, x) == ReplaceChild(Along(value, path)[L - n], path[L - n + 1], x)
             Is(m, g) == g = [n \in 0..m |-> IF n = 0 THEN new ELSE Step(n, g[n - 1])]
             T == {m \in Nat : \E g : Is(m, g)}
  <1>1. L \in Nat
    OBVIOUS
  <1> HIDE DEF L, Step
  <1>2. 0 \in T
    <2> DEFINE g == [n \in 0..0 |-> new]
    <2>1. Is(0, g)
      OBVIOUS
    <2> QED
      BY <2>1
  <1>3. ASSUME NEW m \in Nat, m \in T PROVE m + 1 \in T
    <2>1. PICK g : Is(m, g)
      BY <1>3
    <2> DEFINE h == [n \in 0..m + 1 |-> IF n <= m THEN g[n] ELSE Step(n, g[m])]
    <2>2. \A n \in 0..m : g[n] = IF n = 0 THEN new ELSE Step(n, g[n - 1])
      BY <2>1
    <2>3. ASSUME NEW n \in 0..m + 1 PROVE h[n] = IF n = 0 THEN new ELSE Step(n, h[n - 1])
      <3>1. CASE n = 0
        BY <2>2, <3>1
      <3>2. CASE n # 0 /\ n <= m
        BY <2>2, <3>2
      <3>3. CASE n = m + 1
        <4>1. n # 0 /\ n - 1 = m /\ m \in 0..m + 1 /\ ~(n <= m)
          BY <3>3
        <4>2. h[n] = Step(n, g[m]) /\ h[m] = g[m]
          BY <4>1
        <4> QED
          BY <4>1, <4>2
      <3> QED
        BY <3>1, <3>2, <3>3
    <2>4. h = [n \in 0..m + 1 |-> IF n = 0 THEN new ELSE Step(n, h[n - 1])]
      <3>1. h = [n \in 0..m + 1 |-> h[n]]
        OBVIOUS
      <3> HIDE DEF h
      <3> QED
        BY <2>3, <3>1, Zenon
    <2>5. Is(m + 1, h)
      BY <2>4, Zenon
    <2>6. m + 1 \in Nat
      OBVIOUS
    <2> HIDE DEF Is
    <2> QED
      BY <2>5, <2>6, Zenon
  <1>4. \A m \in Nat : m \in T
    <2> HIDE DEF T
    <2> QED
      BY <1>2, <1>3, Induction
  <1>5. \E g : Is(L, g)
    BY <1>1, <1>4
  <1> DEFINE put == CHOOSE g : Is(L, g)
  <1>6. Is(L, put)
    BY <1>5, Zenon
  <1>7. PutAt(value, path, new) = put[L]
    BY Zenon DEF PutAt, L, Step
  <1> HIDE DEF put
  <1>8. put[0] = new /\ \A n \in 1..L : put[n] = Step(n, put[n - 1])
    BY <1>1, <1>6
  <1>9. Putting(value, path, new, put)
    BY <1>7, <1>8, Zenon DEF Putting, L, Step
  <1> QED
    BY <1>9

LEMMA PutHere ==
  ASSUME NEW value, NEW new
  PROVE  PutAt(value, <<>>, new) = new
  <1>1. <<>> \in Seq({}) /\ Len(<<>>) = 0
    OBVIOUS
  <1>2. PICK put : Putting(value, <<>>, new, put)
    BY <1>1, PutIs
  <1> QED
    BY <1>1, <1>2, Zenon DEF Putting

LEMMA Backwards ==
  ASSUME NEW l \in Nat, NEW n \in 1..l
  PROVE  /\ n \in 1..l + 1 /\ (l + 1) - n = (l - n) + 1 /\ l - n \in 0..l
         /\ (l + 1) - n + 1 = (l - n + 1) + 1 /\ l - n + 1 \in 1..l
  OBVIOUS

LEMMA PutBelow ==
  ASSUME NEW v \in Values, NEW E, NEW k \in E, NEW p \in Seq(E), NEW new
  PROVE  PutAt(v, <<k>> \o p, new) = ReplaceChild(v, k, PutAt(ChildAt(v, k), p, new))
  <1> DEFINE path == <<k>> \o p
             u == ChildAt(v, k)
             l == Len(p)
  <1>1. /\ path \in Seq(E) /\ Len(path) = l + 1 /\ path[1] = k /\ l \in Nat
        /\ \A i \in 1..l : path[i + 1] = p[i]
    BY TokenFirst
  <1>2. \A n \in 0..l : Along(v, path)[n + 1] = Along(u, p)[n]
    BY AlongBelow
  <1> HIDE DEF path, u
  <1>3. Along(v, path)[0] = v
    BY StepsDown
  <1>4. PICK long : Putting(v, path, new, long)
    BY <1>1, PutIs
  <1>5. PICK short : Putting(u, p, new, short)
    BY PutIs
  <1> HIDE DEF l
  <1>6. /\ long[0] = new /\ PutAt(v, path, new) = long[l + 1]
        /\ \A n \in 1..l + 1 :
             long[n] = ReplaceChild(Along(v, path)[(l + 1) - n], path[(l + 1) - n + 1], long[n - 1])
    BY <1>1, <1>4, Zenon DEF Putting
  <1>7. /\ short[0] = new /\ PutAt(u, p, new) = short[l]
        /\ \A n \in 1..l :
             short[n] = ReplaceChild(Along(u, p)[l - n], p[l - n + 1], short[n - 1])
    BY <1>5, Zenon DEF Putting, l
  <1> DEFINE T == {n \in Nat : n <= l => long[n] = short[n]}
  <1>8. 0 \in T
    BY <1>6, <1>7
  <1>9. ASSUME NEW n \in Nat, n \in T PROVE n + 1 \in T
    <2>1. CASE n + 1 <= l
      <3> DEFINE m == n + 1
      <3>1. m \in 1..l /\ m - 1 = n /\ n <= l
        BY <1>1, <2>1
      <3> HIDE DEF m
      <3>2. /\ m \in 1..l + 1 /\ (l + 1) - m = (l - m) + 1 /\ l - m \in 0..l
            /\ (l + 1) - m + 1 = (l - m + 1) + 1 /\ l - m + 1 \in 1..l
        BY <1>1, <3>1, Backwards
      <3>3. long[m] = ReplaceChild(Along(v, path)[(l - m) + 1], path[(l - m + 1) + 1], long[n])
        BY <1>6, <3>1, <3>2, Zenon
      <3>4. short[m] = ReplaceChild(Along(u, p)[l - m], p[l - m + 1], short[n])
        BY <1>7, <3>1, Zenon
      <3>5. long[n] = short[n]
        BY <1>9, <3>1
      <3>6. Along(v, path)[(l - m) + 1] = Along(u, p)[l - m] /\ path[(l - m + 1) + 1] = p[l - m + 1]
        BY <1>1, <1>2, <3>2, Zenon
      <3>7. long[m] = short[m]
        BY <3>3, <3>4, <3>5, <3>6, Zenon
      <3> QED
        BY <3>7 DEF m
    <2> QED
      BY <2>1
  <1> HIDE DEF T
  <1>10. \A n \in Nat : n \in T
    BY <1>8, <1>9, Induction
  <1>11. long[l] = short[l]
    BY <1>1, <1>10 DEF T
  <1>12. l + 1 \in 1..l + 1 /\ (l + 1) - (l + 1) = 0 /\ (l + 1) - (l + 1) + 1 = 1 /\ (l + 1) - 1 = l
    BY <1>1
  <1>13. long[l + 1] = ReplaceChild(Along(v, path)[0], path[1], long[l])
    BY <1>6, <1>12
  <1> QED
    BY <1>1, <1>3, <1>6, <1>7, <1>11, <1>13, Zenon DEF path, u

LEMMA EndsBelow ==
  ASSUME NEW E, NEW k \in E, NEW p \in Seq(E), p # <<>>
  PROVE  /\ <<k>> \o p # <<>> /\ Last(<<k>> \o p) = Last(p)
         /\ Front(<<k>> \o p) = <<k>> \o Front(p) /\ Front(p) \in Seq(E)
  <1> DEFINE path == <<k>> \o p
  <1>1. /\ path \in Seq(E) /\ Len(path) = Len(p) + 1 /\ path[1] = k
        /\ \A i \in 1..Len(p) : path[i + 1] = p[i]
    BY TokenFirst
  <1>2. Len(p) \in Nat /\ Len(p) \in 1..Len(p)
    OBVIOUS
  <1> HIDE DEF path
  <1>3. path # <<>>
    BY <1>1, <1>2
  <1>4. path[Len(p) + 1] = p[Len(p)]
    BY <1>1, <1>2
  <1>5. Last(path) = Last(p)
    BY <1>1, <1>4 DEF Last
  <1>6. /\ Front(p) \in Seq(E) /\ Len(Front(p)) = Len(p) - 1
        /\ \A i \in 1..Len(p) - 1 : Front(p)[i] = p[i]
    <2>1. Front(p) = SubSeq(p, 1, Len(p) - 1) /\ Len(p) - 1 \in Nat
      BY <1>2 DEF Front
    <2> DEFINE n == Len(p) - 1
    <2>2. n \in Nat /\ n <= Len(p) /\ Front(p) = SubSeq(p, 1, n)
      BY <1>2, <2>1
    <2> HIDE DEF n
    <2>3. /\ SubSeq(p, 1, n) \in Seq(E) /\ Len(SubSeq(p, 1, n)) = n
          /\ \A i \in 1..n : SubSeq(p, 1, n)[i] = p[i]
      BY <2>2
    <2> QED
      BY <2>2, <2>3 DEF n
  <1>7. /\ Front(path) \in Seq(E) /\ Len(Front(path)) = Len(p)
        /\ \A i \in 1..Len(p) : Front(path)[i] = path[i]
    <2>1. Front(path) = SubSeq(path, 1, Len(p))
      BY <1>1, <1>2 DEF Front
    <2> QED
      BY <1>1, <1>2, <2>1
  <1> DEFINE front == Front(p)
             other == <<k>> \o front
  <1>8. /\ other \in Seq(E) /\ Len(other) = Len(front) + 1 /\ other[1] = k
        /\ \A i \in 1..Len(front) : other[i + 1] = front[i]
    <2> HIDE DEF front
    <2> QED
      BY <1>6, TokenFirst DEF front
  <1> HIDE DEF other, front
  <1>9. Len(other) = Len(Front(path))
    BY <1>2, <1>6, <1>7, <1>8 DEF front
  <1>10. ASSUME NEW i \in 1..Len(Front(path)) PROVE Front(path)[i] = other[i]
    <2>1. i \in 1..Len(p) /\ Front(path)[i] = path[i]
      BY <1>7
    <2>2. CASE i = 1
      BY <1>1, <1>8, <2>1, <2>2
    <2>3. CASE i # 1
      <3>1. i - 1 \in 1..Len(p) /\ i - 1 \in 1..Len(p) - 1 /\ (i - 1) + 1 = i
        BY <1>2, <2>1, <2>3
      <3>2. path[(i - 1) + 1] = p[i - 1]
        BY <1>1, <3>1
      <3>3. other[(i - 1) + 1] = front[i - 1] /\ front[i - 1] = p[i - 1]
        BY <1>6, <1>8, <3>1 DEF front
      <3> QED
        BY <2>1, <3>1, <3>2, <3>3
    <2> QED
      BY <2>2, <2>3
  <1>11. Front(path) = other
    BY <1>7, <1>8, <1>9, <1>10, SameSequence
  <1> QED
    BY <1>3, <1>5, <1>6, <1>11 DEF path, other, front

LEMMA ThereBelow ==
  ASSUME NEW v \in Values, NEW E, NEW k \in E, NEW q \in Seq(E), ~IsVoid(ChildAt(v, k))
  PROVE  ValueAt(v, <<k>> \o q) = ValueAt(ChildAt(v, k), q)
  <1> DEFINE path == <<k>> \o q
             u == ChildAt(v, k)
  <1>1. /\ path \in Seq(E) /\ Len(path) = Len(q) + 1 /\ path # <<>>
        /\ Len(q) \in 0..Len(q) /\ (q = <<>> <=> Len(q) = 0)
    BY TokenFirst
  <1>2. Along(v, path)[Len(q) + 1] = Along(u, q)[Len(q)]
    BY <1>1, AlongBelow
  <1>3. Along(u, q)[0] = u
    BY ChildIsValue, StepsDown
  <1> HIDE DEF path, u
  <1>4. ValueAt(v, path) = IF IsVoid(Along(u, q)[Len(q)]) THEN Invalid ELSE Along(u, q)[Len(q)]
    BY <1>1, <1>2, Zenon DEF ValueAt
  <1>5. CASE q = <<>>
    <2>1. ValueAt(u, q) = Along(u, q)[Len(q)]
      BY <1>5, Zenon DEF ValueAt
    <2>2. Along(u, q)[Len(q)] = u
      BY <1>1, <1>3, <1>5
    <2> QED
      BY <1>4, <2>1, <2>2, Zenon DEF path, u
  <1>6. CASE q # <<>>
    BY <1>4, <1>6, Zenon DEF ValueAt, path, u
  <1> QED
    BY <1>5, <1>6

LEMMA ParentBelow ==
  ASSUME NEW v \in Values, NEW E, NEW k \in E, NEW p \in Seq(E), p # <<>>,
         ~IsVoid(ChildAt(v, k)), NEW parent
  PROVE  /\ ParentAt(v, <<k>> \o p) = ParentAt(ChildAt(v, k), p)
         /\ Last(<<k>> \o p) = Last(p) /\ <<k>> \o p # <<>>
         /\ PutParent(ChildAt(v, k), p, parent) # Invalid =>
              PutParent(v, <<k>> \o p, parent)
                = ReplaceChild(v, k, PutParent(ChildAt(v, k), p, parent))
  <1>1. /\ <<k>> \o p # <<>> /\ Last(<<k>> \o p) = Last(p)
        /\ Front(<<k>> \o p) = <<k>> \o Front(p) /\ Front(p) \in Seq(E)
    BY EndsBelow
  <1>2. ValueAt(v, <<k>> \o Front(p)) = ValueAt(ChildAt(v, k), Front(p))
    BY <1>1, ThereBelow
  <1>3. ParentAt(v, <<k>> \o p) = ParentAt(ChildAt(v, k), p)
    BY <1>1, <1>2, Zenon DEF ParentAt
  <1>4. PutAt(v, <<k>> \o Front(p), parent) = ReplaceChild(v, k, PutAt(ChildAt(v, k), Front(p), parent))
    BY <1>1, PutBelow
  <1>5. PutParent(ChildAt(v, k), p, parent) # Invalid =>
          PutParent(v, <<k>> \o p, parent) = ReplaceChild(v, k, PutParent(ChildAt(v, k), p, parent))
    BY <1>1, <1>4, Zenon DEF PutParent
  <1> QED
    BY <1>1, <1>3, <1>5

LEMMA AddBelow ==
  ASSUME NEW v \in Values, NEW E, NEW k \in E, NEW p \in Seq(E), p # <<>>,
         ~IsVoid(ChildAt(v, k)), NEW new, SpecAdd(ChildAt(v, k), p, new) # Invalid
  PROVE  SpecAdd(v, <<k>> \o p, new) = ReplaceChild(v, k, SpecAdd(ChildAt(v, k), p, new))
  <1> DEFINE u == ChildAt(v, k)
             parent == Inserted(ParentAt(u, p), Last(p), new)
  <1>1. new.kind \notin {"void", "invalid"} /\ SpecAdd(u, p, new) = PutParent(u, p, parent)
    BY Zenon DEF SpecAdd
  <1>2. /\ ParentAt(v, <<k>> \o p) = ParentAt(u, p)
        /\ Last(<<k>> \o p) = Last(p) /\ <<k>> \o p # <<>>
        /\ PutParent(u, p, parent) # Invalid =>
             PutParent(v, <<k>> \o p, parent) = ReplaceChild(v, k, PutParent(u, p, parent))
    BY ParentBelow
  <1> QED
    BY <1>1, <1>2, Zenon DEF SpecAdd

LEMMA RemoveBelow ==
  ASSUME NEW v \in Values, NEW E, NEW k \in E, NEW p \in Seq(E), p # <<>>,
         ~IsVoid(ChildAt(v, k)), SpecRemove(ChildAt(v, k), p) # Invalid
  PROVE  SpecRemove(v, <<k>> \o p) = ReplaceChild(v, k, SpecRemove(ChildAt(v, k), p))
  <1> DEFINE u == ChildAt(v, k)
             parent == Deleted(ParentAt(u, p), Last(p))
  <1>1. SpecRemove(u, p) = PutParent(u, p, parent)
    BY Zenon DEF SpecRemove
  <1>2. /\ ParentAt(v, <<k>> \o p) = ParentAt(u, p)
        /\ Last(<<k>> \o p) = Last(p) /\ <<k>> \o p # <<>>
        /\ PutParent(u, p, parent) # Invalid =>
             PutParent(v, <<k>> \o p, parent) = ReplaceChild(v, k, PutParent(u, p, parent))
    BY ParentBelow
  <1> QED
    BY <1>1, <1>2, Zenon DEF SpecRemove

\* At a location of one token.
LEMMA OneToken ==
  ASSUME NEW v \in Values, NEW k
  PROVE  /\ <<k>> # <<>> /\ Last(<<k>>) = k /\ Front(<<k>>) = <<>> /\ ParentAt(v, <<k>>) = v
         /\ \A parent : PutParent(v, <<k>>, parent) = parent
  <1>1. <<k>> # <<>> /\ Last(<<k>>) = k
    BY DEF Last
  <1>2. Front(<<k>>) = <<>>
    BY DEF Front
  <1>3. Along(v, <<>>)[0] = v
    BY StepsDown
  <1>4. Len(<<>>) = 0
    OBVIOUS
  <1>5. ValueAt(v, <<>>) = v
    BY <1>3, <1>4, Zenon DEF ValueAt
  <1>6. ParentAt(v, <<k>>) = v
    BY <1>2, <1>5, Zenon DEF ParentAt
  <1>7. \A parent : PutAt(v, <<>>, parent) = parent
    BY PutHere
  <1>8. \A parent : PutParent(v, <<k>>, parent) = parent
    BY <1>2, <1>7, Zenon DEF PutParent
  <1> QED
    BY <1>1, <1>2, <1>6, <1>8

LEMMA SpecAtToken ==
  ASSUME NEW v \in Values, NEW k
  PROVE  /\ SpecRemove(v, <<k>>) = Deleted(v, k)
         /\ \A new : new.kind \notin {"void", "invalid"} => SpecAdd(v, <<k>>, new) = Inserted(v, k, new)
         /\ \A new : ~IsVoid(new) => SpecReplace(v, <<k>>, new) = Replaced(v, k, new)
  <1>1. /\ <<k>> # <<>> /\ Last(<<k>>) = k /\ ParentAt(v, <<k>>) = v
        /\ \A parent : PutParent(v, <<k>>, parent) = parent
    BY OneToken
  <1>2. SpecRemove(v, <<k>>) = Deleted(v, k)
    BY <1>1, Zenon DEF SpecRemove
  <1>3. ASSUME NEW new, new.kind \notin {"void", "invalid"}
        PROVE  SpecAdd(v, <<k>>, new) = Inserted(v, k, new)
    BY <1>1, <1>3, Zenon DEF SpecAdd
  <1>4. ASSUME NEW new, ~IsVoid(new)
        PROVE  SpecReplace(v, <<k>>, new) = Replaced(v, k, new)
    BY <1>1, <1>4, Zenon DEF SpecReplace
  <1> QED
    BY <1>2, <1>3, <1>4

LEMMA ReplaceBelow ==
  ASSUME NEW v \in Values, NEW E, NEW k \in E, NEW p \in Seq(E),
         ~IsVoid(ChildAt(v, k)), NEW new, SpecReplace(ChildAt(v, k), p, new) # Invalid
  PROVE  SpecReplace(v, <<k>> \o p, new) = ReplaceChild(v, k, SpecReplace(ChildAt(v, k), p, new))
  <1> DEFINE u == ChildAt(v, k)
             parent == Replaced(ParentAt(u, p), Last(p), new)
  <1>1. ~IsVoid(new)
    BY Zenon DEF SpecReplace
  <1>2. CASE p # <<>>
    <2>1. SpecReplace(u, p, new) = PutParent(u, p, parent)
      BY <1>2, Zenon DEF SpecReplace
    <2>2. /\ ParentAt(v, <<k>> \o p) = ParentAt(u, p)
          /\ Last(<<k>> \o p) = Last(p) /\ <<k>> \o p # <<>>
          /\ PutParent(u, p, parent) # Invalid =>
               PutParent(v, <<k>> \o p, parent) = ReplaceChild(v, k, PutParent(u, p, parent))
      BY <1>2, ParentBelow
    <2> QED
      BY <1>1, <2>1, <2>2, Zenon DEF SpecReplace
  <1>3. CASE p = <<>>
    <2>1. <<k>> \o p = <<k>>
      BY <1>3
    <2>2. SpecReplace(v, <<k>>, new) = Replaced(v, k, new)
      BY <1>1, SpecAtToken
    <2>3. Replaced(v, k, new) = ReplaceChild(v, k, new)
      BY Zenon DEF Replaced
    <2>4. SpecReplace(u, p, new) = new
      BY <1>1, <1>3, Zenon DEF SpecReplace
    <2> QED
      BY <2>1, <2>2, <2>3, <2>4
  <1> QED
    BY <1>2, <1>3

LEMMA ResolvedIs ==
  ASSUME NEW op \in Operations
  PROVE  /\ Resolved(op).op = op.op /\ Resolved(op).path = ParseJSONPointer(op.path)
         /\ op.op # "remove" => Resolved(op).value = op.value
  <1> DEFINE path == ParseJSONPointer(op.path)
  <1>1. Resolved(op) = [op EXCEPT !.path = path]
    BY DEF Resolved
  <1> HIDE DEF path
  <1>2. CASE op.op = "remove"
    <2>1. op = [op |-> "remove", path |-> op.path]
      BY <1>2, OperationIs
    <2>2. Resolved(op) = [op |-> "remove", path |-> path]
      BY <1>1, <2>1
    <2> QED
      BY <1>2, <2>2 DEF path
  <1>3. CASE op.op # "remove"
    <2>1. op = [op |-> op.op, path |-> op.path, value |-> op.value]
      BY <1>3, OperationIs
    <2>2. Resolved(op) = [op |-> op.op, path |-> path, value |-> op.value]
      BY <1>1, <2>1
    <2> QED
      BY <1>3, <2>2 DEF path
  <1> QED
    BY <1>2, <1>3

LEMMA SpecOpIs ==
  ASSUME NEW op \in Operations, NEW v
  PROVE  /\ op.op = "add" => SpecOp(v, Resolved(op)) = SpecAdd(v, ParseJSONPointer(op.path), op.value)
         /\ op.op = "replace" =>
              SpecOp(v, Resolved(op)) = SpecReplace(v, ParseJSONPointer(op.path), op.value)
         /\ op.op = "remove" => SpecOp(v, Resolved(op)) = SpecRemove(v, ParseJSONPointer(op.path))
  <1>1. /\ Resolved(op).op = op.op /\ Resolved(op).path = ParseJSONPointer(op.path)
        /\ op.op # "remove" => Resolved(op).value = op.value
    BY ResolvedIs
  <1>2. "add" # "remove" /\ "add" # "replace" /\ "replace" # "remove"
    OBVIOUS
  <1>3. ASSUME op.op = "add" PROVE SpecOp(v, Resolved(op)) = SpecAdd(v, ParseJSONPointer(op.path), op.value)
    BY <1>1, <1>2, <1>3, Zenon DEF SpecOp
  <1>4. ASSUME op.op = "replace"
        PROVE  SpecOp(v, Resolved(op)) = SpecReplace(v, ParseJSONPointer(op.path), op.value)
    BY <1>1, <1>2, <1>4, Zenon DEF SpecOp
  <1>5. ASSUME op.op = "remove" PROVE SpecOp(v, Resolved(op)) = SpecRemove(v, ParseJSONPointer(op.path))
    BY <1>1, <1>2, <1>5, Zenon DEF SpecOp
  <1> QED
    BY <1>3, <1>4, <1>5

\* Does the operation leave the value in its place?
Inside(op) == ParseJSONPointer(op.path) = <<>> => op.op = "replace"

\* An operation on a part changes the part and nothing else.
LEMMA OperationBelow ==
  ASSUME NEW v \in Values, NEW k \in DOMAIN Spelling, ~IsVoid(ChildAt(v, k)),
         NEW op \in Operations, Inside(op),
         SpecOp(ChildAt(v, k), Resolved(op)) # Invalid
  PROVE  /\ SpecOp(v, Resolved(AtPart(k, op)))
              = ReplaceChild(v, k, SpecOp(ChildAt(v, k), Resolved(op)))
         /\ Inside(AtPart(k, op))
  <1> DEFINE u == ChildAt(v, k)
             p == ParseJSONPointer(op.path)
             at == AtPart(k, op)
  <1>1. op.path \in Pointers /\ op.op \in {"add", "replace", "remove"}
    BY OperationIs
  <1>2. /\ at \in Operations /\ at.op = op.op /\ at.path = Pointer(k) \o op.path
        /\ op.op # "remove" => at.value = op.value
    BY AtPartIs
  <1>3. p \in Seq(Tokens) /\ ParseJSONPointer(Pointer(k) \o op.path) = <<k>> \o p
    BY <1>1, PointerBefore
  <1>4. ParseJSONPointer(at.path) = <<k>> \o p
    BY <1>2, <1>3, Zenon
  <1>5. k \in Tokens
    BY DEF Tokens
  <1>6. <<k>> \o p # <<>>
    <2> HIDE DEF p
    <2> QED
      BY <1>3, <1>5, TokenFirst
  <1>7. Inside(at)
    BY <1>4, <1>6, Zenon DEF Inside
  <1>8. p = <<>> => op.op = "replace"
    BY Zenon DEF Inside
  <1> HIDE DEF at, p, u
  <1>9. SpecOp(u, Resolved(op)) # Invalid /\ ~IsVoid(u)
    BY DEF u
  <1>10. CASE op.op = "add"
    <2>1. SpecOp(u, Resolved(op)) = SpecAdd(u, p, op.value)
      BY <1>10, SpecOpIs, Zenon DEF p
    <2>2. at.op = "add" /\ at.value = op.value /\ p # <<>>
      BY <1>2, <1>8, <1>10
    <2>3. SpecOp(v, Resolved(at)) = SpecAdd(v, <<k>> \o p, op.value)
      BY <1>2, <1>4, <2>2, SpecOpIs, Zenon
    <2>4. SpecAdd(v, <<k>> \o p, op.value) = ReplaceChild(v, k, SpecAdd(u, p, op.value))
      BY <1>3, <1>5, <1>9, <2>1, <2>2, AddBelow DEF u
    <2> QED
      BY <1>7, <2>1, <2>3, <2>4, Zenon DEF at, u
  <1>11. CASE op.op = "replace"
    <2>1. SpecOp(u, Resolved(op)) = SpecReplace(u, p, op.value)
      BY <1>11, SpecOpIs, Zenon DEF p
    <2>2. at.op = "replace" /\ at.value = op.value
      BY <1>2, <1>11
    <2>3. SpecOp(v, Resolved(at)) = SpecReplace(v, <<k>> \o p, op.value)
      BY <1>2, <1>4, <2>2, SpecOpIs, Zenon
    <2>4. SpecReplace(v, <<k>> \o p, op.value) = ReplaceChild(v, k, SpecReplace(u, p, op.value))
      BY <1>3, <1>5, <1>9, <2>1, ReplaceBelow DEF u
    <2> QED
      BY <1>7, <2>1, <2>3, <2>4, Zenon DEF at, u
  <1>12. CASE op.op = "remove"
    <2>1. SpecOp(u, Resolved(op)) = SpecRemove(u, p)
      BY <1>12, SpecOpIs, Zenon DEF p
    <2>2. at.op = "remove" /\ p # <<>>
      BY <1>2, <1>8, <1>12
    <2>3. SpecOp(v, Resolved(at)) = SpecRemove(v, <<k>> \o p)
      BY <1>2, <1>4, <2>2, SpecOpIs, Zenon
    <2>4. SpecRemove(v, <<k>> \o p) = ReplaceChild(v, k, SpecRemove(u, p))
      BY <1>3, <1>5, <1>9, <2>1, <2>2, RemoveBelow DEF u
    <2> QED
      BY <1>7, <2>1, <2>3, <2>4, Zenon DEF at, u
  <1> QED
    BY <1>1, <1>10, <1>11, <1>12
-----------------------------------------------------------------------------
(* The first of the places that are picked.                                *)

PartsAt(s, places) == [i \in DOMAIN s |-> IF i \in places THEN <<s[i]>> ELSE <<>>]

LEMMA PartsAre ==
  ASSUME NEW S, NEW s \in Seq(S), NEW places
  PROVE  /\ PartsAt(s, places) \in Seq(Seq(S)) /\ Len(PartsAt(s, places)) = Len(s)
         /\ \A i \in 1..Len(s) :
              PartsAt(s, places)[i] = IF i \in places THEN <<s[i]>> ELSE <<>>
  <1> DEFINE p == PartsAt(s, places)
  <1>1. DOMAIN s = 1..Len(s) /\ Len(s) \in Nat
    OBVIOUS
  <1>2. \A i \in 1..Len(s) : s[i] \in S
    OBVIOUS
  <1>3. ASSUME NEW i \in 1..Len(s) PROVE (IF i \in places THEN <<s[i]>> ELSE <<>>) \in Seq(S)
    <2>1. s[i] \in S
      BY <1>2
    <2> QED
      BY <2>1
  <1>4. p = [i \in 1..Len(s) |-> IF i \in places THEN <<s[i]>> ELSE <<>>]
    BY <1>1, Zenon DEF PartsAt
  <1>5. p \in [1..Len(s) -> Seq(S)]
    BY <1>3, <1>4, Zenon
  <1> HIDE DEF p
  <1>6. p \in Seq(Seq(S)) /\ Len(p) = Len(s)
    BY <1>1, <1>5
  <1>7. \A i \in 1..Len(s) : p[i] = IF i \in places THEN <<s[i]>> ELSE <<>>
    BY <1>4
  <1> QED
    BY <1>6, <1>7 DEF p

LEMMA AppendIs ==
  ASSUME NEW S, NEW s \in Seq(S), NEW x \in S
  PROVE  s \o <<x>> = Append(s, x) /\ s \o <<>> = s
  OBVIOUS

LEMMA ThoseFlat ==
  ASSUME NEW S, NEW s \in Seq(S), NEW places
  PROVE  Those(s, places) = FlattenSeq(PartsAt(s, places))
  <1> DEFINE l == Len(s)
             p == PartsAt(s, places)
             Is(f) == f = [n \in 0..l |-> IF n = 0 THEN <<>>
                                          ELSE IF n \in places THEN Append(f[n - 1], s[n])
                                          ELSE f[n - 1]]
  <1>1. l \in Nat /\ \A i \in 1..l : s[i] \in S
    OBVIOUS
  <1>2. p \in Seq(Seq(S)) /\ Len(p) = l /\ \A i \in 1..l : p[i] = IF i \in places THEN <<s[i]>> ELSE <<>>
    BY PartsAre
  <1> HIDE DEF p
  <1>3. PICK flat : Flattening(p, S, flat)
    BY <1>2, FlatIs
  <1>4. /\ flat[0] = <<>> /\ \A n \in 0..l : flat[n] \in Seq(S)
        /\ \A n \in 1..l : flat[n] = flat[n - 1] \o p[n]
        /\ FlattenSeq(p) = flat[l]
    BY <1>2, <1>3 DEF Flattening
  <1> HIDE DEF l
  <1>5. ASSUME NEW n \in 1..l
        PROVE  flat[n] = IF n \in places THEN Append(flat[n - 1], s[n]) ELSE flat[n - 1]
    <2>1. n - 1 \in 0..l
      BY <1>1
    <2>2. flat[n - 1] \in Seq(S) /\ s[n] \in S /\ flat[n] = flat[n - 1] \o p[n]
      BY <1>1, <1>4, <2>1
    <2> DEFINE start == flat[n - 1]
    <2>3. start \in Seq(S)
      BY <2>2
    <2> HIDE DEF start
    <2>4. start \o <<s[n]>> = Append(start, s[n]) /\ start \o <<>> = start
      BY <2>2, <2>3, AppendIs
    <2> QED
      BY <1>2, <2>2, <2>4 DEF start
  <1> DEFINE g == [n \in 0..l |-> flat[n]]
  <1>6. ASSUME NEW n \in 0..l
        PROVE  g[n] = IF n = 0 THEN <<>> ELSE IF n \in places THEN Append(g[n - 1], s[n]) ELSE g[n - 1]
    <2>1. CASE n = 0
      BY <1>1, <1>4, <2>1
    <2>2. CASE n # 0
      <3>1. n \in 1..l /\ n - 1 \in 0..l
        BY <1>1, <2>2
      <3>2. g[n] = flat[n] /\ g[n - 1] = flat[n - 1]
        BY <3>1
      <3> HIDE DEF g
      <3> QED
        BY <1>5, <2>2, <3>1, <3>2
    <2> QED
      BY <2>1, <2>2
  <1>7. Is(g)
    BY <1>6, Zenon
  <1> DEFINE those == CHOOSE h : Is(h)
  <1>8. Is(those)
    BY <1>7
  <1>9. Those(s, places) = those[l]
    BY Zenon DEF Those, l
  <1> HIDE DEF those, g
  <1>10. \A n \in 0..l : those[n] = IF n = 0 THEN <<>>
                                    ELSE IF n \in places THEN Append(those[n - 1], s[n])
                                    ELSE those[n - 1]
    BY <1>8, Zenon
  <1> DEFINE U == {n \in Nat : n <= l => those[n] = flat[n]}
  <1>11. 0 \in U
    BY <1>1, <1>4, <1>10
  <1>12. ASSUME NEW n \in Nat, n \in U PROVE n + 1 \in U
    <2> SUFFICES ASSUME n + 1 <= l PROVE those[n + 1] = flat[n + 1]
      OBVIOUS
    <2>1. n + 1 \in 0..l /\ n + 1 \in 1..l /\ n + 1 # 0 /\ n + 1 - 1 = n /\ n <= l
      BY <1>1
    <2>2. those[n + 1] = IF n + 1 \in places THEN Append(those[n], s[n + 1]) ELSE those[n]
      BY <1>10, <2>1
    <2>3. flat[n + 1] = IF n + 1 \in places THEN Append(flat[n], s[n + 1]) ELSE flat[n]
      BY <1>5, <2>1
    <2>4. those[n] = flat[n]
      BY <1>12, <2>1
    <2> QED
      BY <2>2, <2>3, <2>4
  <1> HIDE DEF U
  <1>13. \A n \in Nat : n \in U
    BY <1>11, <1>12, Induction
  <1>14. those[l] = flat[l]
    BY <1>1, <1>13 DEF U
  <1> QED
    BY <1>4, <1>9, <1>14 DEF p

\* Without it, the rest is picked.
LEMMA ThoseFirst ==
  ASSUME NEW S, NEW s \in Seq(S), NEW places, NEW m \in DOMAIN s, m \in places,
         \A i \in 1..m - 1 : i \notin places,
         NEW others, \A i \in DOMAIN s : i \in others <=> i \in places /\ i # m
  PROVE  /\ Those(s, places) # <<>> /\ Head(Those(s, places)) = s[m]
         /\ Those(s, others) = Tail(Those(s, places))
  <1> DEFINE p == PartsAt(s, places)
             q == PartsAt(s, others)
  <1>1. p \in Seq(Seq(S)) /\ Len(p) = Len(s)
        /\ \A i \in 1..Len(s) : p[i] = IF i \in places THEN <<s[i]>> ELSE <<>>
    BY PartsAre
  <1>2. q \in Seq(Seq(S)) /\ Len(q) = Len(s)
        /\ \A i \in 1..Len(s) : q[i] = IF i \in others THEN <<s[i]>> ELSE <<>>
    BY PartsAre
  <1>3. Len(s) \in Nat /\ DOMAIN s = 1..Len(s) /\ m \in 1..Len(s)
    OBVIOUS
  <1> HIDE DEF p, q
  <1>4. m \in DOMAIN p /\ Len(q) = Len(p)
    BY <1>1, <1>2, <1>3
  <1>5. p[m] = <<s[m]>> /\ q[m] = <<>>
    BY <1>1, <1>2, <1>3
  <1>6. p[m] # <<>> /\ q[m] = Tail(p[m]) /\ Head(p[m]) = s[m]
    BY <1>5
  <1>7. \A i \in 1..m - 1 : p[i] = <<>> /\ q[i] = <<>>
    <2>1. \A i \in 1..m - 1 : i \in 1..Len(s) /\ i \notin places /\ i \notin others
      BY <1>3
    <2> QED
      BY <1>1, <1>2, <2>1
  <1>8. \A i \in m + 1..Len(p) : q[i] = p[i]
    <2>1. ASSUME NEW i \in m + 1..Len(p) PROVE i \in 1..Len(s) /\ i # m
      BY <1>1, <1>3
    <2> QED
      BY <1>1, <1>2, <1>3, <2>1
  <1>9. /\ FlattenSeq(p) # <<>> /\ Head(FlattenSeq(p)) = Head(p[m])
        /\ FlattenSeq(q) = Tail(FlattenSeq(p))
    BY <1>1, <1>2, <1>4, <1>6, <1>7, <1>8, FlatFirst
  <1>10. Those(s, places) = FlattenSeq(p) /\ Those(s, others) = FlattenSeq(q)
    BY ThoseFlat DEF p, q
  <1> QED
    BY <1>6, <1>9, <1>10

-----------------------------------------------------------------------------
(* Tokens of items.                                                        *)

LEMMA IndexOfItem ==
  ASSUME NEW i \in 1..MaxIndex + 1
  PROVE  parseArrayIndex(Item(i)) + 1 = i /\ parseArrayIndex(Item(i)) \in 0..MaxIndex
         /\ Item(i) # "-"
  <1>1. MaxIndex \in Nat /\ Item(i) # "-"
    BY TokensAssumption
  <1>2. \A j \in 1..MaxIndex + 1 : Item(i) = Item(j) => i = j
    BY ItemIs
  <1> DEFINE n == parseArrayIndex(Item(i))
             Spells(k) == ToString(k) = Item(i)
  <1>3. i - 1 \in 0..MaxIndex /\ Spells(i - 1)
    BY <1>1 DEF Item
  <1>4. n = CHOOSE k \in 0..MaxIndex : Spells(k)
    BY <1>1, <1>3, Zenon DEF parseArrayIndex
  <1> HIDE DEF Spells, n
  <1>5. n \in 0..MaxIndex /\ Spells(n)
    BY <1>3, <1>4, Zenon
  <1>6. n + 1 \in 1..MaxIndex + 1 /\ n + 1 - 1 = n
    BY <1>1, <1>5
  <1>7. Item(n + 1) = Item(i)
    BY <1>5, <1>6 DEF Item, Spells
  <1>8. n + 1 = i
    BY <1>2, <1>6, <1>7
  <1> QED
    BY <1>1, <1>5, <1>8 DEF n

-----------------------------------------------------------------------------
(* Diffs between containers, equal or not.                                 *)

LEMMA SettledOps ==
  ASSUME NEW n \in 0..MaxDepth, NEW v \in Diffable[n], NEW w \in Diffable[n], valuesEqual(v, w),
         NEW k \in DOMAIN Spelling
  PROVE  diffOps(v, w) = <<>> /\ Beneath(k, diffOps(v, w)) = <<>>
  <1>1. v \in Sides(n) /\ w \in Sides(n)
    BY DEF Sides
  <1>2. diffOps(v, w) = <<>>
    BY <1>1, DiffOfOthers
  <1>3. diffOps(v, w) \in Seq(Operations)
    BY BelowTyped, Zenon DEF TypedBelow
  <1>4. Beneath(k, diffOps(v, w)) = <<>>
    BY <1>2, <1>3, BeneathIs
  <1> QED
    BY <1>2, <1>4

LEMMA FieldOpIs ==
  ASSUME NEW n \in 0..MaxDepth, NEW left \in DiffFields(Diffable[n]),
         NEW right \in DiffFields(Diffable[n]), NEW i \in DOMAIN right
  PROVE  /\ right[i].key \in KeysOf(left) =>
              /\ GetField(left, right[i].key) \in Diffable[n]
              /\ diffOps(GetField(left, right[i].key), right[i].value) \in Seq(Operations)
              /\ FieldOps(left, right)[i]
                   = Beneath(right[i].key, diffOps(GetField(left, right[i].key), right[i].value))
         /\ right[i].key \notin KeysOf(left) =>
              FieldOps(left, right)[i] = <<Add(Pointer(right[i].key), right[i].value)>>
         /\ right[i].key \in DOMAIN Spelling /\ right[i].key \in STRING
         /\ right[i].value \in Diffable[n] /\ right[i].key \in KeysOf(right)
         /\ right[i].key \in Range(SortedKeys)
  <1>1. /\ right[i].key \in DOMAIN Spelling /\ right[i].key \in STRING
        /\ right[i].value \in Diffable[n] /\ right[i].key \in KeysOf(right)
    BY DiffFieldsAre
  <1>5. right[i].key \in Range(SortedKeys)
    BY <1>1, DiffFieldsAre
  <1>2. right[i].key \in KeysOf(left) =>
          /\ GetField(left, right[i].key) \in Diffable[n]
          /\ FieldOps(left, right)[i]
               = Beneath(right[i].key, diffOps(GetField(left, right[i].key), right[i].value))
    BY DiffFieldsAre, Zenon DEF FieldOps
  <1>3. right[i].key \in KeysOf(left) =>
          diffOps(GetField(left, right[i].key), right[i].value) \in Seq(Operations)
    BY <1>1, <1>2, BelowTyped, Zenon DEF TypedBelow
  <1>4. right[i].key \notin KeysOf(left) =>
          FieldOps(left, right)[i] = <<Add(Pointer(right[i].key), right[i].value)>>
    BY Zenon DEF FieldOps, Pointer
  <1> QED
    BY <1>1, <1>2, <1>3, <1>4, <1>5

LEMMA EmptyRange ==
  ASSUME NEW E, NEW s \in Seq(E)
  PROVE  s = <<>> <=> Range(s) = {}
  <1>1. s = <<>> <=> DOMAIN s = {}
    OBVIOUS
  <1> QED
    BY <1>1 DEF Range

\* Nothing is to be done where nothing differs.
LEMMA SettledFields ==
  ASSUME NEW n \in 0..MaxDepth, NEW left \in DiffFields(Diffable[n]),
         NEW right \in DiffFields(Diffable[n]), KeysOf(left) = KeysOf(right),
         \A k \in KeysOf(left) : valuesEqual(GetField(left, k), GetField(right, k))
  PROVE  ObjectOps(left, right) = <<>>
  <1>1. /\ FieldOps(left, right) \in Seq(Seq(Operations))
        /\ Removals(left, right) \in Seq(Operations)
        /\ Len(Removals(left, right)) = Len(Gone(left, right))
    BY BelowTyped, FieldOpsTyped
  <1>2. DOMAIN FieldOps(left, right) = DOMAIN right
    BY Zenon DEF FieldOps
  <1>3. ASSUME NEW i \in DOMAIN right PROVE FieldOps(left, right)[i] = <<>>
    <2> DEFINE k == right[i].key
               old == GetField(left, k)
               value == right[i].value
    <2>1. k \in KeysOf(right) /\ GetField(right, k) = value /\ value \in Diffable[n] /\ k \in DOMAIN Spelling
      BY DiffFieldsAre
    <2>2. old \in Diffable[n] /\ FieldOps(left, right)[i] = Beneath(k, diffOps(old, value))
      BY <2>1, FieldOpIs
    <2>3. valuesEqual(old, value)
      BY <2>1, Zenon
    <2> HIDE DEF k, old, value
    <2> QED
      BY <2>1, <2>2, <2>3, SettledOps
  <1>4. FlattenSeq(FieldOps(left, right)) = <<>>
    BY <1>1, <1>2, <1>3, FlatEmpty
  <1>5. Gone(left, right) \in Seq(STRING) /\ Range(Gone(left, right)) = {}
    BY GoneIs
  <1>6. Gone(left, right) = <<>>
    BY <1>5, EmptyRange
  <1>7. Removals(left, right) = <<>>
    BY <1>1, <1>6
  <1> QED
    BY <1>1, <1>4, <1>7, HeadOfTwo DEF ObjectOps

LEMMA SettledItems ==
  ASSUME NEW n \in 0..MaxDepth, NEW left \in DiffItems(Diffable[n]),
         NEW right \in DiffItems(Diffable[n]), Len(left) = Len(right),
         \A i \in DOMAIN left : valuesEqual(left[i], right[i])
  PROVE  ArrayOps(left, right) = <<>>
  <1>1. /\ ItemOps(left, right) \in Seq(Seq(Operations))
        /\ Len(ItemOps(left, right)) = Shared(left, right)
        /\ Drops(left, right) \in Seq(Operations)
        /\ Len(Drops(left, right)) = Len(left) - Shared(left, right)
        /\ Extras(left, right) \in Seq(Operations)
        /\ Len(Extras(left, right)) = Len(right) - Shared(left, right)
    BY BelowTyped, ItemOpsTyped
  <1>2. /\ left \in Seq(Diffable[n]) /\ Len(left) \in Nat /\ Len(left) <= MaxIndex + 1
        /\ Shared(left, right) = Len(left)
        /\ \A i \in 1..Shared(left, right) : left[i] \in Diffable[n] /\ right[i] \in Diffable[n]
    BY SharedIs
  <1>3. ASSUME NEW i \in 1..Shared(left, right) PROVE ItemOps(left, right)[i] = <<>>
    <2>1. /\ left[i] \in Diffable[n] /\ right[i] \in Diffable[n] /\ i \in DOMAIN left
          /\ i \in 1..MaxIndex + 1
      BY <1>2, TokensAssumption
    <2>2. Item(i) \in DOMAIN Spelling
      BY <2>1, ItemIs
    <2>3. ItemOps(left, right)[i] = Beneath(Item(i), diffOps(left[i], right[i]))
      BY Zenon DEF ItemOps
    <2> DEFINE v == left[i]
               w == right[i]
    <2>4. v \in Diffable[n] /\ w \in Diffable[n] /\ valuesEqual(v, w)
      BY <2>1
    <2> HIDE DEF v, w
    <2>5. Beneath(Item(i), diffOps(v, w)) = <<>>
      BY <2>2, <2>4, SettledOps
    <2> QED
      BY <2>3, <2>5 DEF v, w
  <1>4. DOMAIN ItemOps(left, right) = 1..Shared(left, right)
    BY Zenon DEF ItemOps
  <1>5. FlattenSeq(ItemOps(left, right)) = <<>>
    BY <1>1, <1>3, <1>4, FlatEmpty
  <1>6. Drops(left, right) = <<>> /\ Extras(left, right) = <<>>
    BY <1>1, <1>2
  <1>7. FlattenSeq(ItemOps(left, right)) \o Drops(left, right) = <<>>
    BY <1>1, <1>5, <1>6, HeadOfTwo
  <1> QED
    BY <1>1, <1>6, <1>7, HeadOfTwo DEF ArrayOps

LEMMA AnyObjects ==
  ASSUME NEW n \in 0..MaxDepth, NEW a \in Diffable[n], a.kind = "object",
         NEW b \in Diffable[n], b.kind = "object"
  PROVE  diffOps(a, b) = ObjectOps(a.fields, b.fields)
  <1>1. CASE ~valuesEqual(a, b)
    BY <1>1, DiffOfObjects
  <1>2. CASE valuesEqual(a, b)
    <2>1. a \in Sides(n) /\ b \in Sides(n)
      BY DEF Sides
    <2>2. /\ n - 1 \in 0..MaxDepth
          /\ a.fields \in DiffFields(Diffable[n - 1]) /\ b.fields \in DiffFields(Diffable[n - 1])
      BY <2>1, ObjectSide
    <2>3. /\ KeysOf(a.fields) = KeysOf(b.fields)
          /\ \A k \in KeysOf(a.fields) : valuesEqual(GetField(a.fields, k), GetField(b.fields, k))
      BY <1>2, EqualObjects
    <2>4. ObjectOps(a.fields, b.fields) = <<>>
      BY <2>2, <2>3, SettledFields
    <2>5. diffOps(a, b) = <<>>
      BY <1>2, <2>1, DiffOfOthers
    <2> QED
      BY <2>4, <2>5
  <1> QED
    BY <1>1, <1>2

LEMMA AnyArrays ==
  ASSUME NEW n \in 0..MaxDepth, NEW a \in Diffable[n], a.kind = "array",
         NEW b \in Diffable[n], b.kind = "array"
  PROVE  diffOps(a, b) = ArrayOps(a.items, b.items)
  <1>1. CASE ~valuesEqual(a, b)
    BY <1>1, DiffOfArrays
  <1>2. CASE valuesEqual(a, b)
    <2>1. a \in Sides(n) /\ b \in Sides(n)
      BY DEF Sides
    <2>2. /\ n - 1 \in 0..MaxDepth
          /\ a.items \in DiffItems(Diffable[n - 1]) /\ b.items \in DiffItems(Diffable[n - 1])
      BY <2>1, ArraySide
    <2>3. /\ Len(a.items) = Len(b.items)
          /\ \A i \in DOMAIN a.items : valuesEqual(a.items[i], b.items[i])
      BY <1>2, EqualArrays
    <2>4. ArrayOps(a.items, b.items) = <<>>
      BY <2>2, <2>3, SettledItems
    <2>5. diffOps(a, b) = <<>>
      BY <1>2, <2>1, DiffOfOthers
    <2> QED
      BY <2>4, <2>5
  <1> QED
    BY <1>1, <1>2

-----------------------------------------------------------------------------
(* One operation on an object.                                             *)

LEMMA DiffFieldSet ==
  ASSUME NEW n \in 0..MaxDepth, NEW left \in DiffFields(Diffable[n]),
         NEW key \in Range(SortedKeys), NEW x \in Diffable[n]
  PROVE  LET new == setField(left, key, x)
         IN  /\ new \in DiffFields(Diffable[n]) /\ KeysOf(new) = KeysOf(left) \cup {key}
             /\ GetField(new, key) = x
             /\ \A k : k # key => GetField(new, k) = GetField(left, k)
  <1> DEFINE K == STRING
             new == setField(left, key, x)
  <1>1. key \in K
    <2>1. \A i \in DOMAIN SortedKeys : SortedKeys[i] \in K
      <3> HIDE DEF K
      <3>1. SortedKeys \in Seq(K)
        BY SortedKeysAre DEF K
      <3> QED
        BY <3>1
    <2> QED
      BY <2>1, SortedKeysAre
  <1>2. left \in Seq(FieldsOf(K, Diffable[n])) /\ Distinct(left)
    BY DiffFieldsAre
  <1>3. KeysOf(left) \subseteq Range(SortedKeys)
    BY DiffFieldsAre
  <1> HIDE DEF K
  <1>4. /\ new \in Seq(FieldsOf(K, Diffable[n])) /\ Distinct(new)
        /\ KeysOf(new) = KeysOf(left) \cup {key}
        /\ GetField(new, key) = x
        /\ \A k : k # key => GetField(new, k) = GetField(left, k)
    BY <1>1, <1>2, SetFieldKeepsTheOthers
  <1> HIDE DEF new
  <1>5. KeysOf(new) \subseteq Range(SortedKeys)
    BY <1>3, <1>4
  <1>6. new \in DiffFields(Diffable[n])
    BY <1>4, <1>5, Zenon DEF DiffFields, K
  <1> QED
    BY <1>4, <1>6 DEF new

LEMMA DiffFieldRemoved ==
  ASSUME NEW n \in 0..MaxDepth, NEW left \in DiffFields(Diffable[n]), NEW key
  PROVE  LET new == removeField(left, key)
         IN  /\ new \in DiffFields(Diffable[n]) /\ KeysOf(new) = KeysOf(left) \ {key}
             /\ \A k : k # key => GetField(new, k) = GetField(left, k)
  <1> DEFINE K == STRING
             new == removeField(left, key)
  <1>1. /\ left \in Seq(FieldsOf(K, Diffable[n])) /\ Distinct(left)
        /\ KeysOf(left) \subseteq Range(SortedKeys)
    BY DiffFieldsAre
  <1> HIDE DEF K
  <1>2. /\ new \in Seq(FieldsOf(K, Diffable[n])) /\ Distinct(new)
        /\ KeysOf(new) = KeysOf(left) \ {key}
        /\ \A k : k # key => GetField(new, k) = GetField(left, k)
    BY <1>1, RemoveFieldKeepsTheOthers
  <1> HIDE DEF new
  <1>3. KeysOf(new) \subseteq Range(SortedKeys)
    BY <1>1, <1>2
  <1>4. new \in DiffFields(Diffable[n])
    BY <1>2, <1>3, Zenon DEF DiffFields, K
  <1> QED
    BY <1>2, <1>4 DEF new

\* Where other fields were changed, an operation stays as it is.
LEMMA FieldOpKept ==
  ASSUME NEW n \in 0..MaxDepth, NEW left \in DiffFields(Diffable[n]),
         NEW new \in DiffFields(Diffable[n]), NEW right \in DiffFields(Diffable[n]),
         NEW i \in DOMAIN right,
         right[i].key \in KeysOf(new) <=> right[i].key \in KeysOf(left),
         GetField(new, right[i].key) = GetField(left, right[i].key)
  PROVE  FieldOps(new, right)[i] = FieldOps(left, right)[i]
  <1>1. CASE right[i].key \in KeysOf(left)
    <2>1. FieldOps(left, right)[i]
            = Beneath(right[i].key, diffOps(GetField(left, right[i].key), right[i].value))
      BY <1>1, FieldOpIs
    <2>2. FieldOps(new, right)[i]
            = Beneath(right[i].key, diffOps(GetField(new, right[i].key), right[i].value))
      BY <1>1, FieldOpIs
    <2> QED
      BY <2>1, <2>2, Zenon
  <1>2. CASE right[i].key \notin KeysOf(left)
    <2>1. FieldOps(left, right)[i] = <<Add(Pointer(right[i].key), right[i].value)>>
      BY <1>2, FieldOpIs
    <2>2. FieldOps(new, right)[i] = <<Add(Pointer(right[i].key), right[i].value)>>
      BY <1>2, FieldOpIs
    <2> QED
      BY <2>1, <2>2, Zenon
  <1> QED
    BY <1>1, <1>2

LEMMA SameGone ==
  ASSUME NEW n \in 0..MaxDepth, NEW left \in DiffFields(Diffable[n]),
         NEW new \in DiffFields(Diffable[n]), NEW right \in DiffFields(Diffable[n]),
         KeysOf(new) \ KeysOf(right) = KeysOf(left) \ KeysOf(right)
  PROVE  Gone(new, right) = Gone(left, right) /\ Removals(new, right) = Removals(left, right)
  <1> DEFINE P(fields) == {i \in DOMAIN SortedKeys : SortedKeys[i] \in KeysOf(fields) \ KeysOf(right)}
  <1>1. Gone(left, right) = Those(SortedKeys, P(left)) /\ Gone(new, right) = Those(SortedKeys, P(new))
    BY GoneIs
  <1>2. P(new) = P(left)
    BY Zenon
  <1> HIDE DEF P
  <1>3. Gone(new, right) = Gone(left, right)
    BY <1>1, <1>2, Zenon
  <1> QED
    BY <1>3, Zenon DEF Removals

LEMMA OneElement ==
  ASSUME NEW x
  PROVE  <<x>> # <<>> /\ Head(<<x>>) = x /\ Tail(<<x>>) = <<>>
  OBVIOUS

\* What is left to do when the first field that differs was made to differ less.
LEMMA FieldMoved ==
  ASSUME NEW n \in 0..MaxDepth, NEW left \in DiffFields(Diffable[n]),
         NEW right \in DiffFields(Diffable[n]), NEW m \in DOMAIN right,
         \A i \in 1..m - 1 : FieldOps(left, right)[i] = <<>>,
         NEW new \in DiffFields(Diffable[n]),
         KeysOf(new) = KeysOf(left) \cup {right[m].key},
         \A k : k # right[m].key => GetField(new, k) = GetField(left, k),
         FieldOps(left, right)[m] # <<>>,
         FieldOps(new, right)[m] = Tail(FieldOps(left, right)[m])
  PROVE  /\ ObjectOps(left, right) # <<>>
         /\ Head(ObjectOps(left, right)) = Head(FieldOps(left, right)[m])
         /\ ObjectOps(new, right) = Tail(ObjectOps(left, right))
  <1> DEFINE old == FieldOps(left, right)
             now == FieldOps(new, right)
             gone == Removals(left, right)
  <1>1. /\ old \in Seq(Seq(Operations)) /\ Len(old) = Len(right)
        /\ gone \in Seq(Operations)
    BY BelowTyped, FieldOpsTyped
  <1>2. now \in Seq(Seq(Operations)) /\ Len(now) = Len(right)
    BY BelowTyped, FieldOpsTyped
  <1>3. right \in Seq(FieldsOf(STRING, Diffable[n])) /\ Distinct(right)
    BY DiffFieldsAre
  <1>4. Len(right) \in Nat /\ DOMAIN right = 1..Len(right) /\ m \in 1..Len(right)
    BY <1>3
  <1>5. ASSUME NEW i \in DOMAIN right, i # m PROVE now[i] = old[i]
    <2>1. right[i].key # right[m].key
      BY <1>3, <1>5 DEF Distinct
    <2>2. /\ right[i].key \in KeysOf(new) <=> right[i].key \in KeysOf(left)
          /\ GetField(new, right[i].key) = GetField(left, right[i].key)
      BY <2>1
    <2> QED
      BY <2>2, FieldOpKept
  <1>6. Removals(new, right) = gone
    <2>1. right[m].key \in KeysOf(right)
      BY FieldOpIs
    <2>2. KeysOf(new) \ KeysOf(right) = KeysOf(left) \ KeysOf(right)
      BY <2>1
    <2> QED
      BY <2>2, SameGone
  <1>7. \A i \in 1..m - 1 : old[i] = <<>> /\ now[i] = <<>>
    <2>1. ASSUME NEW i \in 1..m - 1 PROVE i \in DOMAIN right /\ i # m
      BY <1>4
    <2> QED
      BY <1>5, <2>1
  <1>8. \A i \in m + 1..Len(old) : now[i] = old[i]
    <2>1. ASSUME NEW i \in m + 1..Len(old) PROVE i \in DOMAIN right /\ i # m
      BY <1>1, <1>4
    <2> QED
      BY <1>5, <2>1
  <1>9. old[m] # <<>> /\ now[m] = Tail(old[m])
    OBVIOUS
  <1> HIDE DEF old, now, gone
  <1>10. m \in DOMAIN old /\ Len(now) = Len(old)
    BY <1>1, <1>2, <1>4
  <1>11. /\ FlattenSeq(old) # <<>> /\ Head(FlattenSeq(old)) = Head(old[m])
         /\ FlattenSeq(now) = Tail(FlattenSeq(old))
    BY <1>1, <1>2, <1>7, <1>8, <1>9, <1>10, FlatFirst
  <1>12. FlattenSeq(old) \in Seq(Operations)
    BY <1>1, FlatEmpty
  <1>13. ObjectOps(left, right) = FlattenSeq(old) \o gone /\ ObjectOps(new, right) = FlattenSeq(now) \o gone
    BY <1>6, Zenon DEF ObjectOps, old, now, gone
  <1> DEFINE s == FlattenSeq(old)
  <1>14. s \in Seq(Operations) /\ s # <<>>
    BY <1>11, <1>12
  <1> HIDE DEF s
  <1>15. s \o gone # <<>>
    BY <1>1, <1>14, HeadOfTwo
  <1>16. Head(s \o gone) = Head(s)
    BY <1>1, <1>14, HeadOfTwo
  <1>17. Tail(s \o gone) = Tail(s) \o gone
    BY <1>1, <1>14, TailOfTwo
  <1> QED
    BY <1>11, <1>13, <1>15, <1>16, <1>17, Zenon DEF s, old

LEMMA FieldAdded ==
  ASSUME NEW n \in 0..MaxDepth, NEW left \in DiffFields(Diffable[n]),
         NEW right \in DiffFields(Diffable[n]), NEW m \in DOMAIN right,
         right[m].key \notin KeysOf(left)
  PROVE  LET new == setField(left, right[m].key, right[m].value)
         IN  FieldOps(left, right)[m] # <<>> /\ FieldOps(new, right)[m] = Tail(FieldOps(left, right)[m])
  <1> DEFINE key == right[m].key
             w == right[m].value
             new == setField(left, key, w)
  <1>1. key \in Range(SortedKeys) /\ w \in Diffable[n] /\ key \in DOMAIN Spelling
    BY FieldOpIs
  <1>2. new \in DiffFields(Diffable[n]) /\ KeysOf(new) = KeysOf(left) \cup {key} /\ GetField(new, key) = w
    BY <1>1, DiffFieldSet
  <1>3. FieldOps(left, right)[m] = <<Add(Pointer(key), w)>>
    BY FieldOpIs
  <1> HIDE DEF new
  <1>4. key \in KeysOf(new)
    BY <1>2
  <1>5. FieldOps(new, right)[m] = Beneath(key, diffOps(GetField(new, key), w))
    BY <1>2, <1>4, FieldOpIs
  <1>6. w \in Sides(n)
    BY <1>1 DEF Sides
  <1>7. valuesEqual(w, w)
    BY <1>6, EqualItself
  <1> HIDE DEF key, w
  <1>8. Beneath(key, diffOps(w, w)) = <<>>
    BY <1>1, <1>7, SettledOps
  <1>9. FieldOps(new, right)[m] = <<>>
    BY <1>2, <1>5, <1>8, Zenon
  <1> DEFINE op == Add(Pointer(key), w)
  <1>10. FieldOps(left, right)[m] = <<op>>
    BY <1>3
  <1> HIDE DEF op
  <1>11. FieldOps(left, right)[m] # <<>> /\ FieldOps(new, right)[m] = Tail(FieldOps(left, right)[m])
    BY <1>9, <1>10, OneElement
  <1> QED
    BY <1>11 DEF new, key, w

LEMMA FieldChanged ==
  ASSUME NEW n \in 0..MaxDepth, NEW left \in DiffFields(Diffable[n]),
         NEW right \in DiffFields(Diffable[n]), NEW m \in DOMAIN right,
         right[m].key \in KeysOf(left), NEW x \in Diffable[n],
         diffOps(GetField(left, right[m].key), right[m].value) # <<>>,
         diffOps(x, right[m].value) = Tail(diffOps(GetField(left, right[m].key), right[m].value))
  PROVE  LET new == setField(left, right[m].key, x)
         IN  FieldOps(left, right)[m] # <<>> /\ FieldOps(new, right)[m] = Tail(FieldOps(left, right)[m])
  <1> DEFINE key == right[m].key
             w == right[m].value
             new == setField(left, key, x)
             ops1 == diffOps(GetField(left, key), w)
  <1>1. key \in Range(SortedKeys) /\ w \in Diffable[n] /\ key \in DOMAIN Spelling
    BY FieldOpIs
  <1>2. new \in DiffFields(Diffable[n]) /\ KeysOf(new) = KeysOf(left) \cup {key} /\ GetField(new, key) = x
    BY <1>1, DiffFieldSet
  <1>3. FieldOps(left, right)[m] = Beneath(key, ops1) /\ ops1 \in Seq(Operations)
    BY FieldOpIs
  <1> HIDE DEF new
  <1>4. key \in KeysOf(new)
    BY <1>2
  <1>5. FieldOps(new, right)[m] = Beneath(key, diffOps(GetField(new, key), w))
    BY <1>2, <1>4, FieldOpIs
  <1>6. FieldOps(new, right)[m] = Beneath(key, Tail(ops1))
    BY <1>2, <1>5, Zenon
  <1>7. ops1 # <<>>
    OBVIOUS
  <1> HIDE DEF ops1, key
  <1>8. Beneath(key, ops1) # <<>> /\ Beneath(key, Tail(ops1)) = Tail(Beneath(key, ops1))
    BY <1>1, <1>3, <1>7, BeneathIs
  <1>9. FieldOps(left, right)[m] # <<>> /\ FieldOps(new, right)[m] = Tail(FieldOps(left, right)[m])
    BY <1>3, <1>6, <1>8, Zenon
  <1> QED
    BY <1>9 DEF new, key

LEMMA NotInvalid ==
  /\ \A n \in 0..MaxDepth : \A v \in Diffable[n] : v.kind \notin {"void", "invalid"}
  /\ \A n \in 0..MaxDepth : Invalid \notin Sides(n)
  <1>1. ASSUME NEW n \in 0..MaxDepth, NEW v \in Diffable[n] PROVE v.kind \notin {"void", "invalid"}
    <2>1. ~IsVoid(v) /\ (~IsContainer(v) => v \in DiffScalars)
      BY DiffableShape
    <2>2. CASE IsContainer(v)
      BY <2>2 DEF IsContainer
    <2>3. CASE ~IsContainer(v)
      <3>1. v \in ScalarValues
        BY <2>1, <2>3, DiffScalarIs
      <3>2. v.kind # "invalid"
        <4>1. Null.kind = "null" /\ Void.kind = "void"
          BY DEF Null, Void, Scalar
        <4> HIDE DEF Void, Null
        <4>2. v.kind \in {"void", "null", "boolean", "number", "string"}
          BY <3>1, <4>1 DEF ScalarValues
        <4> QED
          BY <4>2
      <3> QED
        BY <2>1, <3>2 DEF IsVoid
    <2> QED
      BY <2>2, <2>3
  <1>2. Invalid.kind = "invalid" /\ Void.kind = "void"
    BY DEF Invalid, Void, Scalar
  <1>3. \A n \in 0..MaxDepth : Invalid \notin Sides(n)
    <2>1. ASSUME NEW n \in 0..MaxDepth, Invalid \in Sides(n) PROVE FALSE
      <3>1. Invalid \notin Diffable[n]
        BY <1>1, <1>2
      <3>2. Invalid = Void
        BY <2>1, <3>1 DEF Sides
      <3> QED
        BY <1>2, <3>2
    <2> QED
      BY <2>1
  <1> QED
    BY <1>1, <1>3

\* What one operation of a diff leads to.
Moved(n, l, r) ==
  LET op  == Head(diffOps(l, r))
      new == SpecOp(l, Resolved(op))
  IN  /\ new \in Sides(n)
      /\ diffOps(new, r) = Tail(diffOps(l, r))
      /\ ~IsVoid(r) => ~IsVoid(new)
      /\ ~IsVoid(l) /\ ~IsVoid(r) => Inside(op)

MovesBelow(n) == \A v, w \in Diffable[n] : diffOps(v, w) # <<>> => Moved(n, v, w)

LEMMA PartMoves ==
  ASSUME NEW n \in 0..MaxDepth, MovesBelow(n), NEW v \in Diffable[n], NEW w \in Diffable[n],
         diffOps(v, w) # <<>>
  PROVE  LET op  == Head(diffOps(v, w))
             new == SpecOp(v, Resolved(op))
         IN  /\ op \in Operations /\ Inside(op)
             /\ new \in Diffable[n] /\ new # Invalid
             /\ diffOps(new, w) = Tail(diffOps(v, w))
  <1> DEFINE op == Head(diffOps(v, w))
             new == SpecOp(v, Resolved(op))
  <1>1. Moved(n, v, w)
    BY Zenon DEF MovesBelow
  <1>2. ~IsVoid(v) /\ ~IsVoid(w)
    BY DiffableShape
  <1>3. /\ new \in Sides(n) /\ ~IsVoid(new) /\ Inside(op)
        /\ diffOps(new, w) = Tail(diffOps(v, w))
    BY <1>1, <1>2, Zenon DEF Moved
  <1>4. diffOps(v, w) \in Seq(Operations)
    BY BelowTyped, Zenon DEF TypedBelow
  <1>5. op \in Operations
    <2> DEFINE s == diffOps(v, w)
    <2>1. s \in Seq(Operations) /\ s # <<>>
      BY <1>4
    <2> HIDE DEF s
    <2>2. Head(s) \in Operations
      BY <2>1
    <2> QED
      BY <2>2 DEF s
  <1> HIDE DEF new, op
  <1>6. new # Invalid
    BY <1>3, NotInvalid, Zenon
  <1>7. new \in Diffable[n]
    BY <1>3, VoidIsVoid, Zenon DEF Sides
  <1> QED
    BY <1>3, <1>5, <1>6, <1>7, Zenon DEF new, op

\* Containers are values.
LEMMA ObjectValue ==
  ASSUME NEW n \in 0..MaxDepth, n + 1 \in 0..MaxDepth, NEW fields \in DiffFields(Diffable[n])
  PROVE  LET v == Object(fields)
         IN  /\ v \in Diffable[n + 1] /\ v \in Values /\ v.kind = "object" /\ v.fields = fields
             /\ \A k : ChildAt(v, k) = GetField(fields, k)
             /\ \A k, x : ReplaceChild(v, k, x) = Object(setField(fields, k, x))
  <1> DEFINE v == Object(fields)
  <1>1. v \in Diffable[n + 1]
    BY SideFromFields
  <1>2. v.kind = "object" /\ v.fields = fields
    BY DEF Object
  <1>3. v \in Values
    BY <1>1, DiffableWithin DEF Values, Sides
  <1> HIDE DEF v
  <1>4. \A k : ChildAt(v, k) = GetField(fields, k)
    BY <1>2, Zenon DEF ChildAt
  <1>5. \A k, x : ReplaceChild(v, k, x) = Object(setField(fields, k, x))
    BY <1>2, Zenon DEF ReplaceChild
  <1> QED
    BY <1>1, <1>2, <1>3, <1>4, <1>5 DEF v

LEMMA PresentField ==
  ASSUME NEW n \in 0..MaxDepth, NEW fields \in DiffFields(Diffable[n]), NEW k \in KeysOf(fields)
  PROVE  GetField(fields, k) \in Diffable[n] /\ ~IsVoid(GetField(fields, k))
  <1>1. GetField(fields, k) \in Diffable[n]
    BY DiffFieldsAre
  <1> QED
    BY <1>1, DiffableShape

\* An operation on an object leaves the rest of its diff to be done.
ObjectMoved(n, left, right) ==
  LET op == Head(ObjectOps(left, right))
  IN  \E new \in DiffFields(Diffable[n]) :
        /\ SpecOp(Object(left), Resolved(op)) = Object(new)
        /\ ObjectOps(new, right) = Tail(ObjectOps(left, right))
        /\ Inside(op)

LEMMA AddAtToken ==
  ASSUME NEW v \in Values, NEW k \in DOMAIN Spelling, NEW x \in Diffable[MaxDepth]
  PROVE  LET op == Add(Pointer(k), x)
         IN  SpecOp(v, Resolved(op)) = Inserted(v, k, x) /\ Inside(op)
  <1> DEFINE op == Add(Pointer(k), x)
  <1>1. Pointer(k) \in Pointers /\ ParseJSONPointer(Pointer(k)) = <<k>>
    BY PointerAlone
  <1>2. op \in Operations
    BY <1>1, OperationsAre
  <1>3. op.op = "add" /\ op.path = Pointer(k) /\ op.value = x
    BY DEF Add
  <1> HIDE DEF op
  <1>4. SpecOp(v, Resolved(op)) = SpecAdd(v, <<k>>, x)
    BY <1>1, <1>2, <1>3, SpecOpIs
  <1>5. x.kind \notin {"void", "invalid"}
    BY NotInvalid, DepthAssumption
  <1>6. SpecAdd(v, <<k>>, x) = Inserted(v, k, x)
    BY <1>5, SpecAtToken
  <1>7. Inside(op)
    BY <1>1, <1>3, OneElement DEF Inside
  <1> QED
    BY <1>4, <1>6, <1>7 DEF op

LEMMA DeleteAtToken ==
  ASSUME NEW v \in Values, NEW k \in DOMAIN Spelling
  PROVE  LET op == Delete(Pointer(k))
         IN  SpecOp(v, Resolved(op)) = Deleted(v, k) /\ Inside(op)
  <1> DEFINE op == Delete(Pointer(k))
  <1>1. Pointer(k) \in Pointers /\ ParseJSONPointer(Pointer(k)) = <<k>>
    BY PointerAlone
  <1>2. op \in Operations
    BY <1>1, OperationsAre
  <1>3. op.op = "remove" /\ op.path = Pointer(k)
    BY DEF Delete
  <1> HIDE DEF op
  <1>4. SpecOp(v, Resolved(op)) = SpecRemove(v, <<k>>)
    BY <1>1, <1>2, <1>3, SpecOpIs
  <1>5. SpecRemove(v, <<k>>) = Deleted(v, k)
    BY SpecAtToken
  <1>6. Inside(op)
    BY <1>1, <1>3, OneElement DEF Inside
  <1> QED
    BY <1>4, <1>5, <1>6 DEF op

LEMMA ObjectFieldMoves ==
  ASSUME NEW n \in 0..MaxDepth, n + 1 \in 0..MaxDepth, MovesBelow(n),
         NEW left \in DiffFields(Diffable[n]), NEW right \in DiffFields(Diffable[n]),
         NEW m \in DOMAIN right, FieldOps(left, right)[m] # <<>>,
         \A i \in 1..m - 1 : FieldOps(left, right)[i] = <<>>
  PROVE  ObjectMoved(n, left, right)
  <1> DEFINE key == right[m].key
             w == right[m].value
             v == Object(left)
             op == Head(FieldOps(left, right)[m])
  <1>1. key \in Range(SortedKeys) /\ w \in Diffable[n] /\ key \in DOMAIN Spelling
    BY FieldOpIs
  <1>2. /\ v \in Values /\ v.kind = "object" /\ v.fields = left
        /\ \A k : ChildAt(v, k) = GetField(left, k)
        /\ \A k, x : ReplaceChild(v, k, x) = Object(setField(left, k, x))
    BY ObjectValue
  <1>3. ASSUME NEW x \in Diffable[n],
               FieldOps(setField(left, key, x), right)[m] = Tail(FieldOps(left, right)[m]),
               SpecOp(v, Resolved(op)) = Object(setField(left, key, x)), Inside(op)
        PROVE  ObjectMoved(n, left, right)
    <2> DEFINE new == setField(left, key, x)
    <2>1. /\ new \in DiffFields(Diffable[n]) /\ KeysOf(new) = KeysOf(left) \cup {key}
          /\ \A k : k # key => GetField(new, k) = GetField(left, k)
      BY <1>1, <1>3, DiffFieldSet
    <2>2. FieldOps(new, right)[m] = Tail(FieldOps(left, right)[m])
      BY <1>3
    <2>3. SpecOp(v, Resolved(op)) = Object(new)
      BY <1>3
    <2> HIDE DEF new
    <2>4. /\ Head(ObjectOps(left, right)) = op
          /\ ObjectOps(new, right) = Tail(ObjectOps(left, right))
      BY <2>1, <2>2, FieldMoved
    <2> QED
      BY <1>3, <2>1, <2>3, <2>4, Zenon DEF ObjectMoved
  <1>4. CASE key \notin KeysOf(left)
    <2>1. FieldOps(left, right)[m] = <<Add(Pointer(key), w)>>
      BY <1>4, FieldOpIs
    <2>2. op = Add(Pointer(key), w)
      BY <2>1, OneElement
    <2>3. w \in Diffable[MaxDepth]
      BY <1>1, DiffableWithin
    <2> DEFINE add == Add(Pointer(key), w)
    <2>4. SpecOp(v, Resolved(add)) = Inserted(v, key, w) /\ Inside(add)
      BY <1>1, <1>2, <2>3, AddAtToken
    <2>5. Inserted(v, key, w) = Object(setField(left, key, w))
      BY <1>2, Zenon DEF Inserted
    <2>6. FieldOps(setField(left, key, w), right)[m] = Tail(FieldOps(left, right)[m])
      BY <1>4, FieldAdded
    <2> HIDE DEF add
    <2>7. SpecOp(v, Resolved(op)) = Object(setField(left, key, w)) /\ Inside(op)
      BY <2>2, <2>4, <2>5, Zenon DEF add
    <2> HIDE DEF op, v, key, w
    <2> QED
      BY <1>1, <1>3, <2>6, <2>7
  <1>5. CASE key \in KeysOf(left)
    <2> DEFINE u == GetField(left, key)
               part == Head(diffOps(u, w))
               x == SpecOp(u, Resolved(part))
    <2>1. u \in Diffable[n] /\ ~IsVoid(u)
      BY <1>5, PresentField
    <2>2. diffOps(u, w) \in Seq(Operations) /\ FieldOps(left, right)[m] = Beneath(key, diffOps(u, w))
      BY <1>5, FieldOpIs
    <2>3. /\ diffOps(u, w) # <<>> /\ op = AtPart(key, part)
      <3>1. Beneath(key, diffOps(u, w)) # <<>>
        BY <2>2
      <3> DEFINE s == diffOps(u, w)
      <3>2. s \in Seq(Operations) /\ Beneath(key, s) # <<>>
        BY <2>2, <3>1
      <3> HIDE DEF s, key
      <3>3. s # <<>> /\ Head(Beneath(key, s)) = AtPart(key, Head(s))
        BY <1>1, <3>2, BeneathIs
      <3> QED
        BY <2>2, <3>3 DEF s, key
    <2>4. /\ part \in Operations /\ Inside(part) /\ x \in Diffable[n] /\ x # Invalid
          /\ diffOps(x, w) = Tail(diffOps(u, w))
      BY <1>1, <2>1, <2>3, PartMoves
    <2>5. ChildAt(v, key) = u
      BY <1>2
    <2>6. FieldOps(setField(left, key, x), right)[m] = Tail(FieldOps(left, right)[m])
      <3> HIDE DEF x
      <3> QED
        BY <1>5, <2>3, <2>4, FieldChanged
    <2> HIDE DEF part, u, v, op
    <2>7. SpecOp(v, Resolved(AtPart(key, part))) = ReplaceChild(v, key, x) /\ Inside(AtPart(key, part))
      BY <1>1, <1>2, <2>1, <2>4, <2>5, OperationBelow
    <2> HIDE DEF x
    <2>8. SpecOp(v, Resolved(op)) = Object(setField(left, key, x)) /\ Inside(op)
      BY <1>2, <2>3, <2>7, Zenon
    <2> HIDE DEF key, w
    <2> QED
      BY <1>3, <2>4, <2>6, <2>8
  <1> QED
    BY <1>4, <1>5

\* The first of the keys that are gone.
LEMMA GoneFirst ==
  ASSUME NEW n \in 0..MaxDepth, NEW left \in DiffFields(Diffable[n]),
         NEW right \in DiffFields(Diffable[n]), Gone(left, right) # <<>>
  PROVE  LET key == Head(Gone(left, right))
         IN  /\ key \in KeysOf(left) \ KeysOf(right) /\ key \in DOMAIN Spelling
             /\ \A new \in DiffFields(Diffable[n]) :
                  KeysOf(new) = KeysOf(left) \ {key} => Gone(new, right) = Tail(Gone(left, right))
  <1> DEFINE E == STRING
             s == SortedKeys
             P(fields) == {i \in DOMAIN s : s[i] \in KeysOf(fields) \ KeysOf(right)}
             gone == Gone(left, right)
  <1>1. s \in Seq(E) /\ \A i \in DOMAIN s : s[i] \in DOMAIN Spelling
    BY SortedKeysAre
  <1>2. /\ \A fields \in DiffFields(Diffable[n]) : Gone(fields, right) = Those(s, P(fields))
        /\ gone \in Seq(E) /\ Range(gone) = KeysOf(left) \ KeysOf(right)
    BY GoneIs
  <1>13. \A i, j \in DOMAIN s : s[i] = s[j] => i = j
    BY TokensAssumption
  <1> HIDE DEF E, s
  <1>3. P(left) # {}
    <2>1. Range(gone) # {}
      <3>1. gone # <<>>
        OBVIOUS
      <3> HIDE DEF gone
      <3> QED
        BY <1>2, <3>1, EmptyRange
    <2>2. PICK k \in KeysOf(left) \ KeysOf(right) : TRUE
      BY <1>2, <2>1
    <2>3. k \in Range(SortedKeys)
      BY <2>2, DiffFieldsAre
    <2>4. PICK i \in DOMAIN SortedKeys : SortedKeys[i] = k
      BY <2>3, SortedKeysAre
    <2> QED
      BY <2>2, <2>4 DEF s
  <1>4. Len(s) \in Nat /\ DOMAIN s = 1..Len(s)
    BY <1>1
  <1>5. PICK m \in P(left) : \A i \in 1..m - 1 : i \notin P(left)
    <2> DEFINE I == P(left)
    <2>1. I \subseteq 1..Len(s) /\ I # {}
      BY <1>3, <1>4
    <2> HIDE DEF I
    <2>2. \E j \in I : \A i \in 1..j - 1 : i \notin I
      BY <1>4, <2>1, FirstPlace
    <2> QED
      BY <2>2 DEF I
  <1>6. m \in DOMAIN s /\ s[m] \in KeysOf(left) \ KeysOf(right)
    BY <1>5
  <1>7. ASSUME NEW others, \A i \in DOMAIN s : i \in others <=> i \in P(left) /\ i # m
        PROVE  /\ Those(s, P(left)) # <<>> /\ Head(Those(s, P(left))) = s[m]
               /\ Those(s, others) = Tail(Those(s, P(left)))
    <2> DEFINE I == P(left)
    <2>1. m \in I
      OBVIOUS
    <2>3. \A i \in 1..m - 1 : i \notin I
      BY <1>5
    <2>4. \A i \in DOMAIN s : i \in others <=> i \in I /\ i # m
      BY <1>7
    <2>5. m \in DOMAIN s /\ s \in Seq(E)
      BY <1>1, <1>6
    <2> HIDE DEF I, P
    <2>2. /\ Those(s, I) # <<>> /\ Head(Those(s, I)) = s[m]
          /\ Those(s, others) = Tail(Those(s, I))
      BY <2>1, <2>3, <2>4, <2>5, ThoseFirst
    <2> QED
      BY <2>2 DEF I
  <1>8. Head(gone) = s[m]
    <2> DEFINE others == {i \in P(left) : i # m}
    <2>1. \A i \in DOMAIN s : i \in others <=> i \in P(left) /\ i # m
      OBVIOUS
    <2> HIDE DEF others, P
    <2>2. Head(Those(s, P(left))) = s[m]
      BY <1>7, <2>1
    <2> QED
      BY <1>2, <2>2
  <1>9. ASSUME NEW new \in DiffFields(Diffable[n]), KeysOf(new) = KeysOf(left) \ {s[m]}
        PROVE  Gone(new, right) = Tail(gone)
    <2>1. ASSUME NEW i \in DOMAIN s PROVE i \in P(new) <=> i \in P(left) /\ i # m
      <3>1. s[i] = s[m] <=> i = m
        BY <1>6, <1>13
      <3> QED
        BY <1>9, <3>1
    <2> DEFINE others == P(new)
    <2>2. \A i \in DOMAIN s : i \in others <=> i \in P(left) /\ i # m
      BY <2>1
    <2>3. Gone(new, right) = Those(s, others)
      BY <1>2
    <2> HIDE DEF others, P
    <2>4. Those(s, others) = Tail(Those(s, P(left)))
      BY <1>7, <2>2
    <2> QED
      BY <1>2, <2>3, <2>4
  <1> HIDE DEF gone
  <1>10. s[m] \in DOMAIN Spelling
    BY <1>1, <1>6
  <1>11. \A new \in DiffFields(Diffable[n]) :
           KeysOf(new) = KeysOf(left) \ {Head(gone)} => Gone(new, right) = Tail(gone)
    BY <1>8, <1>9
  <1> QED
    BY <1>6, <1>8, <1>10, <1>11 DEF gone

LEMMA TailIs ==
  ASSUME NEW E, NEW s \in Seq(E), s # <<>>
  PROVE  /\ Len(s) \in Nat \ {0} /\ Head(s) = s[1] /\ Head(s) \in E /\ Tail(s) \in Seq(E)
         /\ Len(Tail(s)) = Len(s) - 1
         /\ \A i \in 1..Len(s) - 1 : Tail(s)[i] = s[i + 1]
  OBVIOUS

\* An operation for each.
LEMMA MappedTail ==
  ASSUME NEW E, NEW s \in Seq(E), s # <<>>, NEW D, NEW t \in Seq(D), Len(t) = Len(s),
         NEW r \in Seq(D), Len(r) = Len(s) - 1,
         \A i \in 1..Len(s) - 1 : r[i] = t[i + 1]
  PROVE  t # <<>> /\ Head(t) = t[1] /\ r = Tail(t)
  <1>1. Len(s) \in Nat \ {0}
    BY TailIs
  <1>2. t # <<>>
    BY <1>1
  <1>3. /\ Tail(t) \in Seq(D) /\ Len(Tail(t)) = Len(t) - 1 /\ Head(t) = t[1]
        /\ \A i \in 1..Len(t) - 1 : Tail(t)[i] = t[i + 1]
    BY <1>2, TailIs
  <1>4. r = Tail(t)
    BY <1>3, SameSequence
  <1> QED
    BY <1>2, <1>3, <1>4

LEMMA RemovalsFirst ==
  ASSUME NEW n \in 0..MaxDepth, NEW left \in DiffFields(Diffable[n]),
         NEW right \in DiffFields(Diffable[n]), Removals(left, right) # <<>>
  PROVE  LET key == Head(Gone(left, right))
         IN  /\ key \in KeysOf(left) \ KeysOf(right) /\ key \in DOMAIN Spelling
             /\ Head(Removals(left, right)) = Delete(Pointer(key))
             /\ \A new \in DiffFields(Diffable[n]) :
                  KeysOf(new) = KeysOf(left) \ {key} =>
                    Removals(new, right) = Tail(Removals(left, right))
  <1> DEFINE E == STRING
             gone == Gone(left, right)
             key == Head(gone)
             D(g) == [i \in DOMAIN g |-> Delete(Pointer(g[i]))]
  <1>1. /\ Removals(left, right) \in Seq(Operations) /\ Len(Removals(left, right)) = Len(gone)
        /\ gone \in Seq(E)
    <2>1. Removals(left, right) \in Seq(Operations) /\ Len(Removals(left, right)) = Len(gone)
      BY BelowTyped, FieldOpsTyped
    <2>2. gone \in Seq(E)
      BY GoneIs
    <2> QED
      BY <2>1, <2>2
  <1> HIDE DEF E
  <1>2. gone # <<>>
    BY <1>1
  <1>3. \A fields : Removals(fields, right) = D(Gone(fields, right))
    BY Zenon DEF Removals, Pointer
  <1>4. /\ key \in KeysOf(left) \ KeysOf(right) /\ key \in DOMAIN Spelling
        /\ \A new \in DiffFields(Diffable[n]) :
             KeysOf(new) = KeysOf(left) \ {key} => Gone(new, right) = Tail(gone)
    BY <1>2, GoneFirst
  <1> HIDE DEF gone
  <1>5. /\ Len(gone) \in Nat \ {0} /\ Head(gone) = gone[1] /\ Tail(gone) \in Seq(E)
        /\ Len(Tail(gone)) = Len(gone) - 1
        /\ \A i \in 1..Len(gone) - 1 : Tail(gone)[i] = gone[i + 1]
    BY <1>1, <1>2, TailIs
  <1>6. Removals(left, right)[1] = Delete(Pointer(key)) /\ Removals(left, right) # <<>>
    <2>1. 1 \in DOMAIN gone
      BY <1>1, <1>5
    <2>2. D(gone)[1] = Delete(Pointer(gone[1]))
      BY <2>1
    <2> HIDE DEF D
    <2>3. Removals(left, right)[1] = Delete(Pointer(gone[1]))
      BY <1>3, <2>2, Zenon DEF gone
    <2> QED
      BY <1>5, <2>3
  <1>7. Head(Removals(left, right)) = Delete(Pointer(key))
    <2> DEFINE t == Removals(left, right)
    <2>1. t \in Seq(Operations) /\ t # <<>> /\ t[1] = Delete(Pointer(key))
      BY <1>1, <1>6
    <2> HIDE DEF t, key
    <2>2. Head(t) = t[1]
      BY <2>1, TailIs
    <2> QED
      BY <2>1, <2>2 DEF t, key
  <1>8. ASSUME NEW new \in DiffFields(Diffable[n]), KeysOf(new) = KeysOf(left) \ {key}
        PROVE  Removals(new, right) = Tail(Removals(left, right))
    <2> DEFINE r == Removals(new, right)
               t == Removals(left, right)
    <2>1. Gone(new, right) = Tail(gone)
      BY <1>4, <1>8
    <2>2. r \in Seq(Operations) /\ Len(r) = Len(Gone(new, right))
      BY BelowTyped, FieldOpsTyped
    <2>3. Len(r) = Len(gone) - 1
      BY <1>5, <2>1, <2>2
    <2>4. ASSUME NEW i \in 1..Len(gone) - 1 PROVE r[i] = t[i + 1]
      <3>1. i \in DOMAIN Tail(gone) /\ i + 1 \in DOMAIN gone /\ Tail(gone)[i] = gone[i + 1]
        BY <1>1, <1>5
      <3>2. D(Tail(gone))[i] = Delete(Pointer(Tail(gone)[i])) /\ D(gone)[i + 1] = Delete(Pointer(gone[i + 1]))
        BY <3>1
      <3>3. r = D(Tail(gone)) /\ t = D(gone)
        BY <1>3, <2>1, Zenon DEF gone
      <3> HIDE DEF D, r, t
      <3> QED
        BY <3>1, <3>2, <3>3
    <2>5. t \in Seq(Operations) /\ Len(t) = Len(gone)
      BY <1>1 DEF gone
    <2> HIDE DEF r, t
    <2>6. r = Tail(t)
      BY <1>1, <1>2, <2>2, <2>3, <2>4, <2>5, MappedTail
    <2> QED
      BY <2>6 DEF r, t
  <1> HIDE DEF key
  <1> QED
    BY <1>4, <1>7, <1>8 DEF key, gone

LEMMA ObjectRemovalMoves ==
  ASSUME NEW n \in 0..MaxDepth, n + 1 \in 0..MaxDepth,
         NEW left \in DiffFields(Diffable[n]), NEW right \in DiffFields(Diffable[n]),
         \A i \in DOMAIN right : FieldOps(left, right)[i] = <<>>,
         ObjectOps(left, right) # <<>>
  PROVE  ObjectMoved(n, left, right)
  <1> DEFINE key == Head(Gone(left, right))
             v == Object(left)
             new == removeField(left, key)
  <1>1. \A fields \in DiffFields(Diffable[n]) :
          /\ FieldOps(fields, right) \in Seq(Seq(Operations))
          /\ DOMAIN FieldOps(fields, right) = DOMAIN right
          /\ Removals(fields, right) \in Seq(Operations)
    <2>1. ASSUME NEW fields \in DiffFields(Diffable[n])
          PROVE  /\ FieldOps(fields, right) \in Seq(Seq(Operations))
                 /\ Removals(fields, right) \in Seq(Operations)
      BY BelowTyped, FieldOpsTyped
    <2>2. \A fields : DOMAIN FieldOps(fields, right) = DOMAIN right
      BY Zenon DEF FieldOps
    <2> QED
      BY <2>1, <2>2
  <1>2. ASSUME NEW fields \in DiffFields(Diffable[n]),
               \A i \in DOMAIN right : FieldOps(fields, right)[i] = <<>>
        PROVE  ObjectOps(fields, right) = Removals(fields, right)
    <2>1. FlattenSeq(FieldOps(fields, right)) = <<>> /\ FlattenSeq(FieldOps(fields, right)) \in Seq(Operations)
      BY <1>1, <1>2, FlatEmpty
    <2> DEFINE s == FlattenSeq(FieldOps(fields, right))
               t == Removals(fields, right)
    <2>2. s = <<>> /\ s \in Seq(Operations) /\ t \in Seq(Operations)
      BY <1>1, <2>1
    <2> HIDE DEF s, t
    <2>3. s \o t = t
      BY <2>2, HeadOfTwo
    <2> QED
      BY <2>3, Zenon DEF ObjectOps, s, t
  <1>3. ObjectOps(left, right) = Removals(left, right)
    BY <1>2
  <1>4. /\ key \in KeysOf(left) \ KeysOf(right) /\ key \in DOMAIN Spelling
        /\ Head(Removals(left, right)) = Delete(Pointer(key))
        /\ \A fields \in DiffFields(Diffable[n]) :
             KeysOf(fields) = KeysOf(left) \ {key} =>
               Removals(fields, right) = Tail(Removals(left, right))
    BY <1>3, RemovalsFirst
  <1>5. /\ new \in DiffFields(Diffable[n]) /\ KeysOf(new) = KeysOf(left) \ {key}
        /\ \A k : k # key => GetField(new, k) = GetField(left, k)
    BY DiffFieldRemoved
  <1>6. /\ v \in Values /\ v.kind = "object" /\ v.fields = left
        /\ \A k : ChildAt(v, k) = GetField(left, k)
    BY ObjectValue
  <1>7. ~IsVoid(ChildAt(v, key))
    BY <1>4, <1>6, PresentField
  <1> HIDE DEF v, key
  <1>8. Deleted(v, key) = Object(new)
    BY <1>6, <1>7, Zenon DEF Deleted
  <1> HIDE DEF new
  <1>9. SpecOp(v, Resolved(Delete(Pointer(key)))) = Deleted(v, key) /\ Inside(Delete(Pointer(key)))
    BY <1>4, <1>6, DeleteAtToken
  <1>10. ASSUME NEW i \in DOMAIN right PROVE FieldOps(new, right)[i] = <<>>
    <2>1. right[i].key \in KeysOf(right) /\ right[i].key # key
      BY <1>4, FieldOpIs
    <2>2. FieldOps(new, right)[i] = FieldOps(left, right)[i]
      BY <1>5, <2>1, FieldOpKept
    <2> QED
      BY <2>2
  <1>11. ObjectOps(new, right) = Removals(new, right)
    BY <1>2, <1>5, <1>10
  <1>12. Removals(new, right) = Tail(Removals(left, right))
    BY <1>4, <1>5
  <1>13. Head(ObjectOps(left, right)) = Delete(Pointer(key))
    BY <1>3, <1>4
  <1> QED
    BY <1>3, <1>5, <1>8, <1>9, <1>11, <1>12, <1>13, Zenon DEF ObjectMoved, v

LEMMA ObjectMoves ==
  ASSUME NEW n \in 0..MaxDepth, n + 1 \in 0..MaxDepth, MovesBelow(n),
         NEW left \in DiffFields(Diffable[n]), NEW right \in DiffFields(Diffable[n]),
         ObjectOps(left, right) # <<>>
  PROVE  ObjectMoved(n, left, right)
  <1> DEFINE I == {i \in DOMAIN right : FieldOps(left, right)[i] # <<>>}
  <1>1. CASE I = {}
    <2>1. \A i \in DOMAIN right : FieldOps(left, right)[i] = <<>>
      BY <1>1
    <2> QED
      BY <2>1, ObjectRemovalMoves
  <1>2. CASE I # {}
    <2>1. Len(right) \in Nat /\ DOMAIN right = 1..Len(right)
      <3>1. right \in Seq(FieldsOf(STRING, Diffable[n]))
        BY DiffFieldsAre
      <3> QED
        BY <3>1
    <2>2. I \subseteq 1..Len(right)
      BY <2>1
    <2> HIDE DEF I
    <2>3. PICK m \in I : \A i \in 1..m - 1 : i \notin I
      BY <1>2, <2>1, <2>2, FirstPlace
    <2>4. m \in DOMAIN right /\ FieldOps(left, right)[m] # <<>>
      BY <2>3 DEF I
    <2>5. \A i \in 1..m - 1 : FieldOps(left, right)[i] = <<>>
      <3>1. ASSUME NEW i \in 1..m - 1 PROVE i \in DOMAIN right
        BY <2>1, <2>4
      <3> QED
        BY <2>3, <3>1 DEF I
    <2> QED
      BY <2>4, <2>5, ObjectFieldMoves
  <1> QED
    BY <1>1, <1>2

-----------------------------------------------------------------------------
(* One operation on an array.                                              *)

ArrayMoved(n, left, right) ==
  LET op == Head(ArrayOps(left, right))
  IN  \E new \in DiffItems(Diffable[n]) :
        /\ SpecOp(Array(left), Resolved(op)) = Array(new)
        /\ ArrayOps(new, right) = Tail(ArrayOps(left, right))
        /\ Inside(op)

LEMMA ArrayValue ==
  ASSUME NEW n \in 0..MaxDepth, n + 1 \in 0..MaxDepth, NEW items \in DiffItems(Diffable[n])
  PROVE  LET v == Array(items)
         IN  /\ v \in Diffable[n + 1] /\ v \in Values /\ v.kind = "array" /\ v.items = items
             /\ \A i \in DOMAIN items :
                  /\ ChildAt(v, Item(i)) = items[i]
                  /\ \A x : ReplaceChild(v, Item(i), x) = Array([items EXCEPT ![i] = x])
  <1> DEFINE v == Array(items)
  <1>1. v \in Diffable[n + 1]
    BY SideFromItems
  <1>2. v.kind = "array" /\ v.items = items
    BY DEF Array
  <1>3. v \in Values
    BY <1>1, DiffableWithin DEF Values, Sides
  <1> HIDE DEF v
  <1>4. ASSUME NEW i \in DOMAIN items
        PROVE  /\ ChildAt(v, Item(i)) = items[i]
               /\ \A x : ReplaceChild(v, Item(i), x) = Array([items EXCEPT ![i] = x])
    <2>1. i \in 1..MaxIndex + 1
      BY SharedIs, TokensAssumption DEF DiffItems
    <2>2. parseArrayIndex(Item(i)) + 1 = i
      BY <2>1, IndexOfItem
    <2>3. ChildAt(v, Item(i)) = items[i]
      <3>1. v.kind # "object" /\ parseArrayIndex(Item(i)) + 1 \in DOMAIN v.items
        BY <1>2, <2>2
      <3> QED
        BY <1>2, <2>2, <3>1, Zenon DEF ChildAt
    <2>4. ASSUME NEW x PROVE ReplaceChild(v, Item(i), x) = Array([items EXCEPT ![i] = x])
      <3>1. v.kind # "object"
        BY <1>2
      <3>2. ReplaceChild(v, Item(i), x)
              = Array([v.items EXCEPT ![parseArrayIndex(Item(i)) + 1] = x])
        BY <3>1, Zenon DEF ReplaceChild
      <3> QED
        BY <1>2, <2>2, <3>2
    <2> QED
      BY <2>3, <2>4
  <1> QED
    BY <1>1, <1>2, <1>3, <1>4 DEF v

LEMMA ItemOpIs ==
  ASSUME NEW n \in 0..MaxDepth, NEW left \in DiffItems(Diffable[n]),
         NEW right \in DiffItems(Diffable[n]), NEW i \in 1..Shared(left, right)
  PROVE  /\ left[i] \in Diffable[n] /\ right[i] \in Diffable[n] /\ i \in DOMAIN left
         /\ i \in DOMAIN right /\ i \in 1..MaxIndex + 1
         /\ Item(i) \in DOMAIN Spelling /\ diffOps(left[i], right[i]) \in Seq(Operations)
         /\ ItemOps(left, right)[i] = Beneath(Item(i), diffOps(left[i], right[i]))
  <1>1. /\ left[i] \in Diffable[n] /\ right[i] \in Diffable[n] /\ i \in DOMAIN left
        /\ i \in DOMAIN right /\ i \in 1..MaxIndex + 1
    BY SharedIs, TokensAssumption
  <1>2. Item(i) \in DOMAIN Spelling
    BY <1>1, ItemIs
  <1>3. diffOps(left[i], right[i]) \in Seq(Operations)
    BY <1>1, BelowTyped, Zenon DEF TypedBelow
  <1>4. ItemOps(left, right)[i] = Beneath(Item(i), diffOps(left[i], right[i]))
    BY Zenon DEF ItemOps
  <1> QED
    BY <1>1, <1>2, <1>3, <1>4

LEMMA ItemOpsAre ==
  ASSUME NEW n \in 0..MaxDepth, NEW left \in DiffItems(Diffable[n]),
         NEW right \in DiffItems(Diffable[n])
  PROVE  /\ ItemOps(left, right) \in Seq(Seq(Operations))
         /\ Len(ItemOps(left, right)) = Shared(left, right)
         /\ DOMAIN ItemOps(left, right) = 1..Shared(left, right)
         /\ FlattenSeq(ItemOps(left, right)) \in Seq(Operations)
         /\ FlattenSeq(ItemOps(left, right)) = <<>> <=>
              \A i \in 1..Shared(left, right) : ItemOps(left, right)[i] = <<>>
         /\ Drops(left, right) \in Seq(Operations)
         /\ Len(Drops(left, right)) = Len(left) - Shared(left, right)
         /\ Extras(left, right) \in Seq(Operations)
         /\ Len(Extras(left, right)) = Len(right) - Shared(left, right)
  <1>1. /\ ItemOps(left, right) \in Seq(Seq(Operations))
        /\ Len(ItemOps(left, right)) = Shared(left, right)
        /\ Drops(left, right) \in Seq(Operations)
        /\ Len(Drops(left, right)) = Len(left) - Shared(left, right)
        /\ Extras(left, right) \in Seq(Operations)
        /\ Len(Extras(left, right)) = Len(right) - Shared(left, right)
    BY BelowTyped, ItemOpsTyped
  <1>2. DOMAIN ItemOps(left, right) = 1..Shared(left, right)
    BY Zenon DEF ItemOps
  <1>3. /\ FlattenSeq(ItemOps(left, right)) \in Seq(Operations)
        /\ FlattenSeq(ItemOps(left, right)) = <<>> <=>
             \A i \in DOMAIN ItemOps(left, right) : ItemOps(left, right)[i] = <<>>
    BY <1>1, FlatEmpty
  <1> QED
    BY <1>1, <1>2, <1>3

LEMMA TailOfThree ==
  ASSUME NEW E, NEW s \in Seq(E), NEW t \in Seq(E), NEW u \in Seq(E), s # <<>>
  PROVE  s \o t \o u # <<>> /\ Head(s \o t \o u) = Head(s)
  <1> DEFINE st == s \o t
  <1>1. st \in Seq(E) /\ st # <<>>
    BY HeadOfTwo
  <1>2. Head(st) = Head(s)
    BY HeadOfTwo
  <1> HIDE DEF st
  <1>4. st \o u # <<>>
    BY <1>1, HeadOfTwo
  <1>5. Head(st \o u) = Head(st)
    BY <1>1, HeadOfTwo
  <1> QED
    BY <1>2, <1>4, <1>5, Zenon DEF st

LEMMA TailsOfThree ==
  ASSUME NEW E, NEW s \in Seq(E), NEW t \in Seq(E), NEW u \in Seq(E), s # <<>>
  PROVE  Tail(s \o t \o u) = Tail(s) \o t \o u
  <1> DEFINE st == s \o t
  <1>1. st \in Seq(E) /\ st # <<>>
    BY HeadOfTwo
  <1>3. Tail(st) = Tail(s) \o t
    BY TailOfTwo
  <1> HIDE DEF st
  <1>6. Tail(st \o u) = Tail(st) \o u
    BY <1>1, TailOfTwo
  <1> QED
    BY <1>3, <1>6, Zenon DEF st

\* Only the lengths matter for what is dropped, and for what is added.
LEMMA SameLength ==
  ASSUME NEW left, NEW new, NEW right, Len(new) = Len(left)
  PROVE  /\ Shared(new, right) = Shared(left, right)
         /\ Drops(new, right) = Drops(left, right) /\ Extras(new, right) = Extras(left, right)
  <1>1. Shared(new, right) = Shared(left, right)
    BY Zenon DEF Shared
  <1> QED
    BY <1>1, Zenon DEF Drops, Extras

LEMMA ItemReplaced ==
  ASSUME NEW V, NEW s \in Seq(V), NEW i \in DOMAIN s, NEW x \in V
  PROVE  LET t == [s EXCEPT ![i] = x]
         IN  /\ t \in Seq(V) /\ Len(t) = Len(s) /\ t[i] = x
             /\ \A j \in DOMAIN s : j # i => t[j] = s[j]
  OBVIOUS

LEMMA ArrayItemMoves ==
  ASSUME NEW n \in 0..MaxDepth, n + 1 \in 0..MaxDepth, MovesBelow(n),
         NEW left \in DiffItems(Diffable[n]), NEW right \in DiffItems(Diffable[n]),
         NEW m \in 1..Shared(left, right), ItemOps(left, right)[m] # <<>>,
         \A i \in 1..m - 1 : ItemOps(left, right)[i] = <<>>
  PROVE  ArrayMoved(n, left, right)
  <1> DEFINE key == Item(m)
             v == Array(left)
             u == left[m]
             w == right[m]
             part == Head(diffOps(u, w))
             x == SpecOp(u, Resolved(part))
             new == [left EXCEPT ![m] = x]
             old == ItemOps(left, right)
             now == ItemOps(new, right)
             op == Head(old[m])
             shared == Shared(left, right)
  <1>1. /\ u \in Diffable[n] /\ w \in Diffable[n] /\ m \in DOMAIN left /\ key \in DOMAIN Spelling
        /\ diffOps(u, w) \in Seq(Operations) /\ old[m] = Beneath(key, diffOps(u, w))
    BY ItemOpIs
  <1>2. diffOps(u, w) # <<>> /\ op = AtPart(key, part) /\ Beneath(key, Tail(diffOps(u, w))) = Tail(old[m])
    <2> DEFINE s == diffOps(u, w)
    <2>1. s \in Seq(Operations) /\ Beneath(key, s) # <<>>
      BY <1>1
    <2> HIDE DEF s, key
    <2>2. /\ s # <<>> /\ Head(Beneath(key, s)) = AtPart(key, Head(s))
          /\ Tail(Beneath(key, s)) = Beneath(key, Tail(s))
      BY <1>1, <2>1, BeneathIs
    <2> QED
      BY <1>1, <2>2 DEF s, key
  <1>3. /\ part \in Operations /\ Inside(part) /\ x \in Diffable[n] /\ x # Invalid
        /\ diffOps(x, w) = Tail(diffOps(u, w))
    BY <1>1, <1>2, PartMoves
  <1>4. /\ v \in Values
        /\ ChildAt(v, key) = u /\ ReplaceChild(v, key, x) = Array(new)
    BY <1>1, ArrayValue
  <1>5. ~IsVoid(u)
    BY <1>1, DiffableShape
  <1>6. SpecOp(v, Resolved(op)) = Array(new) /\ Inside(op)
    <2> HIDE DEF v, u, part, key, new
    <2>1. SpecOp(v, Resolved(AtPart(key, part))) = ReplaceChild(v, key, x) /\ Inside(AtPart(key, part))
      BY <1>1, <1>3, <1>4, <1>5, OperationBelow
    <2> HIDE DEF x, op
    <2> QED
      BY <1>2, <1>4, <2>1, Zenon
  <1>7. /\ new \in DiffItems(Diffable[n]) /\ Len(new) = Len(left) /\ new[m] = x
        /\ \A j \in DOMAIN left : j # m => new[j] = left[j]
    <2> HIDE DEF x
    <2>1. left \in Seq(Diffable[n]) /\ Len(left) <= MaxIndex + 1
      BY DEF DiffItems
    <2>2. /\ new \in Seq(Diffable[n]) /\ Len(new) = Len(left) /\ new[m] = x
          /\ \A j \in DOMAIN left : j # m => new[j] = left[j]
      <3> DEFINE V == Diffable[n]
      <3>1. x \in V /\ m \in DOMAIN left /\ left \in Seq(V)
        BY <1>1, <1>3, <2>1
      <3> HIDE DEF V
      <3> DEFINE t == [left EXCEPT ![m] = x]
      <3>2. /\ t \in Seq(V) /\ Len(t) = Len(left) /\ t[m] = x
            /\ \A j \in DOMAIN left : j # m => t[j] = left[j]
        BY <3>1, ItemReplaced, Zenon
      <3> HIDE DEF t
      <3> QED
        BY <3>2, Zenon DEF V, t
    <2> HIDE DEF new
    <2> QED
      BY <2>1, <2>2 DEF DiffItems
  <1> HIDE DEF new, x, part
  <1>8. /\ Shared(new, right) = shared /\ shared \in Nat
        /\ Drops(new, right) = Drops(left, right) /\ Extras(new, right) = Extras(left, right)
    BY <1>7, SameLength, SharedIs
  <1>9. /\ old \in Seq(Seq(Operations)) /\ Len(old) = shared
        /\ DOMAIN old = 1..shared /\ FlattenSeq(old) \in Seq(Operations)
        /\ Drops(left, right) \in Seq(Operations) /\ Extras(left, right) \in Seq(Operations)
    BY ItemOpsAre
  <1>10. now \in Seq(Seq(Operations)) /\ Len(now) = shared
    BY <1>7, <1>8, ItemOpsAre
  <1>11. ASSUME NEW i \in 1..shared, i # m PROVE now[i] = old[i]
    <2>1. i \in DOMAIN left /\ old[i] = Beneath(Item(i), diffOps(left[i], right[i]))
      BY ItemOpIs
    <2>2. i \in 1..Shared(new, right)
      BY <1>8
    <2>3. now[i] = Beneath(Item(i), diffOps(new[i], right[i]))
      BY <1>7, <2>2, ItemOpIs
    <2>4. new[i] = left[i]
      BY <1>7, <1>11, <2>1
    <2> HIDE DEF now, old
    <2> QED
      BY <2>1, <2>3, <2>4, Zenon
  <1>12. now[m] = Tail(old[m])
    <2>1. m \in 1..Shared(new, right)
      BY <1>8
    <2>2. now[m] = Beneath(key, diffOps(new[m], w))
      BY <1>7, <2>1, ItemOpIs
    <2> HIDE DEF now, key, w, old
    <2> QED
      BY <1>2, <1>3, <1>7, <2>2, Zenon
  <1>13. old[m] # <<>>
    OBVIOUS
  <1>14. \A i \in 1..m - 1 : old[i] = <<>>
    OBVIOUS
  <1>18. m \in 1..shared
    OBVIOUS
  <1> HIDE DEF old, now, op, shared
  <1>15. \A i \in 1..m - 1 : old[i] = <<>> /\ now[i] = <<>>
    <2>1. ASSUME NEW i \in 1..m - 1 PROVE i \in 1..shared /\ i # m
      BY <1>8, <1>18
    <2> QED
      BY <1>11, <1>14, <2>1
  <1>16. \A i \in m + 1..Len(old) : now[i] = old[i]
    <2>1. ASSUME NEW i \in m + 1..Len(old) PROVE i \in 1..shared /\ i # m
      BY <1>8, <1>9, <1>18
    <2> QED
      BY <1>11, <2>1
  <1>17. /\ FlattenSeq(old) # <<>> /\ Head(FlattenSeq(old)) = Head(old[m])
         /\ FlattenSeq(now) = Tail(FlattenSeq(old))
    BY <1>9, <1>10, <1>12, <1>13, <1>15, <1>16, <1>18, FlatFirst
  <1> DEFINE s == FlattenSeq(old)
             t == Drops(left, right)
             e == Extras(left, right)
  <1>19. s \in Seq(Operations) /\ t \in Seq(Operations) /\ e \in Seq(Operations) /\ s # <<>>
    BY <1>9, <1>17
  <1>20. ArrayOps(left, right) = s \o t \o e
    BY Zenon DEF ArrayOps, old
  <1>21. ArrayOps(new, right) = Tail(s) \o t \o e
    BY <1>8, <1>17, Zenon DEF ArrayOps, now
  <1>22. Head(s) = op
    BY <1>17 DEF op
  <1> HIDE DEF s, t, e
  <1>23. Head(s \o t \o e) = Head(s)
    BY <1>19, TailOfThree
  <1>25. Tail(s \o t \o e) = Tail(s) \o t \o e
    BY <1>19, TailsOfThree
  <1>24. Head(ArrayOps(left, right)) = op /\ ArrayOps(new, right) = Tail(ArrayOps(left, right))
    BY <1>20, <1>21, <1>22, <1>23, <1>25, Zenon
  <1> HIDE DEF v
  <1> QED
    BY <1>6, <1>7, <1>24, Zenon DEF ArrayMoved, v

\* The last item is dropped.
LEMMA ArrayDropMoves ==
  ASSUME NEW n \in 0..MaxDepth, n + 1 \in 0..MaxDepth,
         NEW left \in DiffItems(Diffable[n]), NEW right \in DiffItems(Diffable[n]),
         \A i \in 1..Shared(left, right) : ItemOps(left, right)[i] = <<>>,
         Len(left) > Len(right)
  PROVE  ArrayMoved(n, left, right)
  <1> DEFINE l == Len(left)
             r == Len(right)
             key == Item(l)
             v == Array(left)
             new == RemoveAt(left, l)
  <1>1. /\ l \in Nat /\ r \in Nat /\ l <= MaxIndex + 1 /\ MaxIndex \in Nat /\ r < l
        /\ left \in Seq(Diffable[n]) /\ right \in Seq(Diffable[n]) /\ DOMAIN left = 1..l
        /\ Shared(left, right) = r
    BY SharedIs, TokensAssumption
  <1>2. l \in 1..l /\ l \in 1..MaxIndex + 1 /\ l - 1 \in Nat
    BY <1>1
  <1>3. key \in DOMAIN Spelling /\ parseArrayIndex(key) + 1 = l
    BY <1>2, ItemIs, IndexOfItem
  <1>4. v \in Values /\ v.kind = "array" /\ v.items = left /\ ChildAt(v, key) = left[l]
    BY <1>1, <1>2, ArrayValue
  <1>5. left[l] \in Diffable[n] /\ ~IsVoid(left[l])
    <2>1. left[l] \in Diffable[n]
      BY <1>1, <1>2
    <2> QED
      BY <2>1, DiffableShape
  <1>6. Deleted(v, key) = Array(new)
    <2> HIDE DEF v, key, new, l
    <2>1. ~IsVoid(ChildAt(v, key)) /\ v.kind # "object"
      BY <1>4, <1>5
    <2>2. Deleted(v, key) = Array(RemoveAt(v.items, parseArrayIndex(key) + 1))
      BY <2>1, Zenon DEF Deleted
    <2> QED
      BY <1>3, <1>4, <2>2, Zenon DEF new
  <1> HIDE DEF v, key, l, r
  <1>7. SpecOp(v, Resolved(Delete(Pointer(key)))) = Deleted(v, key) /\ Inside(Delete(Pointer(key)))
    BY <1>3, <1>4, DeleteAtToken
  <1>8. /\ new \in Seq(Diffable[n]) /\ DOMAIN new = 1..l - 1
        /\ \A i \in 1..l - 1 : new[i] = left[i]
    <2>1. /\ new \in Seq(Diffable[n]) /\ DOMAIN new = 1..l - 1
          /\ \A i \in 1..l - 1 : new[i] = IF i < l THEN left[i] ELSE left[i + 1]
      BY <1>1, <1>2, RemoveAtIs DEF l
    <2> HIDE DEF new
    <2>2. \A i \in 1..l - 1 : i < l
      BY <1>1
    <2> QED
      BY <2>1, <2>2
  <1> HIDE DEF new
  <1>9. Len(new) = l - 1
    BY <1>2, <1>8
  <1>10. new \in DiffItems(Diffable[n])
    BY <1>1, <1>8, <1>9 DEF DiffItems
  <1>11. Shared(new, right) = r
    BY <1>1, <1>2, <1>9, <1>10, SharedIs DEF r
  <1>12. ItemOps(new, right) = ItemOps(left, right)
    <2> DEFINE Ops(s, i) == Beneath(Item(i), diffOps(s[i], right[i]))
    <2>1. /\ ItemOps(new, right) = [i \in 1..r |-> Ops(new, i)]
          /\ ItemOps(left, right) = [i \in 1..r |-> Ops(left, i)]
      BY <1>1, <1>11, Zenon DEF ItemOps
    <2>2. ASSUME NEW i \in 1..r PROVE Ops(new, i) = Ops(left, i)
      <3>1. i \in 1..l - 1
        BY <1>1
      <3>2. new[i] = left[i]
        BY <1>8, <3>1
      <3> QED
        BY <3>2
    <2> HIDE DEF Ops
    <2> QED
      BY <2>1, <2>2, Zenon
  <1> DEFINE s == FlattenSeq(ItemOps(left, right))
             t == Drops(left, right)
             u == Drops(new, right)
  <1>13. /\ s = <<>> /\ s \in Seq(Operations) /\ t \in Seq(Operations) /\ Len(t) = l - r
         /\ Extras(left, right) \in Seq(Operations) /\ Len(Extras(left, right)) = 0
    <2>1. r - r = 0
      BY <1>1
    <2>2. /\ s \in Seq(Operations) /\ t \in Seq(Operations)
          /\ Len(t) = l - Shared(left, right)
          /\ Extras(left, right) \in Seq(Operations)
          /\ Len(Extras(left, right)) = r - Shared(left, right)
      BY ItemOpsAre DEF l, r
    <2>3. s = <<>>
      BY ItemOpsAre
    <2> HIDE DEF s, t
    <2> QED
      BY <1>1, <2>1, <2>2, <2>3
  <1>14. /\ u \in Seq(Operations) /\ Len(u) = l - 1 - r
         /\ Extras(new, right) \in Seq(Operations) /\ Len(Extras(new, right)) = 0
    <2>1. r - r = 0
      BY <1>1
    <2> QED
      BY <1>9, <1>10, <1>11, <2>1, ItemOpsAre DEF r
  <1>15. ASSUME NEW i \in 1..l - 1 - r PROVE u[i] = t[i + 1]
    <2>1. /\ i + 1 \in 1..l - r /\ (l - 1) + 1 - i = l + 1 - (i + 1)
      BY <1>1
    <2>2. u = [k \in 1..l - 1 - r |-> Delete(joinPointer(<<>>, Item(l - 1 + 1 - k)))]
      BY <1>9, <1>11, Zenon DEF Drops
    <2>3. t = [k \in 1..l - r |-> Delete(joinPointer(<<>>, Item(l + 1 - k)))]
      BY <1>1, Zenon DEF Drops, l
    <2>4. u[i] = Delete(joinPointer(<<>>, Item(l - 1 + 1 - i)))
      BY <2>2, Zenon
    <2>5. t[i + 1] = Delete(joinPointer(<<>>, Item(l + 1 - (i + 1))))
      BY <2>1, <2>3, Zenon
    <2> HIDE DEF u, t
    <2> QED
      BY <2>1, <2>4, <2>5, Zenon
  <1>16. t[1] = Delete(Pointer(key))
    <2>1. 1 \in 1..l - r /\ l + 1 - 1 = l
      BY <1>1
    <2>2. t = [k \in 1..l - r |-> Delete(joinPointer(<<>>, Item(l + 1 - k)))]
      BY <1>1, Zenon DEF Drops, l
    <2>3. t[1] = Delete(joinPointer(<<>>, Item(l + 1 - 1)))
      BY <2>1, <2>2, Zenon
    <2> HIDE DEF t
    <2> QED
      BY <2>1, <2>3 DEF Pointer, key
  <1>20. ArrayOps(left, right) = s \o t \o Extras(left, right)
    BY Zenon DEF ArrayOps
  <1>21. ArrayOps(new, right) = s \o u \o Extras(new, right)
    BY <1>12, Zenon DEF ArrayOps
  <1> HIDE DEF s, t, u
  <1>17. t # <<>> /\ Head(t) = Delete(Pointer(key)) /\ u = Tail(t)
    <2>1. t # <<>>
      BY <1>1, <1>13
    <2>2. Len(u) = Len(t) - 1 /\ \A i \in 1..Len(t) - 1 : u[i] = t[i + 1]
      <3>1. Len(t) - 1 = l - 1 - r
        BY <1>1, <1>13
      <3> QED
        BY <1>14, <1>15, <3>1
    <2>3. Head(t) = t[1] /\ u = Tail(t)
      BY <1>13, <1>14, <2>1, <2>2, MappedTail
    <2> QED
      BY <1>16, <2>1, <2>3
  <1>18. Extras(left, right) = <<>> /\ Extras(new, right) = <<>>
    BY <1>13, <1>14
  <1>19. \A q \in Seq(Operations) : s \o q \o <<>> = q
    <2>1. ASSUME NEW q \in Seq(Operations) PROVE s \o q \o <<>> = q
      <3>1. s \o q = q
        BY <1>13, HeadOfTwo
      <3> QED
        BY <3>1
    <2> QED
      BY <2>1
  <1>22. ArrayOps(left, right) = t /\ ArrayOps(new, right) = u
    BY <1>13, <1>14, <1>18, <1>19, <1>20, <1>21
  <1>23. Head(ArrayOps(left, right)) = Delete(Pointer(key)) /\ ArrayOps(new, right) = Tail(ArrayOps(left, right))
    BY <1>17, <1>22
  <1> QED
    BY <1>6, <1>7, <1>10, <1>23, Zenon DEF ArrayMoved, v

\* The next item is added.
LEMMA ArrayExtraMoves ==
  ASSUME NEW n \in 0..MaxDepth, n + 1 \in 0..MaxDepth,
         NEW left \in DiffItems(Diffable[n]), NEW right \in DiffItems(Diffable[n]),
         \A i \in 1..Shared(left, right) : ItemOps(left, right)[i] = <<>>,
         Len(left) < Len(right)
  PROVE  ArrayMoved(n, left, right)
  <1> DEFINE l == Len(left)
             r == Len(right)
             key == Item(l + 1)
             v == Array(left)
             w == right[l + 1]
             new == InsertAt(left, l + 1, w)
             op == Add(Pointer(key), w)
  <1>1. /\ l \in Nat /\ r \in Nat /\ r <= MaxIndex + 1 /\ MaxIndex \in Nat /\ l < r
        /\ left \in Seq(Diffable[n]) /\ right \in Seq(Diffable[n]) /\ DOMAIN left = 1..l
        /\ DOMAIN right = 1..r /\ Shared(left, right) = l
    BY SharedIs, TokensAssumption
  <1>2. l + 1 \in 1..r /\ l + 1 \in 1..MaxIndex + 1 /\ l + 1 \in 1..l + 1
    BY <1>1
  <1>3. key \in DOMAIN Spelling /\ key # "-" /\ parseArrayIndex(key) + 1 = l + 1 /\ parseArrayIndex(key) \in 0..MaxIndex
    BY <1>2, ItemIs, IndexOfItem
  <1>4. v \in Values /\ v.kind = "array" /\ v.items = left
    BY <1>1, ArrayValue
  <1>5. w \in Diffable[n] /\ w \in Diffable[MaxDepth]
    <2>1. w \in Diffable[n]
      BY <1>1, <1>2
    <2> QED
      BY <2>1, DiffableWithin
  <1>6. Inserted(v, key, w) = Array(new)
    <2>1. parseArrayIndex(key) = l
      BY <1>1, <1>3
    <2>2. l \in 0..Len(left)
      BY <1>1
    <2>3. parseArrayIndex(key) \in 0..Len(v.items) /\ v.kind # "object" /\ v.kind = "array"
      BY <1>4, <2>1, <2>2
    <2> HIDE DEF v, key, w
    <2>4. Inserted(v, key, w) = Array(InsertAt(v.items, parseArrayIndex(key) + 1, w))
      BY <1>3, <2>3, Zenon DEF Inserted
    <2> HIDE DEF l
    <2> QED
      BY <1>3, <1>4, <2>4, Zenon
  <1>8. /\ new \in Seq(Diffable[n]) /\ DOMAIN new = 1..l + 1
        /\ new[l + 1] = w /\ \A i \in 1..l : new[i] = left[i]
    <2> DEFINE V == Diffable[n]
    <2>1. w \in V /\ left \in Seq(V) /\ l + 1 \in 1..Len(left) + 1
      BY <1>1, <1>2, <1>5
    <2> HIDE DEF V, w
    <2>2. /\ new \in Seq(V) /\ DOMAIN new = 1..Len(left) + 1
          /\ \A i \in 1..Len(left) + 1 :
               new[i] = IF i < l + 1 THEN left[i] ELSE IF i = l + 1 THEN w ELSE left[i - 1]
      BY <2>1, InsertAtIs
    <2> HIDE DEF new, l
    <2>3. \A i \in 1..l : i \in 1..Len(left) + 1 /\ i < l + 1
      BY <1>1 DEF l
    <2>4. ~(l + 1 < l + 1) /\ l + 1 \in 1..Len(left) + 1
      BY <1>1 DEF l
    <2> QED
      BY <2>2, <2>3, <2>4 DEF l, V
  <1> HIDE DEF v, key, l, r, new, w
  <1>7. SpecOp(v, Resolved(op)) = Inserted(v, key, w) /\ Inside(op)
    BY <1>3, <1>4, <1>5, AddAtToken
  <1>9. Len(new) = l + 1
    BY <1>1, <1>8
  <1>10. new \in DiffItems(Diffable[n])
    BY <1>1, <1>2, <1>8, <1>9 DEF DiffItems
  <1>11. Shared(new, right) = l + 1
    <2>1. Shared(new, right) = IF l + 1 < r THEN l + 1 ELSE r
      BY <1>9, Zenon DEF Shared, r
    <2>2. l + 1 < r \/ l + 1 = r
      BY <1>1
    <2> QED
      BY <2>1, <2>2
  <1>12. ASSUME NEW i \in 1..l + 1 PROVE ItemOps(new, right)[i] = <<>>
    <2>1. i \in 1..Shared(new, right)
      BY <1>11
    <2>2. ItemOps(new, right)[i] = Beneath(Item(i), diffOps(new[i], right[i])) /\ Item(i) \in DOMAIN Spelling
      BY <1>10, <2>1, ItemOpIs
    <2>3. CASE i \in 1..l
      <3>1. i \in 1..Shared(left, right)
        BY <1>1, <2>3
      <3>2. ItemOps(left, right)[i] = Beneath(Item(i), diffOps(left[i], right[i])) /\ ItemOps(left, right)[i] = <<>>
        BY <3>1, ItemOpIs
      <3>3. new[i] = left[i]
        BY <1>8, <2>3
      <3> QED
        BY <2>2, <3>2, <3>3, Zenon
    <2>4. CASE i = l + 1
      <3>1. new[i] = w /\ right[i] = w
        BY <1>8, <2>4 DEF w
      <3>2. w \in Sides(n)
        BY <1>5 DEF Sides
      <3>3. valuesEqual(w, w)
        BY <3>2, EqualItself
      <3>4. Beneath(Item(i), diffOps(w, w)) = <<>>
        BY <1>5, <2>2, <3>3, SettledOps
      <3> QED
        BY <2>2, <3>1, <3>4, Zenon
    <2>5. i \in 1..l \/ i = l + 1
      BY <1>1
    <2> QED
      BY <2>3, <2>4, <2>5
  <1> DEFINE s == FlattenSeq(ItemOps(left, right))
             z == FlattenSeq(ItemOps(new, right))
             t == Extras(left, right)
             u == Extras(new, right)
  <1>13. /\ s = <<>> /\ s \in Seq(Operations) /\ t \in Seq(Operations) /\ Len(t) = r - l
         /\ Drops(left, right) \in Seq(Operations) /\ Len(Drops(left, right)) = 0
    <2>1. l - l = 0
      BY <1>1
    <2>2. /\ s \in Seq(Operations) /\ t \in Seq(Operations)
          /\ Len(t) = r - Shared(left, right)
          /\ Drops(left, right) \in Seq(Operations)
          /\ Len(Drops(left, right)) = l - Shared(left, right)
      BY ItemOpsAre DEF l, r
    <2>3. s = <<>>
      BY ItemOpsAre
    <2> HIDE DEF s, t
    <2> QED
      BY <1>1, <2>1, <2>2, <2>3
  <1>14. /\ z = <<>> /\ z \in Seq(Operations) /\ u \in Seq(Operations) /\ Len(u) = r - (l + 1)
         /\ Drops(new, right) \in Seq(Operations) /\ Len(Drops(new, right)) = 0
    <2>1. (l + 1) - (l + 1) = 0
      BY <1>1
    <2>2. \A i \in 1..Shared(new, right) : ItemOps(new, right)[i] = <<>>
      BY <1>11, <1>12
    <2> QED
      BY <1>9, <1>10, <1>11, <2>1, <2>2, ItemOpsAre DEF r
  <1>24. t = [k \in 1..r - l |-> Add(joinPointer(<<>>, Item(l + k)), right[l + k])]
    BY <1>1, Zenon DEF Extras, r
  <1>15. ASSUME NEW i \in 1..r - (l + 1) PROVE u[i] = t[i + 1]
    <2>1. i + 1 \in 1..r - l /\ (l + 1) + i = l + (i + 1)
      BY <1>1
    <2>2. u = [k \in 1..r - (l + 1) |-> Add(joinPointer(<<>>, Item(l + 1 + k)), right[l + 1 + k])]
      BY <1>11, Zenon DEF Extras, r
    <2>4. u[i] = Add(joinPointer(<<>>, Item(l + 1 + i)), right[l + 1 + i])
      BY <2>2, Zenon
    <2>5. t[i + 1] = Add(joinPointer(<<>>, Item(l + (i + 1))), right[l + (i + 1)])
      BY <1>24, <2>1, Zenon
    <2> HIDE DEF u, t
    <2> QED
      BY <2>1, <2>4, <2>5, Zenon
  <1>16. t[1] = op
    <2>1. 1 \in 1..r - l
      BY <1>1
    <2>3. t[1] = Add(joinPointer(<<>>, Item(l + 1)), right[l + 1])
      BY <1>24, <2>1, Zenon
    <2> HIDE DEF t
    <2> QED
      BY <2>3, Zenon DEF Pointer, key, w
  <1>20. ArrayOps(left, right) = s \o Drops(left, right) \o t
    BY Zenon DEF ArrayOps
  <1>21. ArrayOps(new, right) = z \o Drops(new, right) \o u
    BY Zenon DEF ArrayOps
  <1> HIDE DEF s, t, u, op, z
  <1>17. t # <<>> /\ Head(t) = op /\ u = Tail(t)
    <2>1. t # <<>>
      BY <1>1, <1>13
    <2>2. Len(u) = Len(t) - 1 /\ \A i \in 1..Len(t) - 1 : u[i] = t[i + 1]
      <3>1. Len(t) - 1 = r - (l + 1)
        BY <1>1, <1>13
      <3> QED
        BY <1>14, <1>15, <3>1
    <2>3. Head(t) = t[1] /\ u = Tail(t)
      BY <1>13, <1>14, <2>1, <2>2, MappedTail
    <2> QED
      BY <1>16, <2>1, <2>3
  <1>18. Drops(left, right) = <<>> /\ Drops(new, right) = <<>>
    BY <1>13, <1>14
  <1>19. \A q \in Seq(Operations) : <<>> \o <<>> \o q = q
    <2>1. ASSUME NEW q \in Seq(Operations) PROVE <<>> \o <<>> \o q = q
      <3>1. <<>> \o <<>> = <<>>
        BY <1>13, HeadOfTwo
      <3>2. <<>> \o q = q
        BY <1>13, HeadOfTwo
      <3> QED
        BY <3>1, <3>2
    <2> QED
      BY <2>1
  <1>22. ArrayOps(left, right) = t /\ ArrayOps(new, right) = u
    BY <1>13, <1>14, <1>18, <1>19, <1>20, <1>21
  <1>23. Head(ArrayOps(left, right)) = op /\ ArrayOps(new, right) = Tail(ArrayOps(left, right))
    BY <1>17, <1>22
  <1>25. SpecOp(v, Resolved(op)) = Array(new) /\ Inside(op)
    BY <1>6, <1>7, Zenon DEF op
  <1> QED
    BY <1>10, <1>23, <1>25, Zenon DEF ArrayMoved, v

LEMMA ArrayMoves ==
  ASSUME NEW n \in 0..MaxDepth, n + 1 \in 0..MaxDepth, MovesBelow(n),
         NEW left \in DiffItems(Diffable[n]), NEW right \in DiffItems(Diffable[n]),
         ArrayOps(left, right) # <<>>
  PROVE  ArrayMoved(n, left, right)
  <1> DEFINE I == {i \in 1..Shared(left, right) : ItemOps(left, right)[i] # <<>>}
  <1>3. /\ Shared(left, right) \in Nat /\ Len(left) \in Nat /\ Len(right) \in Nat
        /\ Len(left) = Len(right) => Shared(left, right) = Len(left)
    BY SharedIs
  <1>1. CASE I = {}
    <2>1. \A i \in 1..Shared(left, right) : ItemOps(left, right)[i] = <<>>
      BY <1>1
    <2>2. CASE Len(left) > Len(right)
      BY <2>1, <2>2, ArrayDropMoves
    <2>3. CASE Len(left) < Len(right)
      BY <2>1, <2>3, ArrayExtraMoves
    <2>4. Len(left) # Len(right)
      <3> SUFFICES ASSUME Len(left) = Len(right) PROVE FALSE
        OBVIOUS
      <3> DEFINE s == FlattenSeq(ItemOps(left, right))
                 t == Drops(left, right)
                 u == Extras(left, right)
      <3>1. /\ s \in Seq(Operations) /\ s = <<>>
            /\ t \in Seq(Operations) /\ Len(t) = 0 /\ u \in Seq(Operations) /\ Len(u) = 0
        <4>1. /\ s \in Seq(Operations) /\ t \in Seq(Operations) /\ u \in Seq(Operations)
              /\ Len(t) = Len(left) - Shared(left, right)
              /\ Len(u) = Len(right) - Shared(left, right)
          BY ItemOpsAre
        <4>2. s = <<>>
          BY <2>1, ItemOpsAre
        <4>3. Len(left) - Shared(left, right) = 0 /\ Len(right) - Shared(left, right) = 0
          BY <1>3
        <4> HIDE DEF s, t, u
        <4> QED
          BY <4>1, <4>2, <4>3
      <3> HIDE DEF s, t, u
      <3>2. s \o t = <<>> /\ u = <<>>
        BY <3>1, HeadOfTwo
      <3>3. s \o t \o u = <<>>
        BY <3>1, <3>2, HeadOfTwo
      <3> QED
        BY <3>3, Zenon DEF ArrayOps, s, t, u
    <2> QED
      BY <1>3, <2>2, <2>3, <2>4
  <1>2. CASE I # {}
    <2>2. I \subseteq 1..Shared(left, right)
      OBVIOUS
    <2> HIDE DEF I
    <2>3. PICK m \in I : \A i \in 1..m - 1 : i \notin I
      BY <1>2, <1>3, <2>2, FirstPlace
    <2>4. m \in 1..Shared(left, right) /\ ItemOps(left, right)[m] # <<>>
      BY <2>3 DEF I
    <2>5. \A i \in 1..m - 1 : ItemOps(left, right)[i] = <<>>
      <3>1. ASSUME NEW i \in 1..m - 1 PROVE i \in 1..Shared(left, right)
        BY <1>3, <2>4
      <3> QED
        BY <2>3, <3>1 DEF I
    <2> QED
      BY <2>4, <2>5, ArrayItemMoves
  <1> QED
    BY <1>1, <1>2

-----------------------------------------------------------------------------
(* One operation on a value.                                               *)

LEMMA SettledSides ==
  ASSUME NEW n \in 0..MaxDepth, NEW a \in Sides(n)
  PROVE  diffOps(a, a) = <<>>
  BY EqualItself, DiffOfOthers

LEMMA AtTheRoot ==
  ASSUME NEW v
  PROVE  /\ \A x \in Diffable[MaxDepth] :
              /\ SpecOp(v, Resolved(Add(<<>>, x))) = x
              /\ SpecOp(v, Resolved(Replace(<<>>, x))) = x /\ Inside(Replace(<<>>, x))
         /\ SpecOp(v, Resolved(Delete(<<>>))) = Void
  <1>1. <<>> \in Pointers /\ ParseJSONPointer(<<>>) = <<>>
    <2>1. \A t \in DOMAIN Spelling : <<>> \in Pointers /\ ParseJSONPointer(<<>>) = <<>>
      BY PointerAlone
    <2>2. 1 \in 1..MaxIndex + 1
      BY TokensAssumption
    <2>3. Item(1) \in DOMAIN Spelling
      BY <2>2, ItemIs
    <2> QED
      BY <2>1, <2>3
  <1>2. ASSUME NEW x \in Diffable[MaxDepth]
        PROVE  /\ SpecOp(v, Resolved(Add(<<>>, x))) = x
               /\ SpecOp(v, Resolved(Replace(<<>>, x))) = x /\ Inside(Replace(<<>>, x))
    <2>1. x.kind \notin {"void", "invalid"} /\ ~IsVoid(x)
      BY NotInvalid, DepthAssumption DEF IsVoid
    <2> DEFINE add == Add(<<>>, x)
               replace == Replace(<<>>, x)
    <2>2. add \in Operations /\ replace \in Operations
      BY <1>1, OperationsAre
    <2>3. /\ add.op = "add" /\ add.path = <<>> /\ add.value = x
          /\ replace.op = "replace" /\ replace.path = <<>> /\ replace.value = x
      BY DEF Add, Replace
    <2> HIDE DEF add, replace
    <2>4. SpecOp(v, Resolved(add)) = SpecAdd(v, <<>>, x)
      BY <1>1, <2>2, <2>3, SpecOpIs
    <2>5. SpecOp(v, Resolved(replace)) = SpecReplace(v, <<>>, x)
      BY <1>1, <2>2, <2>3, SpecOpIs
    <2>6. SpecAdd(v, <<>>, x) = x
      BY <2>1, Zenon DEF SpecAdd
    <2>7. SpecReplace(v, <<>>, x) = x
      BY <2>1, Zenon DEF SpecReplace
    <2>8. Inside(replace)
      BY <2>3, Zenon DEF Inside
    <2> QED
      BY <2>4, <2>5, <2>6, <2>7, <2>8 DEF add, replace
  <1>3. SpecOp(v, Resolved(Delete(<<>>))) = Void
    <2> DEFINE delete == Delete(<<>>)
    <2>1. delete \in Operations
      BY <1>1, OperationsAre
    <2>2. delete.op = "remove" /\ delete.path = <<>>
      BY DEF Delete
    <2> HIDE DEF delete
    <2>3. SpecOp(v, Resolved(delete)) = SpecRemove(v, <<>>)
      BY <1>1, <2>1, <2>2, SpecOpIs
    <2>4. SpecRemove(v, <<>>) = Void
      BY Zenon DEF SpecRemove
    <2> QED
      BY <2>3, <2>4 DEF delete
  <1> QED
    BY <1>2, <1>3

\* When the diff is one operation that puts the other value in the place.
LEMMA MovedAtOnce ==
  ASSUME NEW n \in 0..MaxDepth, NEW a \in Sides(n), NEW b \in Sides(n), NEW op,
         diffOps(a, b) = <<op>>, SpecOp(a, Resolved(op)) = b,
         ~IsVoid(a) /\ ~IsVoid(b) => Inside(op)
  PROVE  Moved(n, a, b)
  <1>1. Head(diffOps(a, b)) = op /\ Tail(diffOps(a, b)) = <<>>
    BY OneElement
  <1>2. diffOps(b, b) = <<>>
    BY SettledSides
  <1> QED
    BY <1>1, <1>2, Zenon DEF Moved

LEMMA MoveStep ==
  ASSUME NEW n \in 0..MaxDepth, n # 0 => MovesBelow(n - 1), NEW a \in Sides(n), NEW b \in Sides(n),
         diffOps(a, b) # <<>>
  PROVE  Moved(n, a, b)
  <1>1. ~valuesEqual(a, b)
    BY EmptyIff
  <1>2. ASSUME NEW x \in Sides(n), ~IsVoid(x) PROVE x \in Diffable[MaxDepth]
    BY <1>2, DiffableWithin, VoidIsVoid DEF Sides
  <1>3. CASE IsVoid(a)
    <2>1. ~IsVoid(b)
      <3> SUFFICES ASSUME IsVoid(b) PROVE FALSE
        OBVIOUS
      <3>1. a = Void /\ b = Void
        BY <1>3, VoidSide
      <3> QED
        BY <1>1, <3>1, EqualItself
    <2>2. SpecOp(a, Resolved(Add(<<>>, b))) = b
      BY <1>2, <2>1, AtTheRoot
    <2>3. diffOps(a, b) = <<Add(<<>>, b)>>
      BY <1>1, <1>3, DiffOfOthers
    <2> DEFINE op == Add(<<>>, b)
    <2>4. diffOps(a, b) = <<op>> /\ SpecOp(a, Resolved(op)) = b
      BY <2>2, <2>3
    <2> HIDE DEF op
    <2> QED
      BY <1>3, <2>4, MovedAtOnce
  <1>4. CASE ~IsVoid(a) /\ IsVoid(b)
    <2>1. SpecOp(a, Resolved(Delete(<<>>))) = b
      BY <1>4, VoidSide, AtTheRoot
    <2>2. diffOps(a, b) = <<Delete(<<>>)>>
      BY <1>1, <1>4, DiffOfOthers
    <2> DEFINE op == Delete(<<>>)
    <2>3. diffOps(a, b) = <<op>> /\ SpecOp(a, Resolved(op)) = b
      BY <2>1, <2>2
    <2> HIDE DEF op
    <2> QED
      BY <1>4, <2>3, MovedAtOnce
  <1>5. CASE ~IsVoid(a) /\ ~IsVoid(b) /\ (a.kind # b.kind \/ ~IsContainer(a))
    <2>1. SpecOp(a, Resolved(Replace(<<>>, b))) = b /\ Inside(Replace(<<>>, b))
      BY <1>2, <1>5, AtTheRoot
    <2>2. diffOps(a, b) = <<Replace(<<>>, b)>>
      BY <1>1, <1>5, DiffOfOthers
    <2> DEFINE op == Replace(<<>>, b)
    <2>3. diffOps(a, b) = <<op>> /\ SpecOp(a, Resolved(op)) = b /\ Inside(op)
      BY <2>1, <2>2
    <2> HIDE DEF op
    <2> QED
      BY <2>3, MovedAtOnce
  <1>6. CASE a.kind = "object" /\ b.kind = "object"
    <2> DEFINE m == n - 1
               left == a.fields
               right == b.fields
    <2>1. /\ n # 0 /\ m \in 0..MaxDepth /\ m + 1 = n /\ a \in Diffable[n] /\ b \in Diffable[n]
          /\ a = Object(left) /\ left \in DiffFields(Diffable[m]) /\ right \in DiffFields(Diffable[m])
      BY <1>6, ObjectSide
    <2>2. MovesBelow(m)
      BY <2>1
    <2>3. diffOps(a, b) = ObjectOps(left, right)
      BY <1>6, <2>1, AnyObjects
    <2>7. m + 1 \in 0..MaxDepth
      BY <2>1
    <2>10. b.fields = right
      OBVIOUS
    <2> HIDE DEF m, left, right
    <2>4. ObjectMoved(m, left, right)
      BY <2>1, <2>2, <2>3, <2>7, ObjectMoves
    <2> DEFINE op == Head(diffOps(a, b))
    <2>5. PICK new \in DiffFields(Diffable[m]) :
            /\ SpecOp(Object(left), Resolved(op)) = Object(new)
            /\ ObjectOps(new, right) = Tail(ObjectOps(left, right))
            /\ Inside(op)
      BY <2>3, <2>4, Zenon DEF ObjectMoved
    <2>6. /\ Object(new) \in Diffable[n] /\ Object(new).kind = "object" /\ Object(new).fields = new
      BY <2>1, <2>7, ObjectValue
    <2>8. diffOps(Object(new), b) = ObjectOps(new, right)
      BY <1>6, <2>1, <2>6, <2>10, AnyObjects
    <2>9. ~IsVoid(Object(new)) /\ Object(new) \in Sides(n)
      BY <2>6, DiffableShape DEF Sides
    <2>11. SpecOp(a, Resolved(op)) = Object(new)
      BY <2>1, <2>5, Zenon
    <2> QED
      BY <2>3, <2>5, <2>8, <2>9, <2>11, Zenon DEF Moved
  <1>7. CASE a.kind = "array" /\ b.kind = "array"
    <2> DEFINE m == n - 1
               left == a.items
               right == b.items
    <2>1. /\ n # 0 /\ m \in 0..MaxDepth /\ m + 1 = n /\ a \in Diffable[n] /\ b \in Diffable[n]
          /\ a = Array(left) /\ left \in DiffItems(Diffable[m]) /\ right \in DiffItems(Diffable[m])
      BY <1>7, ArraySide
    <2>2. MovesBelow(m)
      BY <2>1
    <2>3. diffOps(a, b) = ArrayOps(left, right)
      BY <1>7, <2>1, AnyArrays
    <2>7. m + 1 \in 0..MaxDepth
      BY <2>1
    <2>10. b.items = right
      OBVIOUS
    <2> HIDE DEF m, left, right
    <2>4. ArrayMoved(m, left, right)
      BY <2>1, <2>2, <2>3, <2>7, ArrayMoves
    <2> DEFINE op == Head(diffOps(a, b))
    <2>5. PICK new \in DiffItems(Diffable[m]) :
            /\ SpecOp(Array(left), Resolved(op)) = Array(new)
            /\ ArrayOps(new, right) = Tail(ArrayOps(left, right))
            /\ Inside(op)
      BY <2>3, <2>4, Zenon DEF ArrayMoved
    <2>6. /\ Array(new) \in Diffable[n] /\ Array(new).kind = "array" /\ Array(new).items = new
      BY <2>1, <2>7, ArrayValue
    <2>8. diffOps(Array(new), b) = ArrayOps(new, right)
      BY <1>7, <2>1, <2>6, <2>10, AnyArrays
    <2>9. ~IsVoid(Array(new)) /\ Array(new) \in Sides(n)
      BY <2>6, DiffableShape DEF Sides
    <2>11. SpecOp(a, Resolved(op)) = Array(new)
      BY <2>1, <2>5, Zenon
    <2> QED
      BY <2>3, <2>5, <2>8, <2>9, <2>11, Zenon DEF Moved
  <1> QED
    BY <1>3, <1>4, <1>5, <1>6, <1>7 DEF IsContainer

\* An operation of a diff does what it is for, and leaves the rest to the others.
LEMMA OneStep ==
  ASSUME NEW n \in 0..MaxDepth
  PROVE  \A a, b \in Sides(n) : diffOps(a, b) # <<>> => Moved(n, a, b)
  <1> DEFINE Moves(m) == \A a, b \in Sides(m) : diffOps(a, b) # <<>> => Moved(m, a, b)
             T == {m \in Nat : m <= MaxDepth => Moves(m)}
  <1>1. 0 \in T
    <2>1. 0 \in 0..MaxDepth
      BY DepthAssumption
    <2>2. Moves(0)
      BY <2>1, MoveStep
    <2> HIDE DEF Moves
    <2> QED
      BY <2>2
  <1>2. ASSUME NEW m \in Nat, m \in T PROVE m + 1 \in T
    <2>1. CASE m + 1 <= MaxDepth
      <3>1. m + 1 \in 0..MaxDepth /\ (m + 1) - 1 = m /\ m <= MaxDepth
        BY <2>1, DepthAssumption
      <3>2. Moves(m)
        <4> HIDE DEF Moves
        <4> QED
          BY <1>2, <3>1
      <3>3. MovesBelow(m)
        <4>1. \A v \in Diffable[m] : v \in Sides(m)
          BY DEF Sides
        <4> QED
          BY <3>2, <4>1, Zenon DEF MovesBelow
      <3>4. MovesBelow((m + 1) - 1)
        BY <3>1, <3>3
      <3>5. Moves(m + 1)
        BY <3>1, <3>4, MoveStep
      <3> HIDE DEF Moves
      <3> QED
        BY <3>5
    <2>2. CASE ~(m + 1 <= MaxDepth)
      <3> HIDE DEF Moves
      <3> QED
        BY <2>2
    <2> QED
      BY <2>1, <2>2
  <1> HIDE DEF T
  <1>3. \A m \in Nat : m \in T
    BY <1>1, <1>2, Induction
  <1>4. n \in Nat /\ n <= MaxDepth
    BY DepthAssumption
  <1>5. n \in T
    BY <1>3, <1>4
  <1> HIDE DEF Moves
  <1>6. Moves(n)
    BY <1>4, <1>5 DEF T
  <1> QED
    BY <1>6 DEF Moves


-----------------------------------------------------------------------------
(* Normalising does not tell equal values apart.                           *)

\* b is in normal form.
Fixed(nested, entry, b) == nested[entry][b].ok /\ nested[entry][b].value = b

\* a is accepted, and equals b when it is normalised.
Follows(nested, entry, a, b, values) ==
  /\ nested[entry][a].ok
  /\ nested[entry][a].value \in values
  /\ valuesEqual(nested[entry][a].value, b)

Respects(nested, values) ==
  \A entry \in Entries : \A a, b \in values :
    valuesEqual(a, b) /\ Fixed(nested, entry, b) => Follows(nested, entry, a, b, values)

LEMMA DiffFieldsInTrees ==
  ASSUME NEW n \in 0..MaxDepth, NEW fields \in DiffFields(Diffable[n])
  PROVE  fields \in Seq(FieldsOf(STRING, Trees))
  <1> DEFINE K == STRING
  <1>1. fields \in Seq(FieldsOf(K, Diffable[n]))
    BY DiffFieldsAre
  <1> HIDE DEF K
  <1>2. Diffable[n] \subseteq Trees
    BY DiffableShape
  <1>3. FieldsOf(K, Diffable[n]) \subseteq FieldsOf(K, Trees)
    BY <1>2 DEF FieldsOf
  <1>4. fields \in Seq(FieldsOf(K, Trees))
    <2> DEFINE F == FieldsOf(K, Diffable[n])
               G == FieldsOf(K, Trees)
    <2>1. fields \in Seq(F) /\ F \subseteq G
      BY <1>1, <1>3
    <2> HIDE DEF F, G
    <2>2. fields \in Seq(G)
      BY <2>1
    <2> QED
      BY <2>2 DEF G
  <1> QED
    BY <1>4 DEF K

\* The field of a child is found where its key is.
LEMMA ChildFound ==
  ASSUME NEW n \in 0..MaxDepth, NEW fields \in DiffFields(Diffable[n]),
         NEW entry \in DOMAIN Schema, NEW nested, NEW i \in DOMAIN Children(entry)
  PROVE  LET child == Children(entry)[i]
             key   == NameAt(entry, i)
         IN  /\ key \in KeysOf(fields) =>
                  OutcomeFor(fields, child, nested) = nested[child][GetField(fields, key)]
             /\ key \notin KeysOf(fields) =>
                  OutcomeFor(fields, child, nested)
                    = IF ~IsVoid(Schema[child].default) THEN nested[child][Schema[child].default]
                      ELSE IF Schema[child].required THEN Failure ELSE Normal(Void)
  <1> DEFINE child == Children(entry)[i]
             key   == NameAt(entry, i)
             K     == STRING
  <1>1. fields \in Seq(FieldsOf(K, Diffable[n])) /\ Distinct(fields)
    BY DiffFieldsAre
  <1>2. FoundAt(fields, child) = LastField(fields, key)
    BY DEF FoundAt, LastField, NameAt
  <1> HIDE DEF K
  <1>3. /\ LastField(fields, key) > 0 <=> key \in KeysOf(fields)
        /\ LastField(fields, key) > 0 =>
             fields[LastField(fields, key)].value = GetField(fields, key)
    <2> HIDE DEF key
    <2> QED
      BY <1>1, LastFieldIs
  <1> HIDE DEF key
  <1>4. CASE key \in KeysOf(fields)
    <2>1. OutcomeFor(fields, child, nested) = nested[child][fields[FoundAt(fields, child)].value]
      BY <1>2, <1>3, <1>4 DEF OutcomeFor
    <2> QED
      BY <1>2, <1>3, <1>4, <2>1, Zenon DEF key
  <1>5. CASE key \notin KeysOf(fields)
    <2>1. ~(FoundAt(fields, child) > 0)
      BY <1>2, <1>3, <1>5
    <2>2. OutcomeFor(fields, child, nested)
            = IF ~IsVoid(Schema[child].default) THEN nested[child][Schema[child].default]
              ELSE IF Schema[child].required THEN Failure ELSE Normal(Void)
      BY <2>1, Zenon DEF OutcomeFor
    <2> QED
      BY <1>5, <2>2, Zenon DEF key
  <1> QED
    BY <1>4, <1>5

\* The fields of an object in normal form are what their children make of them.
LEMMA ChildFixed ==
  ASSUME NEW n \in 0..MaxDepth, NEW fields \in DiffFields(Diffable[n]),
         NEW entry \in DOMAIN Schema, NEW nested, NEW i \in DOMAIN Children(entry),
         Rejoined(fields, Children(entry), nested) = fields
  PROVE  LET outcome == OutcomeFor(fields, Children(entry)[i], nested)
             key     == NameAt(entry, i)
         IN  /\ key \in KeysOf(fields) => outcome.value = GetField(fields, key)
             /\ key \notin KeysOf(fields) => IsVoid(outcome.value)
  <1> DEFINE children == Children(entry)
             known == KnownFields(fields, children, nested)
             unknown == UnknownPlaces(fields, children)
             outcome == OutcomeFor(fields, children[i], nested)
             key == NameAt(entry, i)
  <1>1. fields \in Seq(FieldsOf(STRING, Trees))
    BY DiffFieldsInTrees
  <1>2. /\ DOMAIN known = DOMAIN children
        /\ \A j \in DOMAIN known :
             /\ known[j].key = NameAt(entry, j)
             /\ known[j].value = OutcomeFor(fields, children[j], nested).value
             /\ ChildEntry(entry, known[j].key) = children[j]
             /\ children[j] \in DOMAIN Schema
        /\ unknown \subseteq DOMAIN fields
        /\ \A j \in unknown : ChildEntry(entry, fields[j].key) = NoEntry
    BY <1>1, ObjectParts
  <1>3. /\ \A k \in DOMAIN fields :
             \/ \E j \in DOMAIN known : fields[k] = known[j] /\ ~IsVoid(known[j].value)
             \/ \E j \in unknown : fields[k] = fields[j]
        /\ \A j \in DOMAIN known :
             ~IsVoid(known[j].value) => \E k \in DOMAIN fields : fields[k] = known[j]
    <2> DEFINE t == Rejoined(fields, Children(entry), nested)
    <2>1. /\ \A k \in DOMAIN t :
               \/ \E j \in DOMAIN known : t[k] = known[j] /\ ~IsVoid(known[j].value)
               \/ \E j \in unknown : t[k] = fields[j]
          /\ \A j \in DOMAIN known :
               ~IsVoid(known[j].value) => \E k \in DOMAIN t : t[k] = known[j]
      BY <1>1, ObjectRejoined
    <2>2. t = fields
      OBVIOUS
    <2> HIDE DEF t, known, unknown
    <2> QED
      BY <2>1, <2>2, Zenon
  <1>4. /\ children[i] # NoEntry /\ ChildEntry(entry, key) = children[i]
        /\ known[i].key = key /\ known[i].value = outcome.value /\ i \in DOMAIN known
    <2> HIDE DEF known, unknown
    <2> QED
      BY <1>2, SchemaAssumption
  <1> HIDE DEF known, unknown
  <1>5. CASE key \in KeysOf(fields)
    <2>1. PICK k \in DOMAIN fields : fields[k].key = key
      BY <1>5 DEF KeysOf
    <2>2. fields[k].value = GetField(fields, key)
      BY <2>1, DiffFieldsAre
    <2>3. PICK j \in DOMAIN known : fields[k] = known[j]
      BY <1>2, <1>3, <1>4, <2>1
    <2>4. NameAt(entry, j) = key /\ j \in DOMAIN children
      BY <1>2, <2>1, <2>3
    <2>5. j = i
      <3>1. entry \in Entries
        BY DEF Entries
      <3>2. Rank(entry, NameAt(entry, j)) = j /\ Rank(entry, NameAt(entry, i)) = i
        BY <2>4, <3>1, RankIs
      <3> QED
        BY <2>4, <3>2
    <2>6. outcome.value = GetField(fields, key)
      BY <1>4, <2>2, <2>3, <2>5
    <2> QED
      BY <1>5, <2>6 DEF outcome, key
  <1>6. CASE key \notin KeysOf(fields)
    <2>1. \A k \in DOMAIN fields : fields[k].key # key
      BY <1>6 DEF KeysOf
    <2>2. IsVoid(outcome.value)
      BY <1>3, <1>4, <2>1
    <2> QED
      BY <1>6, <2>2 DEF outcome, key
  <1> QED
    BY <1>5, <1>6

SameFields(left, right) ==
  /\ KeysOf(left) = KeysOf(right)
  /\ \A k \in KeysOf(left) : valuesEqual(GetField(left, k), GetField(right, k))

\* Of two objects that are equal, the one in normal form.
Settled(fields, entry, nested) ==
  /\ \A i \in DOMAIN Children(entry) : OutcomeFor(fields, Children(entry)[i], nested).ok
  /\ Rejoined(fields, Children(entry), nested) = fields

LEMMA ChildFollows ==
  ASSUME NEW n \in 0..MaxDepth, NEW left \in DiffFields(Diffable[n]),
         NEW right \in DiffFields(Diffable[n]), SameFields(left, right),
         NEW entry \in DOMAIN Schema, NEW nested, Respects(nested, Diffable[n]),
         Settled(right, entry, nested), NEW i \in DOMAIN Children(entry)
  PROVE  LET outcome == OutcomeFor(left, Children(entry)[i], nested)
             key     == NameAt(entry, i)
         IN  /\ outcome.ok
             /\ key \in KeysOf(right) => /\ outcome.value \in Diffable[n]
                                         /\ valuesEqual(outcome.value, GetField(right, key))
             /\ key \notin KeysOf(right) => IsVoid(outcome.value)
  <1> DEFINE child == Children(entry)[i]
             outcome == OutcomeFor(left, child, nested)
             other == OutcomeFor(right, child, nested)
             key == NameAt(entry, i)
  <1>1. other.ok /\ Rejoined(right, Children(entry), nested) = right
    BY Zenon DEF Settled
  <1>2. /\ key \in KeysOf(right) => other.value = GetField(right, key)
        /\ key \notin KeysOf(right) => IsVoid(other.value)
    BY <1>1, ChildFixed
  <1>3. KeysOf(left) = KeysOf(right)
    BY DEF SameFields
  <1>4. child \in Entries
    <2>1. entry \in Entries
      BY DEF Entries
    <2>2. Children(entry) \in Seq(DOMAIN Schema)
      BY <2>1, RankIs
    <2> QED
      BY <2>2 DEF Entries
  <1>5. CASE key \in KeysOf(right)
    <2> DEFINE x == GetField(left, key)
               y == GetField(right, key)
    <2>1. x \in Diffable[n] /\ y \in Diffable[n]
      BY <1>3, <1>5, DiffFieldsAre
    <2>2. valuesEqual(x, y)
      BY <1>3, <1>5, Zenon DEF SameFields
    <2>3. outcome = nested[child][x] /\ other = nested[child][y]
      BY <1>3, <1>5, ChildFound
    <2> HIDE DEF x, child, outcome, other
    <2>4. Fixed(nested, child, y)
      <3> HIDE DEF key
      <3>1. other.value = y
        BY <1>2, <1>5
      <3> QED
        BY <1>1, <2>3, <3>1, Zenon DEF Fixed
    <2> HIDE DEF y
    <2>5. Follows(nested, child, x, y, Diffable[n])
      BY <1>4, <2>1, <2>2, <2>4, Zenon DEF Respects
    <2>6. outcome.ok /\ outcome.value \in Diffable[n] /\ valuesEqual(outcome.value, y)
      BY <2>3, <2>5, Zenon DEF Follows
    <2> QED
      BY <1>5, <2>6, Zenon DEF outcome, y, child
  <1>6. CASE key \notin KeysOf(right)
    <2>1. outcome = other
      <3>1. key \notin KeysOf(left)
        BY <1>3, <1>6
      <3> DEFINE missing == IF ~IsVoid(Schema[child].default)
                              THEN nested[child][Schema[child].default]
                              ELSE IF Schema[child].required THEN Failure ELSE Normal(Void)
      <3>2. key \notin KeysOf(left) => outcome = missing
        BY ChildFound
      <3>3. key \notin KeysOf(right) => other = missing
        BY ChildFound
      <3> HIDE DEF outcome, other, missing
      <3> QED
        BY <1>6, <3>1, <3>2, <3>3
    <2> HIDE DEF outcome, other
    <2>2. outcome.ok /\ IsVoid(outcome.value)
      BY <1>1, <1>2, <1>6, <2>1, Zenon
    <2> QED
      BY <1>6, <2>2, Zenon DEF outcome, child
  <1> QED
    BY <1>5, <1>6

LEMMA FollowingFields ==
  ASSUME NEW n \in 0..MaxDepth, NEW left \in DiffFields(Diffable[n]),
         NEW right \in DiffFields(Diffable[n]), SameFields(left, right),
         NEW entry \in DOMAIN Schema, NEW nested, Respects(nested, Diffable[n]),
         Settled(right, entry, nested)
  PROVE  LET new == Rejoined(left, Children(entry), nested)
         IN  new \in DiffFields(Diffable[n]) /\ SameFields(new, right)
  <1> DEFINE children == Children(entry)
             known == KnownFields(left, children, nested)
             unknown == UnknownPlaces(left, children)
             new == Rejoined(left, children, nested)
             K == STRING
  <1>1. /\ left \in Seq(FieldsOf(K, Trees)) /\ Distinct(left)
        /\ KeysOf(right) \subseteq Range(SortedKeys) /\ KeysOf(left) = KeysOf(right)
    BY DiffFieldsInTrees, DiffFieldsAre DEF SameFields
  <1>2. /\ DOMAIN known = DOMAIN children
        /\ \A i \in DOMAIN known :
             /\ known[i].key = NameAt(entry, i)
             /\ known[i].value = OutcomeFor(left, children[i], nested).value
        /\ unknown \subseteq DOMAIN left
    BY <1>1, ObjectParts
  <1>3. /\ new \in Seq(FieldsOf(K, FieldValues(known))) /\ Distinct(new)
        /\ \A k \in DOMAIN new :
             \/ \E i \in DOMAIN known : new[k] = known[i] /\ ~IsVoid(known[i].value)
             \/ \E i \in unknown : new[k] = left[i]
        /\ \A i \in DOMAIN known :
             ~IsVoid(known[i].value) => \E k \in DOMAIN new : new[k] = known[i]
    BY <1>1, ObjectRejoined
  <1>4. \A i \in unknown : \E k \in DOMAIN new : new[k] = left[i]
    <2> DEFINE V == FieldValues(known)
    <2>1. known \in Seq(FieldsOf(K, V)) /\ left \in Seq(FieldsOf(K, V))
      BY <1>1, ObjectParts
    <2>2. new = Together(known, left, unknown)
      BY DEF Rejoined
    <2> HIDE DEF known, unknown, new, K, V
    <2> QED
      BY <1>2, <2>1, <2>2, UnknownKept
  <1>5. \A j \in DOMAIN left : j \in unknown \/ \E i \in DOMAIN children : NameAt(entry, i) = left[j].key
    BY DEF UnknownPlaces, NameAt
  <1>6. ASSUME NEW i \in DOMAIN children
        PROVE  /\ NameAt(entry, i) \in KeysOf(right) =>
                    /\ known[i].value \in Diffable[n]
                    /\ valuesEqual(known[i].value, GetField(right, NameAt(entry, i)))
               /\ NameAt(entry, i) \notin KeysOf(right) => IsVoid(known[i].value)
    <2> DEFINE key == NameAt(entry, i)
               outcome == OutcomeFor(left, children[i], nested)
    <2>1. /\ key \in KeysOf(right) => /\ outcome.value \in Diffable[n]
                                      /\ valuesEqual(outcome.value, GetField(right, key))
          /\ key \notin KeysOf(right) => IsVoid(outcome.value)
      BY ChildFollows
    <2>2. known[i].value = outcome.value
      BY <1>2
    <2> HIDE DEF outcome, known
    <2> QED
      BY <2>1, <2>2
  <1> HIDE DEF known, unknown, new, K
  <1>7. ASSUME NEW k \in DOMAIN new
        PROVE  /\ new[k].key \in KeysOf(right) /\ new[k].value \in Diffable[n]
               /\ valuesEqual(new[k].value, GetField(right, new[k].key))
    <2>1. CASE \E i \in DOMAIN known : new[k] = known[i] /\ ~IsVoid(known[i].value)
      <3>1. PICK i \in DOMAIN known : new[k] = known[i] /\ ~IsVoid(known[i].value)
        BY <2>1
      <3>2. NameAt(entry, i) \in KeysOf(right)
        BY <1>2, <1>6, <3>1
      <3>3. new[k].key = NameAt(entry, i) /\ i \in DOMAIN children
        BY <1>2, <3>1
      <3> QED
        BY <1>6, <3>1, <3>2, <3>3
    <2>2. CASE \E i \in unknown : new[k] = left[i]
      <3>1. PICK i \in unknown : new[k] = left[i]
        BY <2>2
      <3>2. i \in DOMAIN left
        BY <1>2
      <3>3. /\ left[i].value \in Diffable[n] /\ left[i].key \in KeysOf(left)
            /\ GetField(left, left[i].key) = left[i].value
        BY <3>2, DiffFieldsAre
      <3>4. valuesEqual(GetField(left, left[i].key), GetField(right, left[i].key))
        BY <3>3, Zenon DEF SameFields
      <3> QED
        BY <1>1, <3>1, <3>3, <3>4
    <2> QED
      BY <1>3, <2>1, <2>2
  <1>8. KeysOf(new) = KeysOf(right)
    <2>1. KeysOf(new) \subseteq KeysOf(right)
      BY <1>7 DEF KeysOf
    <2>2. ASSUME NEW key \in KeysOf(right) PROVE key \in KeysOf(new)
      <3>1. PICK j \in DOMAIN left : left[j].key = key
        BY <1>1, <2>2 DEF KeysOf
      <3>2. CASE j \in unknown
        <4>1. PICK k \in DOMAIN new : new[k] = left[j]
          BY <1>4, <3>2
        <4> QED
          BY <3>1, <4>1 DEF KeysOf
      <3>3. CASE \E i \in DOMAIN children : NameAt(entry, i) = key
        <4>1. PICK i \in DOMAIN children : NameAt(entry, i) = key
          BY <3>3
        <4>2. known[i].value \in Diffable[n] /\ known[i].key = key /\ i \in DOMAIN known
          BY <1>2, <1>6, <2>2, <4>1
        <4>3. ~IsVoid(known[i].value)
          BY <4>2, DiffableShape
        <4>4. PICK k \in DOMAIN new : new[k] = known[i]
          BY <1>3, <4>2, <4>3
        <4> QED
          BY <4>2, <4>4 DEF KeysOf
      <3> QED
        BY <1>5, <3>1, <3>2, <3>3
    <2> QED
      BY <2>1, <2>2
  <1>9. new \in Seq(FieldsOf(K, Diffable[n]))
    <2> DEFINE F == FieldsOf(K, Diffable[n])
               G == FieldsOf(K, FieldValues(known))
    <2>1. \A k \in DOMAIN new : new[k] \in F
      <3>1. \A k \in DOMAIN new : new[k] \in G
        BY <1>3
      <3> QED
        BY <1>7, <3>1 DEF FieldsOf
    <2> HIDE DEF F, G
    <2>2. new \in Seq(G)
      BY <1>3 DEF G
    <2>3. new \in Seq(F)
      BY <2>1, <2>2
    <2> QED
      BY <2>3 DEF F
  <1>10. new \in DiffFields(Diffable[n])
    BY <1>1, <1>3, <1>8, <1>9 DEF DiffFields, K
  <1>11. \A k \in KeysOf(new) : valuesEqual(GetField(new, k), GetField(right, k))
    <2> SUFFICES ASSUME NEW key \in KeysOf(new)
                 PROVE  valuesEqual(GetField(new, key), GetField(right, key))
      OBVIOUS
    <2>1. PICK k \in DOMAIN new : new[k].key = key /\ new[k].value = GetField(new, key)
      BY <1>10, DiffFieldsAre
    <2>2. valuesEqual(new[k].value, GetField(right, new[k].key))
      BY <1>7
    <2> QED
      BY <2>1, <2>2, Zenon
  <1>12. SameFields(new, right)
    BY <1>8, <1>11, Zenon DEF SameFields
  <1> QED
    BY <1>10, <1>12 DEF new

\* normalizeObjectForSchema, of fields without hidden ones.
LEMMA NormalFields ==
  ASSUME NEW n \in 0..MaxDepth, NEW fields \in DiffFields(Diffable[n]),
         NEW entry \in DOMAIN Schema, NEW nested
  PROVE  normalizeObjectForSchema(fields, Schema[entry].children, nested)
           = IF \E i \in DOMAIN Children(entry) : ~OutcomeFor(fields, Children(entry)[i], nested).ok
               THEN Failure ELSE Normal(Object(Rejoined(fields, Children(entry), nested)))
  <1> DEFINE children == Children(entry)
  <1>1. nonVoidObjectFields(fields) = fields
    BY DiffFieldsAre, NeatFields
  <1>2. children = Schema[entry].children
    BY SchemaAssumption DEF Children
  <1>3. normalizeObjectForSchema(fields, children, nested)
          = IF \E i \in DOMAIN children : ~OutcomeFor(nonVoidObjectFields(fields), children[i], nested).ok
              THEN Failure
              ELSE Normal(Object(Rejoined(nonVoidObjectFields(fields), children, nested)))
    BY NormalObjectIs
  <1> HIDE DEF children
  <1> QED
    BY <1>1, <1>2, <1>3, Zenon DEF children

LEMMA ObjectFollows ==
  ASSUME NEW n \in 0..MaxDepth, n + 1 \in 0..MaxDepth,
         NEW left \in DiffFields(Diffable[n]), NEW right \in DiffFields(Diffable[n]),
         SameFields(left, right),
         NEW entry \in DOMAIN Schema, NEW nested, Respects(nested, Diffable[n]),
         normalizeObjectForSchema(right, Schema[entry].children, nested).ok,
         normalizeObjectForSchema(right, Schema[entry].children, nested).value = Object(right)
  PROVE  \E new \in DiffFields(Diffable[n]) :
           /\ SameFields(new, right)
           /\ normalizeObjectForSchema(left, Schema[entry].children, nested) = Normal(Object(new))
  <1> DEFINE norm(f) == normalizeObjectForSchema(f, Schema[entry].children, nested)
             failed(f) == \E i \in DOMAIN Children(entry) : ~OutcomeFor(f, Children(entry)[i], nested).ok
             new(f) == Rejoined(f, Children(entry), nested)
  <1>1. /\ norm(right) = IF failed(right) THEN Failure ELSE Normal(Object(new(right)))
        /\ norm(left) = IF failed(left) THEN Failure ELSE Normal(Object(new(left)))
    BY NormalFields, Zenon
  <1>2. norm(right).ok /\ norm(right).value = Object(right)
    OBVIOUS
  <1>3. ~failed(right) /\ new(right) = right
    <2> HIDE DEF norm, failed, new
    <2>1. ~failed(right)
      BY <1>1, <1>2, FailureIs, Zenon
    <2>2. Object(new(right)) = Object(right)
      <3>1. norm(right) = Normal(Object(new(right)))
        BY <1>1, <2>1, Zenon
      <3>2. Normal(Object(new(right))).value = Object(new(right))
        BY NormalIs
      <3> QED
        BY <1>2, <3>1, <3>2, Zenon
    <2> QED
      BY <2>1, <2>2 DEF Object
  <1>4. Settled(right, entry, nested)
    BY <1>3, Zenon DEF Settled
  <1>5. ~failed(left)
    BY <1>4, ChildFollows, Zenon
  <1>6. new(left) \in DiffFields(Diffable[n]) /\ SameFields(new(left), right)
    BY <1>4, FollowingFields
  <1> QED
    BY <1>1, <1>5, <1>6, Zenon

LEMMA NormalItems ==
  ASSUME NEW n \in 0..MaxDepth, NEW items \in DiffItems(Diffable[n]), NEW below, NEW nested
  PROVE  normalizeArrayForSchema(items, below, nested)
           = IF \E i \in DOMAIN items : ~nested[below][items[i]].ok
               THEN Failure
               ELSE Normal(Array([i \in DOMAIN items |-> nested[below][items[i]].value]))
  <1> DEFINE source == Those(items, {i \in DOMAIN items : ~IsVoid(items[i])})
             outcomes == [i \in DOMAIN source |-> nested[below][source[i]]]
             plain == [i \in DOMAIN items |-> nested[below][items[i]]]
             Result(o) == IF \E i \in DOMAIN o : ~o[i].ok
                            THEN Failure ELSE Normal(Array([i \in DOMAIN o |-> o[i].value]))
  <1>1. source = items
    <2>1. items \in Seq(Diffable[n]) /\ \A v \in Diffable[n] : ~IsVoid(v)
      <3>1. \A v \in Diffable[n] : ~IsVoid(v)
        BY DiffableShape
      <3> QED
        BY <3>1 DEF DiffItems
    <2>2. {i \in DOMAIN items : ~IsVoid(items[i])} = DOMAIN items
      <3>1. \A i \in DOMAIN items : items[i] \in Diffable[n]
        BY <2>1
      <3>2. \A i \in DOMAIN items : ~IsVoid(items[i])
        BY <2>1, <3>1
      <3> HIDE DEF IsVoid
      <3> QED
        BY <3>2
    <2> QED
      BY <2>1, <2>2, ThoseAll
  <1>2. outcomes = plain
    BY <1>1
  <1>3. normalizeArrayForSchema(items, below, nested) = Result(outcomes)
    BY DEF normalizeArrayForSchema
  <1>4. normalizeArrayForSchema(items, below, nested) = Result(plain)
    <2> HIDE DEF outcomes, plain, Result
    <2> QED
      BY <1>2, <1>3
  <1> QED
    BY <1>4

LEMMA ArrayFollows ==
  ASSUME NEW n \in 0..MaxDepth, n + 1 \in 0..MaxDepth,
         NEW left \in DiffItems(Diffable[n]), NEW right \in DiffItems(Diffable[n]),
         Len(left) = Len(right), \A i \in DOMAIN left : valuesEqual(left[i], right[i]),
         NEW below \in Entries, NEW nested, Respects(nested, Diffable[n]),
         normalizeArrayForSchema(right, below, nested).ok,
         normalizeArrayForSchema(right, below, nested).value = Array(right)
  PROVE  \E new \in DiffItems(Diffable[n]) :
           /\ Len(new) = Len(right) /\ \A i \in DOMAIN new : valuesEqual(new[i], right[i])
           /\ normalizeArrayForSchema(left, below, nested) = Normal(Array(new))
  <1> DEFINE norm(s) == normalizeArrayForSchema(s, below, nested)
             failed(s) == \E i \in DOMAIN s : ~nested[below][s[i]].ok
             new(s) == [i \in DOMAIN s |-> nested[below][s[i]].value]
             next == new(left)
  <1>1. /\ norm(right) = IF failed(right) THEN Failure ELSE Normal(Array(new(right)))
        /\ norm(left) = IF failed(left) THEN Failure ELSE Normal(Array(new(left)))
    BY NormalItems, Zenon
  <1>2. norm(right).ok /\ norm(right).value = Array(right)
    OBVIOUS
  <1>3. ~failed(right) /\ new(right) = right
    <2> HIDE DEF norm, failed, new
    <2>1. ~failed(right)
      BY <1>1, <1>2, FailureIs, Zenon
    <2>2. Array(new(right)) = Array(right)
      <3>1. norm(right) = Normal(Array(new(right)))
        BY <1>1, <2>1, Zenon
      <3>2. Normal(Array(new(right))).value = Array(new(right))
        BY NormalIs
      <3> QED
        BY <1>2, <3>1, <3>2, Zenon
    <2> QED
      BY <2>1, <2>2 DEF Array
  <1>4. /\ left \in Seq(Diffable[n]) /\ right \in Seq(Diffable[n])
        /\ Len(left) <= MaxIndex + 1 /\ DOMAIN left = DOMAIN right
    BY DEF DiffItems
  <1>5. ASSUME NEW i \in DOMAIN left
        PROVE  Follows(nested, below, left[i], right[i], Diffable[n])
    <2>1. left[i] \in Diffable[n] /\ right[i] \in Diffable[n] /\ valuesEqual(left[i], right[i])
      BY <1>4
    <2>2. Fixed(nested, below, right[i])
      <3>1. nested[below][right[i]].ok
        BY <1>3, <1>4, Zenon
      <3>2. new(right)[i] = nested[below][right[i]].value
        BY <1>4
      <3>3. nested[below][right[i]].value = right[i]
        <4> HIDE DEF new
        <4> QED
          BY <1>3, <3>2
      <3> QED
        BY <3>1, <3>3, Zenon DEF Fixed
    <2> QED
      BY <2>1, <2>2, Zenon DEF Respects
  <1>6. ~failed(left)
    BY <1>5, Zenon DEF Follows
  <1>7. \A i \in DOMAIN left :
          nested[below][left[i]].value \in Diffable[n]
            /\ valuesEqual(nested[below][left[i]].value, right[i])
    BY <1>5, Zenon DEF Follows
  <1>8. next \in Seq(Diffable[n]) /\ Len(next) = Len(left) /\ DOMAIN next = DOMAIN left
    <2> DEFINE D == Diffable[n]
               Value(i) == nested[below][left[i]].value
    <2>1. \A i \in DOMAIN left : Value(i) \in D
      BY <1>7
    <2>2. next = [i \in 1..Len(left) |-> Value(i)]
      BY <1>4
    <2> HIDE DEF D, Value, next
    <2>3. next \in Seq(D) /\ Len(next) = Len(left) /\ DOMAIN next = DOMAIN left
      BY <1>4, <2>1, <2>2
    <2> QED
      BY <2>3 DEF D
  <1>9. \A i \in DOMAIN next : valuesEqual(next[i], right[i])
    <2> SUFFICES ASSUME NEW i \in DOMAIN next PROVE valuesEqual(next[i], right[i])
      OBVIOUS
    <2>1. i \in DOMAIN left
      BY <1>8
    <2>2. next[i] = nested[below][left[i]].value
      BY <2>1
    <2> HIDE DEF next
    <2> QED
      BY <1>7, <2>1, <2>2, Zenon
  <1>10. norm(left) = Normal(Array(next))
    BY <1>1, <1>6, Zenon
  <1>11. next \in DiffItems(Diffable[n])
    <2> HIDE DEF next
    <2> QED
      BY <1>4, <1>8 DEF DiffItems
  <1>12. Len(next) = Len(right)
    <2> HIDE DEF next
    <2> QED
      BY <1>8
  <1> HIDE DEF next
  <1> QED
    BY <1>9, <1>10, <1>11, <1>12

LEMMA ScalarFollows ==
  ASSUME NEW n \in 0..MaxDepth, NEW a \in Diffable[n], NEW b \in Diffable[n],
         valuesEqual(a, b), ~IsContainer(a), NEW entry \in DOMAIN Schema, NEW nested,
         normalizeGoverned(b, Schema[entry], nested).ok
  PROVE  normalizeGoverned(a, Schema[entry], nested) = Normal(a)
  <1> DEFINE e == Schema[entry]
             norm(v) == normalizeGoverned(v, e, nested)
  <1>1. /\ a \in DiffScalars /\ b \in DiffScalars /\ a.kind = b.kind /\ AlikeScalars(a, b)
    <2>1. a.kind = b.kind
      BY EqualKinds DEF Sides
    <2>2. ~IsContainer(b)
      BY <2>1, Zenon DEF IsContainer
    <2>3. AlikeScalars(a, b)
      <3>1. a \in Sides(n) /\ b \in Sides(n)
        BY DEF Sides
      <3>2. Alike(a, b, equal[MaxDepth])
        BY <3>1, EqualIff
      <3> QED
        BY <3>2, Zenon DEF Alike
    <2> QED
      BY <2>1, <2>2, <2>3, DiffableShape
  <1>2. /\ a \in ScalarValues /\ ~IsVoid(a) /\ (a.kind = "number" => a.text \in DOMAIN NumberValue)
        /\ b \in ScalarValues /\ ~IsVoid(b) /\ (b.kind = "number" => b.text \in DOMAIN NumberValue)
    BY <1>1, DiffScalarIs
  <1>3. norm(b).ok
    OBVIOUS
  <1>0. /\ a = Null \/ a.kind \in {"boolean", "number", "string"}
        /\ Null.kind = "null"
    <2>1. a # Void
      BY <1>2, VoidIs
    <2>2. a = Null \/ a \in [kind : {"boolean", "number", "string"}, text : STRING]
      BY <1>2, <2>1 DEF ScalarValues
    <2>3. Null.kind = "null"
      BY DEF Null, Scalar
    <2> QED
      BY <2>2, <2>3
  <1>4. CASE a.kind = "null"
    <2>1. a = Null
      BY <1>0, <1>4
    <2>2. CASE e.kind = "null" \/ e.nullable
      BY <1>4, <2>1, <2>2, Zenon DEF normalizeGoverned
    <2>3. CASE ~(e.kind = "null" \/ e.nullable)
      <3>1. norm(b) = Failure
        BY <1>1, <1>4, <2>3, Zenon DEF normalizeGoverned
      <3> HIDE DEF norm
      <3> QED
        BY <1>3, <3>1, FailureIs, Zenon
    <2> QED
      BY <2>2, <2>3
  <1>5. CASE a.kind # "null"
    <2>1. a.kind \in {"boolean", "number", "string"}
      BY <1>0, <1>5
    <2>2. e.kind = a.kind
      <3> SUFFICES ASSUME b.kind # e.kind PROVE FALSE
        BY <1>1
      <3>1. norm(b) = Failure
        BY <1>1, <1>5, Zenon DEF normalizeGoverned
      <3> HIDE DEF norm
      <3> QED
        BY <1>3, <3>1, FailureIs, Zenon
    <2>3. CASE a.kind = "boolean"
      BY <2>2, <2>3 DEF normalizeGoverned
    <2>4. CASE a.kind \in {"string", "number"}
      <3>1. norm(b) = IF b.text \in e.accepts THEN Normal(b) ELSE Failure
        BY <1>1, <2>2, <2>4 DEF normalizeGoverned
      <3>2. norm(a) = IF a.text \in e.accepts THEN Normal(a) ELSE Failure
        BY <2>2, <2>4 DEF normalizeGoverned
      <3>3. b.text \in e.accepts
        <4> HIDE DEF norm, e
        <4> QED
          BY <1>3, <3>1, FailureIs, Zenon
      <3>4. a.text \in e.accepts
        <4>1. CASE a.kind = "string"
          BY <1>1, <3>3, <4>1 DEF AlikeScalars
        <4>2. CASE a.kind = "number"
          <5>1. NumberValue[a.text] = NumberValue[b.text]
            BY <1>1, <4>2 DEF AlikeScalars
          <5>2. e.kind = "number" /\ a.text \in DOMAIN NumberValue /\ b.text \in DOMAIN NumberValue
            BY <1>1, <1>2, <2>2, <4>2
          <5> QED
            BY <3>3, <5>1, <5>2, NumbersAssumption, Zenon
        <4> QED
          BY <2>4, <4>1, <4>2
      <3> HIDE DEF norm
      <3> QED
        BY <3>2, <3>4, Zenon DEF norm
    <2> QED
      BY <2>1, <2>3, <2>4
  <1> QED
    BY <1>4, <1>5

LEMMA ParentSide ==
  ASSUME NEW m \in 0..MaxDepth, NEW a \in Diffable[m], NEW b \in Diffable[m], valuesEqual(a, b),
         NEW entry \in DOMAIN Schema, NEW nested, m # 0 => Respects(nested, Diffable[m - 1]),
         normalizeGoverned(b, Schema[entry], nested).ok,
         normalizeGoverned(b, Schema[entry], nested).value = b
  PROVE  \E new \in Diffable[m] :
           normalizeGoverned(a, Schema[entry], nested) = Normal(new) /\ valuesEqual(new, b)
  <1> DEFINE e == Schema[entry]
             norm(v) == normalizeGoverned(v, e, nested)
  <1>1. norm(b).ok /\ norm(b).value = b
    OBVIOUS
  <1>2. a.kind = b.kind /\ a \in Sides(m) /\ b \in Sides(m)
    BY EqualKinds DEF Sides
  <1>3. CASE ~IsContainer(a)
    BY <1>1, <1>3, ScalarFollows
  <1>4. CASE IsContainer(a)
    <2>1. e.kind = a.kind
      <3> SUFFICES ASSUME b.kind # e.kind PROVE FALSE
        BY <1>2
      <3>1. b.kind # "null"
        BY <1>2, <1>4 DEF IsContainer
      <3>2. norm(b) = Failure
        BY <3>1, Zenon DEF normalizeGoverned
      <3> HIDE DEF norm
      <3> QED
        BY <1>1, <3>2, FailureIs, Zenon
    <2>2. CASE a.kind = "object"
      <3>1. /\ m # 0 /\ m - 1 \in 0..MaxDepth /\ (m - 1) + 1 = m
            /\ a = Object(a.fields) /\ a.fields \in DiffFields(Diffable[m - 1])
            /\ b = Object(b.fields) /\ b.fields \in DiffFields(Diffable[m - 1])
        BY <1>2, <2>2, ObjectSide
      <3>2. SameFields(a.fields, b.fields)
        <4>1. /\ KeysOf(a.fields) = KeysOf(b.fields)
              /\ \A k \in KeysOf(a.fields) : valuesEqual(GetField(a.fields, k), GetField(b.fields, k))
          BY <1>2, <2>2, EqualObjects, Zenon
        <4> QED
          BY <4>1, Zenon DEF SameFields
      <3> DEFINE object(v) == normalizeObjectForSchema(v.fields, e.children, nested)
      <3>3. norm(a) = object(a) /\ norm(b) = object(b)
        BY <1>2, <2>1, <2>2 DEF normalizeGoverned
      <3>4. object(b).ok /\ object(b).value = Object(b.fields)
        <4> HIDE DEF norm, object
        <4> QED
          BY <1>1, <3>1, <3>3, Zenon
      <3>5. Respects(nested, Diffable[m - 1])
        BY <3>1
      <3>6. PICK new \in DiffFields(Diffable[m - 1]) :
              /\ SameFields(new, b.fields)
              /\ object(a) = Normal(Object(new))
        <4> DEFINE k == m - 1
                   left == a.fields
                   right == b.fields
        <4>1. k \in 0..MaxDepth /\ k + 1 \in 0..MaxDepth /\ Respects(nested, Diffable[k])
              /\ left \in DiffFields(Diffable[k]) /\ right \in DiffFields(Diffable[k])
              /\ SameFields(left, right)
          BY <3>1, <3>2, <3>5
        <4>2. /\ normalizeObjectForSchema(right, Schema[entry].children, nested).ok
              /\ normalizeObjectForSchema(right, Schema[entry].children, nested).value = Object(right)
          BY <3>4, Zenon
        <4> HIDE DEF k, left, right
        <4>3. \E new \in DiffFields(Diffable[k]) :
                 /\ SameFields(new, right)
                 /\ normalizeObjectForSchema(left, Schema[entry].children, nested) = Normal(Object(new))
          <5>1. entry \in DOMAIN Schema
            OBVIOUS
          <5> QED
            BY ONLY <4>1, <4>2, <5>1, ObjectFollows
        <4> QED
          BY <4>3, Zenon DEF k, left, right
      <3> DEFINE v == Object(new)
      <3>7. v \in Diffable[m] /\ v.kind = "object" /\ v.fields = new
        <4>1. Object(new) \in Diffable[(m - 1) + 1]
          BY <3>1, SideFromFields
        <4> QED
          BY <3>1, <4>1 DEF Object
      <3> HIDE DEF v
      <3>8. valuesEqual(v, b)
        <4>1. /\ KeysOf(v.fields) = KeysOf(b.fields)
              /\ \A k \in KeysOf(v.fields) : valuesEqual(GetField(v.fields, k), GetField(b.fields, k))
          BY <3>6, <3>7, Zenon DEF SameFields
        <4> QED
          BY <1>2, <2>2, <3>7, <4>1, EqualObjects, Zenon
      <3>9. norm(a) = Normal(v)
        BY <3>3, <3>6, Zenon DEF v
      <3> QED
        BY <3>7, <3>8, <3>9
    <2>3. CASE a.kind = "array"
      <3>1. /\ m # 0 /\ m - 1 \in 0..MaxDepth /\ (m - 1) + 1 = m
            /\ a = Array(a.items) /\ a.items \in DiffItems(Diffable[m - 1])
            /\ b = Array(b.items) /\ b.items \in DiffItems(Diffable[m - 1])
        BY <1>2, <2>3, ArraySide
      <3>2. /\ Len(a.items) = Len(b.items)
            /\ \A i \in DOMAIN a.items : valuesEqual(a.items[i], b.items[i])
        BY <1>2, <2>3, EqualArrays, Zenon
      <3> DEFINE array(v) == normalizeArrayForSchema(v.items, e.items, nested)
      <3>3. norm(a) = array(a) /\ norm(b) = array(b)
        BY <1>2, <2>1, <2>3 DEF normalizeGoverned
      <3>4. array(b).ok /\ array(b).value = Array(b.items)
        <4> HIDE DEF norm, array
        <4> QED
          BY <1>1, <3>1, <3>3, Zenon
      <3>5. Respects(nested, Diffable[m - 1]) /\ e.items \in Entries
        BY <3>1, SchemaAssumption DEF Entries
      <3>6. PICK new \in DiffItems(Diffable[m - 1]) :
              /\ Len(new) = Len(b.items) /\ \A i \in DOMAIN new : valuesEqual(new[i], b.items[i])
              /\ array(a) = Normal(Array(new))
        <4> DEFINE k == m - 1
                   left == a.items
                   right == b.items
                   below == e.items
        <4>1. k \in 0..MaxDepth /\ k + 1 \in 0..MaxDepth /\ Respects(nested, Diffable[k])
              /\ left \in DiffItems(Diffable[k]) /\ right \in DiffItems(Diffable[k])
              /\ Len(left) = Len(right) /\ below \in Entries
          BY <3>1, <3>2, <3>5
        <4>2. \A i \in DOMAIN left : valuesEqual(left[i], right[i])
          BY <3>2
        <4>3. /\ normalizeArrayForSchema(right, below, nested).ok
              /\ normalizeArrayForSchema(right, below, nested).value = Array(right)
          BY <3>4, Zenon
        <4> HIDE DEF k, left, right, below
        <4>4. \E new \in DiffItems(Diffable[k]) :
                 /\ Len(new) = Len(right) /\ \A i \in DOMAIN new : valuesEqual(new[i], right[i])
                 /\ normalizeArrayForSchema(left, below, nested) = Normal(Array(new))
          BY <4>1, <4>2, <4>3, ArrayFollows
        <4> QED
          BY <4>4, Zenon DEF k, left, right, below
      <3> DEFINE v == Array(new)
      <3>7. v \in Diffable[m] /\ v.kind = "array" /\ v.items = new
        <4>1. Array(new) \in Diffable[(m - 1) + 1]
          BY <3>1, SideFromItems
        <4> QED
          BY <3>1, <4>1 DEF Array
      <3> HIDE DEF v
      <3>8. valuesEqual(v, b)
        <4>1. /\ Len(v.items) = Len(b.items)
              /\ \A i \in DOMAIN v.items : valuesEqual(v.items[i], b.items[i])
          BY <3>6, <3>7, Zenon
        <4> QED
          BY <1>2, <2>3, <3>7, <4>1, EqualArrays, Zenon
      <3>9. norm(a) = Normal(v)
        BY <3>3, <3>6, Zenon DEF v
      <3> QED
        BY <3>7, <3>8, <3>9
    <2> QED
      BY <1>4, <2>2, <2>3, Zenon DEF IsContainer
  <1> QED
    BY <1>3, <1>4

LEMMA LevelRespects ==
  ASSUME NEW m \in 0..MaxDepth, NEW n \in Nat,
         m # 0 /\ n # 0 => Respects(normalized[n - 1], Diffable[m - 1])
  PROVE  Respects(normalized[n], Diffable[m])
  <1> SUFFICES ASSUME NEW entry \in Entries, NEW a \in Diffable[m], NEW b \in Diffable[m],
                      valuesEqual(a, b), Fixed(normalized[n], entry, b)
               PROVE  Follows(normalized[n], entry, a, b, Diffable[m])
    BY Zenon DEF Respects
  <1> DEFINE norm(v) == normalized[n][entry][v]
  <1>1. \A new \in Diffable[m] : norm(a) = Normal(new) /\ valuesEqual(new, b) =>
          Follows(normalized[n], entry, a, b, Diffable[m])
    <2> SUFFICES ASSUME NEW new \in Diffable[m], norm(a) = Normal(new), valuesEqual(new, b)
                 PROVE  Follows(normalized[n], entry, a, b, Diffable[m])
      OBVIOUS
    <2>1. Normal(new).ok /\ Normal(new).value = new
      BY NormalIs
    <2> QED
      BY <2>1, Zenon DEF Follows
  <1>2. norm(b).ok /\ norm(b).value = b
    BY Zenon DEF Fixed
  <1>3. a \in Trees /\ b \in Trees
    BY DiffableShape
  <1>4. CASE n = 0
    <2>1. /\ norm(a) = IF entry = NoEntry THEN Normal(a) ELSE Failure
          /\ norm(b) = IF entry = NoEntry THEN Normal(b) ELSE Failure
      BY <1>3, <1>4, NormalizedAt
    <2> HIDE DEF norm
    <2>2. entry = NoEntry
      BY <1>2, <2>1, FailureIs, Zenon
    <2> QED
      BY <1>1, <2>1, <2>2, Zenon
  <1>5. CASE n # 0
    <2> DEFINE k == n - 1
               nested == normalized[k]
    <2>1. k \in Nat /\ k + 1 = n
      BY <1>5
    <2>2. /\ norm(a) = IF entry = NoEntry THEN Normal(a)
                       ELSE normalizeGoverned(a, Schema[entry], nested)
          /\ norm(b) = IF entry = NoEntry THEN Normal(b)
                       ELSE normalizeGoverned(b, Schema[entry], nested)
      <3> HIDE DEF k
      <3> QED
        BY <1>3, <2>1, NormalizedAt
    <2>3. m # 0 => Respects(nested, Diffable[m - 1])
      BY <1>5
    <2> HIDE DEF norm, nested
    <2>4. CASE entry = NoEntry
      BY <1>1, <2>2, <2>4, Zenon
    <2>5. CASE entry # NoEntry
      <3>1. entry \in DOMAIN Schema
        BY <2>5 DEF Entries
      <3>2. /\ normalizeGoverned(b, Schema[entry], nested).ok
            /\ normalizeGoverned(b, Schema[entry], nested).value = b
        BY <1>2, <2>2, <2>5, Zenon
      <3>3. \E new \in Diffable[m] :
              normalizeGoverned(a, Schema[entry], nested) = Normal(new) /\ valuesEqual(new, b)
        BY <2>3, <3>1, <3>2, ParentSide
      <3> QED
        BY <1>1, <2>2, <2>5, <3>3, Zenon
    <2> QED
      BY <2>4, <2>5
  <1> QED
    BY <1>4, <1>5

\* What equals a value in normal form is accepted, and equals it in normal form too.
LEMMA NormalRespects ==
  ASSUME NEW m \in 0..MaxDepth, NEW n \in Nat
  PROVE  Respects(normalized[n], Diffable[m])
  <1> DEFINE All(k) == \A l \in Nat : Respects(normalized[l], Diffable[k])
             T == {k \in Nat : k <= MaxDepth => All(k)}
  <1>1. 0 \in T
    <2>1. 0 \in 0..MaxDepth
      BY DepthAssumption
    <2>2. All(0)
      BY <2>1, LevelRespects
    <2> HIDE DEF All
    <2> QED
      BY <2>2
  <1>2. ASSUME NEW k \in Nat, k \in T PROVE k + 1 \in T
    <2>1. CASE k + 1 <= MaxDepth
      <3>1. k + 1 \in 0..MaxDepth /\ (k + 1) - 1 = k /\ k <= MaxDepth
        BY <2>1, DepthAssumption
      <3>2. All(k)
        <4> HIDE DEF All
        <4> QED
          BY <1>2, <3>1
      <3>3. ASSUME NEW l \in Nat PROVE Respects(normalized[l], Diffable[k + 1])
        <4>1. l # 0 => Respects(normalized[l - 1], Diffable[(k + 1) - 1])
          <5>1. l # 0 => l - 1 \in Nat
            OBVIOUS
          <5> QED
            BY <3>1, <3>2, <5>1
        <4> QED
          BY <3>1, <4>1, LevelRespects
      <3>4. All(k + 1)
        BY <3>3, Zenon
      <3> HIDE DEF All
      <3> QED
        BY <3>4
    <2>2. CASE ~(k + 1 <= MaxDepth)
      <3> HIDE DEF All
      <3> QED
        BY <2>2
    <2> QED
      BY <2>1, <2>2
  <1> HIDE DEF T
  <1>3. \A k \in Nat : k \in T
    BY <1>1, <1>2, Induction
  <1>4. m \in Nat /\ m <= MaxDepth
    BY DepthAssumption
  <1>5. m \in T
    BY <1>3, <1>4
  <1> HIDE DEF All
  <1>6. All(m)
    BY <1>4, <1>5 DEF T
  <1> QED
    BY <1>6 DEF All

-----------------------------------------------------------------------------
(* The life of a patch.                                                    *)

Start  == Side(before)
Target == Side(after)
Whole  == diffOps(Start.value, Target.value)

TypesOK ==
  /\ before \in Documents /\ after \in Documents /\ useSchema \in BOOLEAN
  /\ status \in {"diffing", "applying", "written", "done", "failed", "rejected"}

\* There is a patch when there are two sides.
SidesOK == status \in {"applying", "written"} => Start.ok /\ Target.ok

\* Nothing has happened to the document yet.
Untouched == status \in {"diffing", "written"} => draft = before /\ applied = 0

PatchWhole ==
  /\ status = "written" => document = PatchDocument(Whole)
  /\ status = "applying" => ops = Whole /\ applied \in 0..Len(ops)

Underway ==
  status = "applying" =>
    /\ applied = 0 => draft = before
    /\ Normalized(before) =>
         /\ draft \in Values
         /\ SubSeq(ops, applied + 1, Len(ops)) = diffOps(draft, Target.value)

Ended ==
  /\ status = "failed" => ~Normalized(before)
  /\ status = "done" /\ Normalized(before) => valuesEqual(draft, Target.value)

DiffInv == TypesOK /\ SidesOK /\ Untouched /\ PatchWhole /\ Underway /\ Ended

\* What the documents are compared as.
LEMMA SideIs ==
  ASSUME useSchema \in BOOLEAN, NEW d \in Documents, Side(d).ok
  PROVE  Side(d).value \in Values
  <1>1. d \in Values
    BY DiffAssumption DEF Values, Sides
  <1>2. CASE useSchema
    <2>1. Side(d) = normalizeValueForSchema(d, Root)
      BY <1>2, Zenon DEF Side
    <2> HIDE DEF Side
    <2>2. normalizeValueForSchema(d, Root).value \in Diffable[MaxDepth]
      BY <2>1, DiffAssumption, Zenon
    <2> QED
      BY <2>1, <2>2 DEF Values, Sides
  <1>3. CASE ~useSchema
    <2>1. Side(d) = Normal(d)
      BY <1>3, Zenon DEF Side
    <2>2. Normal(d).value = d
      BY NormalIs
    <2> HIDE DEF Side
    <2> QED
      BY <1>1, <2>1, <2>2
  <1> QED
    BY <1>2, <1>3

\* What has become equal to a side stays equal when it is normalised.
LEMMA SideAgain ==
  ASSUME useSchema \in BOOLEAN, NEW d \in Documents, Side(d).ok,
         NEW x \in Values, valuesEqual(x, Side(d).value)
  PROVE  Side(x).ok /\ valuesEqual(Side(x).value, Side(d).value)
  <1>1. CASE useSchema
    <2> DEFINE nested == normalized[Cardinality(DOMAIN Schema)]
               y == Side(d).value
    <2>1. \A v : Side(v) = normalizeValueForSchema(v, Root)
      BY <1>1, Zenon DEF Side
    <2>2. \A v : normalizeValueForSchema(v, Root) = nested[Root][v]
      BY Zenon DEF normalizeValueForSchema
    <2>3. Root \in Entries /\ Cardinality(DOMAIN Schema) \in Nat
      BY SchemaAssumption, FS_CardinalityType DEF Entries
    <2>4. MaxDepth \in 0..MaxDepth
      BY DepthAssumption
    <2> HIDE DEF nested
    <2>5. y \in Diffable[MaxDepth]
      <3>1. normalizeValueForSchema(d, Root).ok
        BY <2>1, Zenon
      <3>2. normalizeValueForSchema(d, Root).value \in Diffable[MaxDepth]
        BY <3>1, DiffAssumption, Zenon
      <3> QED
        BY <2>1, <3>2, Zenon
    <2>6. y \in Trees /\ d \in Trees
      <3>1. d \in Sides(MaxDepth) /\ y \in Sides(MaxDepth)
        BY <2>5, DiffAssumption DEF Sides
      <3> QED
        BY <2>4, <3>1, SidesAreTrees
    <2>7. x \in Diffable[MaxDepth]
      <3>1. x \in Sides(MaxDepth) /\ y \in Sides(MaxDepth) /\ valuesEqual(x, y)
        BY <2>5 DEF Values, Sides
      <3>2. x.kind = y.kind
        BY <2>4, <3>1, EqualKinds
      <3>3. y.kind # "void"
        BY <2>4, <2>5, NotInvalid
      <3>4. Void.kind = "void"
        BY DEF Void, Scalar
      <3> QED
        BY <3>1, <3>2, <3>3, <3>4 DEF Sides
    <2>8. Fixed(nested, Root, y)
      <3> DEFINE norm(v) == normalizeValueForSchema(v, Root)
      <3>1. norm(d).ok /\ norm(d).value = y
        BY <2>1, Zenon
      <3>2. norm(norm(d).value) = Normal(norm(d).value)
        <4>1. norm(d).value \in Trees
          <5> HIDE DEF norm, y
          <5> QED
            BY <2>6, <3>1
        <4> QED
          BY <2>3, <2>6, <3>1, <4>1, NormalIsStable
      <3>3. nested[Root][y] = Normal(y)
        BY <2>2, <3>1, <3>2, Zenon
      <3>4. Normal(y).ok /\ Normal(y).value = y
        BY NormalIs
      <3> QED
        BY <3>3, <3>4, Zenon DEF Fixed
    <2>9. Respects(nested, Diffable[MaxDepth])
      BY <2>3, <2>4, NormalRespects DEF nested
    <2>10. valuesEqual(x, y)
      OBVIOUS
    <2> HIDE DEF y
    <2>11. Follows(nested, Root, x, y, Diffable[MaxDepth])
      BY <2>3, <2>5, <2>7, <2>8, <2>9, <2>10, Zenon DEF Respects
    <2> QED
      BY <2>1, <2>2, <2>11, Zenon DEF Follows, y
  <1>2. CASE ~useSchema
    <2>1. Side(x) = Normal(x)
      BY <1>2, Zenon DEF Side
    <2>2. Normal(x).ok /\ Normal(x).value = x
      BY NormalIs
    <2> HIDE DEF Side
    <2> QED
      BY <2>1, <2>2, Zenon
  <1> QED
    BY <1>1, <1>2

LEMMA WholeTyped ==
  ASSUME TypesOK, Start.ok, Target.ok
  PROVE  /\ Start.value \in Values /\ Target.value \in Values /\ Whole \in Seq(Operations)
         /\ Len(Whole) \in Nat
         /\ Whole = <<>> <=> valuesEqual(Start.value, Target.value)
  <1>1. MaxDepth \in 0..MaxDepth
    BY DepthAssumption
  <1>2. useSchema \in BOOLEAN /\ before \in Documents /\ after \in Documents
    BY DEF TypesOK
  <1>3. Start.value \in Values
    BY <1>2, SideIs, Zenon DEF Start
  <1>4. Target.value \in Values
    BY <1>2, SideIs, Zenon DEF Target
  <1>5. Whole \in Seq(Operations)
    BY <1>1, <1>3, <1>4, OpsTyped, Zenon DEF SidesTyped, Values, Whole
  <1>6. Whole = <<>> <=> valuesEqual(Start.value, Target.value)
    BY <1>1, <1>3, <1>4, EmptyIff, Zenon DEF Values, Whole
  <1>7. Len(Whole) \in Nat
    <2> DEFINE E == Operations
    <2>1. Whole \in Seq(E)
      BY <1>5
    <2> HIDE DEF E, Whole
    <2> QED
      BY <2>1
  <1> QED
    BY <1>3, <1>4, <1>5, <1>6, <1>7

\* The next operation, and what is left then.
LEMMA NextOf ==
  ASSUME NEW E, NEW s \in Seq(E), NEW n \in 0..Len(s)
  PROVE  LET left == SubSeq(s, n + 1, Len(s))
         IN  /\ n = Len(s) => left = <<>>
             /\ n < Len(s) => /\ left # <<>> /\ s[n + 1] = Head(left)
                              /\ SubSeq(s, (n + 1) + 1, Len(s)) = Tail(left)
  <1> DEFINE left == SubSeq(s, n + 1, Len(s))
             rest == SubSeq(s, (n + 1) + 1, Len(s))
  <1>1. n \in Nat /\ Len(s) \in Nat /\ n <= Len(s)
    OBVIOUS
  <1>2. CASE n = Len(s)
    <2>1. left = <<>>
      BY <1>1, <1>2
    <2> QED
      BY <1>1, <1>2, <2>1
  <1>3. CASE n < Len(s)
    <2>1. left \in Seq(E) /\ Len(left) = Len(s) - n /\ \A i \in 1..Len(s) - n : left[i] = s[n + i]
      BY <1>1, <1>3
    <2>2. rest \in Seq(E) /\ Len(rest) = Len(s) - (n + 1)
          /\ \A i \in 1..Len(s) - (n + 1) : rest[i] = s[(n + 1) + i]
      BY <1>1, <1>3
    <2> HIDE DEF left, rest
    <2>3. left # <<>>
      BY <1>1, <1>3, <2>1
    <2>4. /\ Head(left) = left[1] /\ Tail(left) \in Seq(E) /\ Len(Tail(left)) = Len(left) - 1
          /\ \A i \in 1..Len(left) - 1 : Tail(left)[i] = left[i + 1]
      BY <2>1, <2>3, TailIs
    <2>5. left[1] = s[n + 1]
      BY <1>1, <1>3, <2>1
    <2>6. rest = Tail(left)
      <3>1. Len(rest) = Len(Tail(left))
        BY <1>1, <2>1, <2>2, <2>4
      <3>2. \A i \in 1..Len(rest) : rest[i] = Tail(left)[i]
        <4> SUFFICES ASSUME NEW i \in 1..Len(rest) PROVE rest[i] = Tail(left)[i]
          OBVIOUS
        <4>1. /\ i \in 1..Len(s) - (n + 1) /\ i \in 1..Len(left) - 1 /\ i + 1 \in 1..Len(s) - n
              /\ n + (i + 1) = (n + 1) + i
          BY <1>1, <1>3, <2>1, <2>2
        <4>2. rest[i] = s[(n + 1) + i]
          BY <2>2, <4>1
        <4>3. Tail(left)[i] = left[i + 1]
          BY <2>4, <4>1
        <4>4. left[i + 1] = s[n + (i + 1)]
          BY <2>1, <4>1
        <4> QED
          BY <4>1, <4>2, <4>3, <4>4
      <3> QED
        BY <2>2, <2>4, <3>1, <3>2, SameSequence
    <2> QED
      BY <1>3, <2>3, <2>4, <2>5, <2>6 DEF left, rest
  <1> QED
    BY <1>1, <1>2, <1>3

\* A document in normal form is compared as it is.
LEMMA NormalStart ==
  ASSUME Normalized(before)
  PROVE  Start.value = before
  <1>1. Start = Normal(before)
    BY Zenon DEF Normalized, Start
  <1> QED
    BY <1>1, NormalIs

LEMMA DiffInvInit == Init => DiffInv
  <1> SUFFICES ASSUME Init PROVE DiffInv
    OBVIOUS
  <1>1. /\ before \in Documents /\ after \in Documents /\ useSchema \in BOOLEAN
        /\ draft = before /\ applied = 0 /\ status = "diffing"
    BY DEF Init
  <1>2. TypesOK
    BY <1>1 DEF TypesOK
  <1>3. SidesOK /\ Untouched /\ PatchWhole /\ Underway /\ Ended
    BY <1>1 DEF SidesOK, Untouched, PatchWhole, Underway, Ended
  <1> QED
    BY <1>2, <1>3, Zenon DEF DiffInv

\* What is compared does not change.
LEMMA SidesStay ==
  ASSUME UNCHANGED <<before, after, useSchema>>
  PROVE  /\ Start' = Start /\ Target' = Target /\ Whole' = Whole
         /\ Normalized(before)' <=> Normalized(before)
  <1>1. before' = before /\ after' = after /\ useSchema' = useSchema
    OBVIOUS
  <1>2. Start' = Start /\ Target' = Target
    BY <1>1 DEF Start, Target, Side
  <1>3. Whole' = Whole
    BY <1>2, Zenon DEF Whole
  <1>4. Normalized(before)' <=> Normalized(before)
    BY <1>1 DEF Normalized, Side
  <1> QED
    BY <1>2, <1>3, <1>4

LEMMA DiffCallKeeps ==
  ASSUME DiffInv, DiffCall
  PROVE  DiffInv'
  <1>1. TypesOK /\ Untouched
    BY Zenon DEF DiffInv
  <1>2. /\ status = "diffing" /\ UNCHANGED <<before, after, useSchema>>
        /\ document' = document /\ draft' = draft /\ applied' = applied
    BY DEF DiffCall
  <1>3. /\ Start' = Start /\ Target' = Target /\ Whole' = Whole
        /\ Normalized(before)' <=> Normalized(before)
    BY <1>2, SidesStay
  <1>4. draft = before /\ applied = 0 /\ before' = before /\ after' = after /\ useSchema' = useSchema
    BY <1>1, <1>2 DEF Untouched
  <1>5. CASE ~(Start.ok /\ Target.ok)
    <2>1. status' = "rejected"
      BY <1>5, Zenon DEF DiffCall, Start, Target
    <2>2. TypesOK'
      BY <1>1, <1>4, <2>1 DEF TypesOK
    <2>3. SidesOK' /\ Untouched' /\ PatchWhole' /\ Underway' /\ Ended'
      BY <2>1 DEF SidesOK, Untouched, PatchWhole, Underway, Ended
    <2> QED
      BY <2>2, <2>3, Zenon DEF DiffInv
  <1>6. CASE Start.ok /\ Target.ok
    <2>1. status' = "applying" /\ ops' = Whole
      BY <1>6, Zenon DEF DiffCall, Start, Target, Whole
    <2>2. TypesOK'
      BY <1>1, <1>4, <2>1 DEF TypesOK
    <2>3. SidesOK'
      BY <1>3, <1>6, Zenon DEF SidesOK
    <2>4. Start.value \in Values /\ Whole \in Seq(Operations) /\ Len(Whole) \in Nat
      BY <1>1, <1>6, WholeTyped, Zenon
    <2>5. Untouched'
      BY <2>1 DEF Untouched
    <2>6. PatchWhole'
      BY <1>2, <1>3, <1>4, <2>1, <2>4 DEF PatchWhole
    <2>7. Underway'
      <3>1. ASSUME Normalized(before)
            PROVE  draft \in Values /\ SubSeq(Whole, 1, Len(Whole)) = diffOps(draft, Target.value)
        <4>1. Start.value = draft
          BY <1>4, <3>1, NormalStart
        <4>2. Whole = diffOps(draft, Target.value)
          BY <4>1, Zenon DEF Whole
        <4>3. SubSeq(Whole, 1, Len(Whole)) = Whole
          <5> DEFINE E == Operations
          <5>1. Whole \in Seq(E)
            BY <2>4
          <5> HIDE DEF E, Whole
          <5> QED
            BY <5>1
        <4> QED
          BY <2>4, <4>1, <4>2, <4>3, Zenon
      <3>2. 0 + 1 = 1
        OBVIOUS
      <3> QED
        BY <1>2, <1>3, <1>4, <2>1, <3>1, <3>2 DEF Underway
    <2>8. Ended'
      BY <2>1 DEF Ended
    <2> QED
      BY <2>2, <2>3, <2>5, <2>6, <2>7, <2>8, Zenon DEF DiffInv
  <1> QED
    BY <1>5, <1>6

LEMMA WriteKeeps ==
  ASSUME DiffInv, Write
  PROVE  DiffInv'
  <1>1. TypesOK /\ SidesOK /\ PatchWhole /\ Underway
    BY Zenon DEF DiffInv
  <1>2. /\ status = "applying" /\ applied = 0 /\ status' = "written"
        /\ document' = PatchDocument(ops) /\ draft' = draft /\ applied' = applied
        /\ before' = before /\ after' = after /\ useSchema' = useSchema
        /\ UNCHANGED <<before, after, useSchema>>
    BY DEF Write
  <1>3. Start' = Start /\ Target' = Target /\ Whole' = Whole
    BY <1>2, SidesStay
  <1>4. TypesOK'
    BY <1>1, <1>2 DEF TypesOK
  <1>5. SidesOK'
    BY <1>1, <1>2, <1>3, Zenon DEF SidesOK
  <1>6. Untouched'
    BY <1>1, <1>2 DEF Untouched, Underway
  <1>7. PatchWhole'
    BY <1>1, <1>2, <1>3 DEF PatchWhole
  <1>8. Underway' /\ Ended'
    BY <1>2 DEF Underway, Ended
  <1> QED
    BY <1>4, <1>5, <1>6, <1>7, <1>8, Zenon DEF DiffInv

\* Nothing is lost when a patch is written down.
LEMMA ReadKeeps ==
  ASSUME DiffInv, Read
  PROVE  DiffInv'
  <1>1. TypesOK /\ SidesOK /\ PatchWhole /\ Untouched
    BY Zenon DEF DiffInv
  <1>2. /\ status = "written" /\ draft' = draft /\ applied' = applied
        /\ before' = before /\ after' = after /\ useSchema' = useSchema
        /\ UNCHANGED <<before, after, useSchema>>
    BY DEF Read
  <1>3. /\ Start' = Start /\ Target' = Target /\ Whole' = Whole
        /\ Normalized(before)' <=> Normalized(before)
    BY <1>2, SidesStay
  <1>4. document = PatchDocument(Whole) /\ draft = before /\ applied = 0
    BY <1>1, <1>2 DEF PatchWhole, Untouched
  <1>5. Start.ok /\ Target.ok
    BY <1>1, <1>2, Zenon DEF SidesOK
  <1>6. Start.value \in Values /\ Whole \in Seq(Operations) /\ Len(Whole) \in Nat
    BY <1>1, <1>5, WholeTyped, Zenon
  <1>7. IsPatch(document) /\ PatchFromJSON(document) = Whole
    <2>1. IsPatch(PatchDocument(Whole)) /\ PatchFromJSON(PatchDocument(Whole)) = Whole
      BY <1>6, PatchWritten
    <2> QED
      BY <1>4, <2>1, Zenon
  <1>8. status' = "applying" /\ ops' = Whole
    BY <1>7, Zenon DEF Read
  <1>9. TypesOK'
    BY <1>1, <1>2, <1>8 DEF TypesOK
  <1>10. SidesOK'
    BY <1>3, <1>5, Zenon DEF SidesOK
  <1>11. Untouched' /\ Ended'
    BY <1>8 DEF Untouched, Ended
  <1>12. PatchWhole'
    BY <1>2, <1>3, <1>4, <1>6, <1>8 DEF PatchWhole
  <1>13. Underway'
    <2>1. ASSUME Normalized(before)
          PROVE  draft \in Values /\ SubSeq(Whole, 1, Len(Whole)) = diffOps(draft, Target.value)
      <3>1. Start.value = draft
        BY <1>4, <2>1, NormalStart
      <3>2. Whole = diffOps(draft, Target.value)
        BY <3>1, Zenon DEF Whole
      <3>3. SubSeq(Whole, 1, Len(Whole)) = Whole
        <4> DEFINE E == Operations
        <4>1. Whole \in Seq(E)
          BY <1>6
        <4> HIDE DEF E, Whole
        <4> QED
          BY <4>1
      <3> QED
        BY <1>6, <3>1, <3>2, <3>3, Zenon
    <2>2. 0 + 1 = 1
      OBVIOUS
    <2> QED
      BY <1>2, <1>3, <1>4, <1>8, <2>1, <2>2 DEF Underway
  <1> QED
    BY <1>9, <1>10, <1>11, <1>12, <1>13, Zenon DEF DiffInv

\* An operation leads to a draft from which the rest is the patch.
LEMMA ApplyOpKeeps ==
  ASSUME DiffInv, ApplyOp
  PROVE  DiffInv'
  <1> DEFINE op == ops[applied + 1]
             new == SpecOp(draft, Resolved(op))
             left == SubSeq(ops, applied + 1, Len(ops))
  <1>1. TypesOK /\ SidesOK /\ PatchWhole /\ Underway
    BY Zenon DEF DiffInv
  <1>2. /\ status = "applying" /\ applied < Len(ops) /\ applied' = applied + 1 /\ ops' = ops
        /\ before' = before /\ after' = after /\ useSchema' = useSchema
        /\ UNCHANGED <<before, after, useSchema>>
    BY DEF ApplyOp
  <1>3. /\ new = Invalid => status' = "failed"
        /\ new # Invalid => status' = status /\ draft' = new
    BY Zenon DEF ApplyOp
  <1> HIDE DEF new
  <1>4. /\ Start' = Start /\ Target' = Target /\ Whole' = Whole
        /\ Normalized(before)' <=> Normalized(before)
    BY <1>2, SidesStay
  <1>5. Start.ok /\ Target.ok
    BY <1>1, <1>2, Zenon DEF SidesOK
  <1>6. /\ Target.value \in Values /\ ops = Whole /\ ops \in Seq(Operations)
        /\ Len(ops) \in Nat /\ applied \in 0..Len(ops)
    <2>1. Target.value \in Values /\ Whole \in Seq(Operations) /\ Len(Whole) \in Nat
      BY <1>1, <1>5, WholeTyped, Zenon
    <2>2. ops = Whole /\ applied \in 0..Len(ops)
      BY <1>1, <1>2 DEF PatchWhole
    <2> QED
      BY <2>1, <2>2
  <1>7. ASSUME Normalized(before)
        PROVE  /\ new # Invalid /\ new \in Values
               /\ SubSeq(ops, (applied + 1) + 1, Len(ops)) = diffOps(new, Target.value)
    <2>1. draft \in Values /\ left = diffOps(draft, Target.value)
      BY <1>1, <1>2, <1>7 DEF Underway
    <2>2. left # <<>> /\ op = Head(left) /\ SubSeq(ops, (applied + 1) + 1, Len(ops)) = Tail(left)
      <3> DEFINE E == Operations
      <3>1. ops \in Seq(E)
        BY <1>6
      <3> HIDE DEF E
      <3> QED
        BY <1>2, <1>6, <3>1, NextOf
    <2>3. MaxDepth \in 0..MaxDepth
      BY DepthAssumption
    <2> HIDE DEF left, op
    <2>4. Moved(MaxDepth, draft, Target.value)
      BY <1>6, <2>1, <2>2, <2>3, OneStep, Zenon DEF Values
    <2>5. /\ new \in Sides(MaxDepth)
          /\ diffOps(new, Target.value) = Tail(diffOps(draft, Target.value))
      BY <2>1, <2>2, <2>4, Zenon DEF Moved, new
    <2>6. Invalid \notin Sides(MaxDepth)
      BY <2>3, NotInvalid, Zenon
    <2> QED
      BY <2>1, <2>2, <2>5, <2>6, Zenon DEF Values
  <1>8. TypesOK'
    <2>1. status' \in {"applying", "failed"}
      BY <1>2, <1>3
    <2> QED
      BY <1>1, <1>2, <2>1 DEF TypesOK
  <1>9. SidesOK'
    BY <1>4, <1>5, Zenon DEF SidesOK
  <1>10. Untouched'
    BY <1>2, <1>3 DEF Untouched
  <1>11. PatchWhole'
    <2>1. applied + 1 \in 0..Len(ops)
      BY <1>2, <1>6
    <2> QED
      BY <1>2, <1>3, <1>4, <1>6, <2>1 DEF PatchWhole
  <1>12. Underway'
    <2>1. status' = "applying" => draft' = new
      BY <1>3
    <2>2. applied + 1 # 0
      BY <1>6
    <2> QED
      BY <1>2, <1>4, <1>7, <2>1, <2>2 DEF Underway
  <1>13. Ended'
    <2>1. status' # "done"
      BY <1>2, <1>3
    <2> QED
      BY <1>2, <1>3, <1>4, <1>7, <2>1 DEF Ended
  <1> QED
    BY <1>8, <1>9, <1>10, <1>11, <1>12, <1>13, Zenon DEF DiffInv

LEMMA FinishKeeps ==
  ASSUME DiffInv, Finish
  PROVE  DiffInv'
  <1>1. TypesOK /\ SidesOK /\ PatchWhole /\ Underway
    BY Zenon DEF DiffInv
  <1>2. /\ status = "applying" /\ applied = Len(ops) /\ draft' = Side(draft).value
        /\ before' = before /\ after' = after /\ useSchema' = useSchema
        /\ UNCHANGED <<before, after, useSchema>>
    BY DEF Finish
  <1>3. /\ Side(draft).ok => status' = "done"
        /\ ~Side(draft).ok => status' = "failed"
    BY Zenon DEF Finish
  <1>4. /\ Start' = Start /\ Target' = Target /\ Whole' = Whole
        /\ Normalized(before)' <=> Normalized(before)
    BY <1>2, SidesStay
  <1>5. Start.ok /\ Target.ok
    BY <1>1, <1>2, Zenon DEF SidesOK
  <1>6. ASSUME Normalized(before)
        PROVE  Side(draft).ok /\ valuesEqual(Side(draft).value, Target.value)
    <2>1. /\ draft \in Values
          /\ SubSeq(ops, applied + 1, Len(ops)) = diffOps(draft, Target.value)
      BY <1>1, <1>2, <1>6 DEF Underway
    <2>2. diffOps(draft, Target.value) = <<>>
      <3>1. ops \in Seq(Operations) /\ applied \in 0..Len(ops)
        <4>1. Whole \in Seq(Operations)
          BY <1>1, <1>5, WholeTyped, Zenon
        <4> QED
          BY <1>1, <1>2, <4>1 DEF PatchWhole
      <3> DEFINE E == Operations
      <3>2. ops \in Seq(E)
        BY <3>1
      <3> HIDE DEF E
      <3> QED
        BY <1>2, <2>1, <3>1, <3>2, NextOf
    <2>3. Target.value \in Values
      BY <1>1, <1>5, WholeTyped, Zenon
    <2>4. MaxDepth \in 0..MaxDepth
      BY DepthAssumption
    <2>5. valuesEqual(draft, Target.value)
      BY <2>1, <2>2, <2>3, <2>4, EmptyIff, Zenon DEF Values
    <2>6. useSchema \in BOOLEAN /\ after \in Documents
      BY <1>1 DEF TypesOK
    <2>7. Side(after).ok /\ valuesEqual(draft, Side(after).value)
      BY <1>5, <2>5, Zenon DEF Target
    <2>8. Side(draft).ok /\ valuesEqual(Side(draft).value, Side(after).value)
      BY <2>1, <2>6, <2>7, SideAgain, Zenon
    <2> QED
      BY <2>8, Zenon DEF Target
  <1>7. status' \in {"done", "failed"}
    BY <1>3
  <1>8. TypesOK'
    BY <1>1, <1>2, <1>7 DEF TypesOK
  <1>9. SidesOK' /\ Untouched' /\ PatchWhole' /\ Underway'
    BY <1>7 DEF SidesOK, Untouched, PatchWhole, Underway
  <1>10. Ended'
    <2>1. Normalized(before) => status' = "done" /\ valuesEqual(draft', Target.value)
      BY <1>2, <1>3, <1>6, Zenon
    <2>2. status' = "done" => status' # "failed"
      OBVIOUS
    <2> QED
      BY <1>4, <2>1, <2>2, Zenon DEF Ended
  <1> QED
    BY <1>8, <1>9, <1>10, Zenon DEF DiffInv

LEMMA DiffInvNext == DiffInv /\ [Next]_vars => DiffInv'
  <1> SUFFICES ASSUME DiffInv, [Next]_vars PROVE DiffInv'
    OBVIOUS
  <1>1. CASE DiffCall
    BY <1>1, DiffCallKeeps
  <1>2. CASE Write
    BY <1>2, WriteKeeps
  <1>3. CASE Read
    BY <1>3, ReadKeeps
  <1>4. CASE ApplyOp
    BY <1>4, ApplyOpKeeps
  <1>5. CASE Finish
    BY <1>5, FinishKeeps
  <1>6. CASE UNCHANGED vars
    <2>1. /\ before' = before /\ after' = after /\ useSchema' = useSchema /\ ops' = ops
          /\ document' = document /\ draft' = draft /\ applied' = applied /\ status' = status
          /\ UNCHANGED <<before, after, useSchema>>
      BY <1>6 DEF vars
    <2>2. /\ Start' = Start /\ Target' = Target /\ Whole' = Whole
          /\ Normalized(before)' <=> Normalized(before)
      BY <2>1, SidesStay
    <2>3. TypesOK /\ SidesOK /\ Untouched /\ PatchWhole /\ Underway /\ Ended
      BY Zenon DEF DiffInv
    <2>4. TypesOK' /\ Untouched'
      BY <2>1, <2>3 DEF TypesOK, Untouched
    <2>5. SidesOK'
      BY <2>1, <2>2, <2>3, Zenon DEF SidesOK
    <2>6. PatchWhole'
      BY <2>1, <2>2, <2>3, Zenon DEF PatchWhole
    <2>7. Underway'
      BY <2>1, <2>2, <2>3, Zenon DEF Underway
    <2>8. Ended'
      BY <2>1, <2>2, <2>3, Zenon DEF Ended
    <2> QED
      BY <2>4, <2>5, <2>6, <2>7, <2>8, Zenon DEF DiffInv
  <1> QED
    BY <1>1, <1>2, <1>3, <1>4, <1>5, <1>6 DEF Next

LEMMA DiffAlways == Spec => []DiffInv
  BY DiffInvInit, DiffInvNext, PTL DEF Spec

-----------------------------------------------------------------------------
(* What follows for every pair of documents.                               *)

\* Diff finds nothing to do exactly when the documents are equal (patch_diff.go:11).
THEOREM EmptyPatchMeansEqual == Spec => []EmptyIffEquivalent
  <1>1. DiffInv => EmptyIffEquivalent
    <2> SUFFICES ASSUME DiffInv, status = "applying"
                 PROVE  ops = <<>> <=> valuesEqual(Start.value, Target.value)
      BY Zenon DEF EmptyIffEquivalent, Start, Target
    <2>1. TypesOK /\ Start.ok /\ Target.ok
      BY Zenon DEF DiffInv, SidesOK
    <2>2. ops = Whole
      BY Zenon DEF DiffInv, PatchWhole
    <2> QED
      BY <2>1, <2>2, WholeTyped, Zenon
  <1> QED
    BY <1>1, DiffAlways, PTL

\* At each moment what is left of the patch is the patch from the draft to `after`.
THEOREM NothingIsUndone == Spec => []RemainderIsDiff
  <1>1. DiffInv => RemainderIsDiff
    BY Zenon DEF DiffInv, Underway, RemainderIsDiff, Target
  <1> QED
    BY <1>1, DiffAlways, PTL

\* The patch of Diff, written down and read back or not, turns a document in normal
\* form into one that equals the other.
THEOREM DiffRoundTrip == Spec => []RoundTrip
  <1>1. DiffInv => RoundTrip
    BY Zenon DEF DiffInv, Ended, RoundTrip, Target
  <1> QED
    BY <1>1, DiffAlways, PTL
=============================================================================
