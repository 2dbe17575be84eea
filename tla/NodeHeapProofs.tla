--------------------------- MODULE NodeHeapProofs ---------------------------
(***************************************************************************)
(* What the field operations of JSONValues do to the fields of an object,  *)
(* whatever the keys and however many: the sequence operations every       *)
(* mutation of a document comes down to.  Then what the operators of       *)
(* NodeHeap do, for every heap, and what Store and cloneJSONValue put into *)
(* one: the nodes of one tree, each in one place, and apart from all that  *)
(* was there before.                                                       *)
(*                                                                         *)
(* The second half is about SchemaRules: what a schema makes of a value    *)
(* (normalizeValueForSchema, reorderObjectFieldsBySchema) is a tree whose  *)
(* objects have their known fields first and in the order of the schema,   *)
(* all the way down.                                                       *)
(***************************************************************************)
EXTENDS NodeHeap, TLAPS, FiniteSetTheorems, WellFoundedInduction

\* No key twice: the invariant NoHiddenSlots of Documents, of one object.
Distinct(fields) ==
  \A i, j \in DOMAIN fields : fields[i].key = fields[j].key => i = j

\* Two fields of `new` stand in the order in which `fields` has them.
SameOrder(fields, new) ==
  \A i, j \in DOMAIN new : i < j =>
    \A a, b \in DOMAIN fields :
      fields[a].key = new[i].key /\ fields[b].key = new[j].key => a < b

\* Up to one key, both have the same keys and `new` has the fields of `fields`.
Keeps(fields, new, key) ==
  /\ KeysOf(new) \ {key} = KeysOf(fields) \ {key}
  /\ \A n \in DOMAIN fields :
       fields[n].key # key => \E m \in DOMAIN new : new[m] = fields[n]

-----------------------------------------------------------------------------
LEMMA MinOfOne == ASSUME NEW n \in Int PROVE Min({n}) = n
  BY DEF Min

LEMMA Joined ==
  ASSUME NEW S, NEW left \in Seq(S), NEW right \in Seq(S)
  PROVE  /\ DOMAIN (left \o right) = 1..Len(left) + Len(right)
         /\ \A i \in 1..Len(left) + Len(right) :
              (left \o right)[i] = IF i <= Len(left) THEN left[i] ELSE right[i - Len(left)]
  OBVIOUS

LEMMA NoFieldIndex ==
  ASSUME NEW K, NEW V, NEW fields \in Seq(FieldsOf(K, V)), NEW key, key \notin KeysOf(fields)
  PROVE  FieldIndex(fields, key) = 0
  <1>1. {i \in 1..Len(fields) : fields[i].key = key} = {}
    BY DEF KeysOf
  <1> QED
    BY <1>1 DEF FieldIndex, SelectInSeq

LEMMA FieldIndexOf ==
  ASSUME NEW K, NEW V, NEW fields \in Seq(FieldsOf(K, V)), Distinct(fields),
         NEW n \in DOMAIN fields
  PROVE  FieldIndex(fields, fields[n].key) = n
  <1>1. {i \in 1..Len(fields) : fields[i].key = fields[n].key} = {n}
    BY DEF Distinct
  <1>2. n \in Int
    OBVIOUS
  <1> QED
    BY <1>1, <1>2, MinOfOne DEF FieldIndex, SelectInSeq

LEMMA GetFieldOf ==
  ASSUME NEW K, NEW V, NEW fields \in Seq(FieldsOf(K, V)), Distinct(fields)
  PROVE  /\ \A n \in DOMAIN fields : GetField(fields, fields[n].key) = fields[n].value
         /\ \A k : k \notin KeysOf(fields) => GetField(fields, k) = Void
  <1>1. ASSUME NEW n \in DOMAIN fields
        PROVE  GetField(fields, fields[n].key) = fields[n].value
    <2>1. FieldIndex(fields, fields[n].key) = n /\ n # 0
      BY FieldIndexOf
    <2> QED
      BY <2>1 DEF GetField
  <1>2. ASSUME NEW k, k \notin KeysOf(fields)
        PROVE  GetField(fields, k) = Void
    <2>1. FieldIndex(fields, k) = 0
      BY <1>2, NoFieldIndex
    <2> QED
      BY <2>1 DEF GetField
  <1> QED
    BY <1>1, <1>2

LEMMA SameAnswers ==
  ASSUME NEW K, NEW V, NEW fields \in Seq(FieldsOf(K, V)), Distinct(fields),
         NEW new \in Seq(FieldsOf(K, V)), Distinct(new), NEW key,
         Keeps(fields, new, key)
  PROVE  \A k : k # key => GetField(new, k) = GetField(fields, k)
  <1> SUFFICES ASSUME NEW k, k # key PROVE GetField(new, k) = GetField(fields, k)
    OBVIOUS
  <1>1. CASE k \notin KeysOf(fields)
    <2>1. k \notin KeysOf(new)
      BY <1>1 DEF Keeps
    <2> QED
      BY <1>1, <2>1, GetFieldOf
  <1>2. CASE k \in KeysOf(fields)
    <2>1. PICK n \in DOMAIN fields : fields[n].key = k
      BY <1>2 DEF KeysOf
    <2>2. PICK m \in DOMAIN new : new[m] = fields[n]
      BY <2>1 DEF Keeps
    <2>3. GetField(fields, k) = fields[n].value
      BY <2>1, GetFieldOf
    <2>4. GetField(new, k) = new[m].value
      BY <2>1, <2>2, GetFieldOf
    <2> QED
      BY <2>2, <2>3, <2>4
  <1> QED
    BY <1>1, <1>2

-----------------------------------------------------------------------------
\* A field is overwritten where it stands or added at the end: no other field
\* moves or changes, no key comes to stand twice, and the key then answers with
\* the value (setField, which Set and the operations of a patch come down to).
THEOREM SetFieldKeepsTheOthers ==
  ASSUME NEW K, NEW V, NEW fields \in Seq(FieldsOf(K, V)), Distinct(fields),
         NEW key \in K, NEW value \in V
  PROVE  LET new == setField(fields, key, value)
         IN  /\ new \in Seq(FieldsOf(K, V)) /\ Distinct(new)
             /\ KeysOf(new) = KeysOf(fields) \cup {key}
             /\ \A i \in DOMAIN fields : i \in DOMAIN new /\ new[i].key = fields[i].key
             /\ GetField(new, key) = value
             /\ \A k : k # key => GetField(new, k) = GetField(fields, k)
  <1> DEFINE new == setField(fields, key, value)
  <1>1. new \in Seq(FieldsOf(K, V)) /\ Distinct(new)
        /\ KeysOf(new) = KeysOf(fields) \cup {key}
        /\ (\A i \in DOMAIN fields : /\ i \in DOMAIN new /\ new[i].key = fields[i].key
                                     /\ fields[i].key # key => new[i] = fields[i])
        /\ \E i \in DOMAIN new : new[i] = Field(key, value)
    <2>1. CASE key \in KeysOf(fields)
      <3>1. PICK n \in DOMAIN fields : fields[n].key = key
        BY <2>1 DEF KeysOf
      <3>2. FieldIndex(fields, key) = n /\ n # 0
        BY <3>1, FieldIndexOf
      <3>3. fields[n] \in FieldsOf(K, V)
        OBVIOUS
      <3>4. [fields[n] EXCEPT !.value = value] = Field(key, value)
        <4>1. \A f \in FieldsOf(K, V) : [f EXCEPT !.value = value] = Field(f.key, value)
          BY DEF FieldsOf, Field
        <4>2. [fields[n] EXCEPT !.value = value] = Field(fields[n].key, value)
          BY <3>3, <4>1, Zenon
        <4> QED
          BY <3>1, <4>2, Zenon
      <3>5. setField(fields, key, value) = [fields EXCEPT ![n] = [fields[n] EXCEPT !.value = value]]
        BY <3>2 DEF setField
      <3>6. new = [fields EXCEPT ![n] = Field(key, value)]
        BY <3>4, <3>5
      <3>7. new \in Seq(FieldsOf(K, V)) /\ DOMAIN new = DOMAIN fields
        BY <3>1, <3>6 DEF FieldsOf, Field
      <3>8. new[n] = Field(key, value)
        BY <3>1, <3>6
      <3>9. \A i \in DOMAIN fields : i # n => new[i] = fields[i]
        BY <3>6
      <3>10. \A i \in DOMAIN fields : new[i].key = fields[i].key
        BY <3>1, <3>8, <3>9 DEF Field
      <3>11. Distinct(new)
        BY <3>7, <3>10 DEF Distinct
      <3>12. KeysOf(new) = KeysOf(fields)
        BY <3>7, <3>10 DEF KeysOf
      <3> QED
        BY <2>1, <3>1, <3>7, <3>8, <3>9, <3>10, <3>11, <3>12
    <2>2. CASE key \notin KeysOf(fields)
      <3>1. new = Append(fields, Field(key, value))
        BY <2>2, NoFieldIndex DEF setField
      <3>2. Field(key, value) \in FieldsOf(K, V)
        BY DEF Field, FieldsOf
      <3>3. /\ new \in Seq(FieldsOf(K, V)) /\ DOMAIN new = 1..Len(fields) + 1
            /\ new[Len(fields) + 1] = Field(key, value)
            /\ DOMAIN fields = 1..Len(fields) /\ Len(fields) \in Nat
            /\ \A i \in DOMAIN fields : new[i] = fields[i]
        BY <3>1, <3>2
      <3>4. \A i \in DOMAIN fields : fields[i].key # key
        BY <2>2 DEF KeysOf
      <3>5. Distinct(new)
        <4> SUFFICES ASSUME NEW i \in DOMAIN new, NEW j \in DOMAIN new,
                            new[i].key = new[j].key
                     PROVE  i = j
          BY DEF Distinct
        <4>1. \A m \in DOMAIN new : m # Len(fields) + 1 => m \in DOMAIN fields
          BY <3>3
        <4>2. new[Len(fields) + 1].key = key
          BY <3>3 DEF Field
        <4>3. CASE i = Len(fields) + 1 \/ j = Len(fields) + 1
          BY <3>3, <3>4, <4>1, <4>2, <4>3
        <4>4. CASE i # Len(fields) + 1 /\ j # Len(fields) + 1
          BY <3>3, <4>1, <4>4 DEF Distinct
        <4> QED
          BY <4>3, <4>4
      <3>6. KeysOf(new) = KeysOf(fields) \cup {key}
        BY <3>3 DEF KeysOf, Field
      <3> QED
        BY <3>3, <3>5, <3>6
    <2> QED
      BY <2>1, <2>2
  <1>2. GetField(new, key) = value
    <2>1. PICK i \in DOMAIN new : new[i] = Field(key, value)
      BY <1>1
    <2>2. new[i].key = key /\ new[i].value = value
      BY <2>1 DEF Field
    <2>3. GetField(new, new[i].key) = new[i].value
      BY <1>1, GetFieldOf
    <2> QED
      BY <2>2, <2>3
  <1>3. \A k : k # key => GetField(new, k) = GetField(fields, k)
    <2>1. Keeps(fields, new, key)
      BY <1>1 DEF Keeps
    <2> HIDE DEF new
    <2> QED
      BY <1>1, <2>1, SameAnswers
  <1> QED
    BY <1>1, <1>2, <1>3

\* Removing takes out one field: the others keep their values and their order
\* (removeField, which Remove, Set with Void and patches come down to).
THEOREM RemoveFieldKeepsTheOthers ==
  ASSUME NEW K, NEW V, NEW fields \in Seq(FieldsOf(K, V)), Distinct(fields), NEW key
  PROVE  LET new == removeField(fields, key)
         IN  /\ new \in Seq(FieldsOf(K, V)) /\ Distinct(new)
             /\ KeysOf(new) = KeysOf(fields) \ {key}
             /\ SameOrder(fields, new)
             /\ GetField(new, key) = Void
             /\ \A k : k # key => GetField(new, k) = GetField(fields, k)
  <1> DEFINE new == removeField(fields, key)
  <1>1. PICK from \in [DOMAIN new -> DOMAIN fields] :
          /\ \A i \in DOMAIN new : new[i] = fields[from[i]] /\ fields[from[i]].key # key
          /\ \A i, j \in DOMAIN new : i < j => from[i] < from[j]
          /\ \A n \in DOMAIN fields : fields[n].key # key => \E i \in DOMAIN new : from[i] = n
    <2>1. CASE key \in KeysOf(fields)
      <3>1. PICK n \in DOMAIN fields : fields[n].key = key
        BY <2>1 DEF KeysOf
      <3>2. FieldIndex(fields, key) = n /\ n # 0
        BY <3>1, FieldIndexOf
      <3>3. new = SubSeq(fields, 1, n - 1) \o SubSeq(fields, n + 1, Len(fields))
        BY <3>2 DEF removeField, RemoveAt
      <3>4. /\ DOMAIN fields = 1..Len(fields) /\ Len(fields) \in Nat /\ n \in 1..Len(fields)
            /\ DOMAIN new = 1..Len(fields) - 1
            /\ \A i \in DOMAIN new : new[i] = fields[IF i < n THEN i ELSE i + 1]
        <4>1. DOMAIN fields = 1..Len(fields) /\ Len(fields) \in Nat /\ n \in 1..Len(fields)
          OBVIOUS
        <4>2. /\ SubSeq(fields, 1, n - 1) \in Seq(FieldsOf(K, V))
              /\ Len(SubSeq(fields, 1, n - 1)) = n - 1
              /\ \A i \in 1..n - 1 : SubSeq(fields, 1, n - 1)[i] = fields[i]
          BY <4>1
        <4>3. /\ SubSeq(fields, n + 1, Len(fields)) \in Seq(FieldsOf(K, V))
              /\ Len(SubSeq(fields, n + 1, Len(fields))) = Len(fields) - n
              /\ \A i \in 1..Len(fields) - n :
                   SubSeq(fields, n + 1, Len(fields))[i] = fields[n + i]
          BY <4>1
        <4> DEFINE left  == SubSeq(fields, 1, n - 1)
                   right == SubSeq(fields, n + 1, Len(fields))
        <4>4. /\ left \in Seq(FieldsOf(K, V)) /\ Len(left) = n - 1
              /\ right \in Seq(FieldsOf(K, V)) /\ Len(right) = Len(fields) - n
              /\ \A i \in 1..n - 1 : left[i] = fields[i]
              /\ \A i \in 1..Len(fields) - n : right[i] = fields[n + i]
          BY <4>2, <4>3
        <4>5. new = left \o right
          BY <3>3
        <4> HIDE DEF left, right, new
        <4>6. /\ DOMAIN new = 1..Len(left) + Len(right)
              /\ \A i \in 1..Len(left) + Len(right) :
                   new[i] = IF i <= Len(left) THEN left[i] ELSE right[i - Len(left)]
          BY <4>4, <4>5, Joined
        <4>7. DOMAIN new = 1..Len(fields) - 1
          BY <4>1, <4>4, <4>6
        <4>8. ASSUME NEW i \in DOMAIN new
              PROVE  new[i] = fields[IF i < n THEN i ELSE i + 1]
          <5>1. CASE i < n
            BY <4>1, <4>4, <4>6, <4>7, <5>1
          <5>2. CASE i >= n
            <6>1. i - (n - 1) \in 1..Len(fields) - n /\ n + (i - (n - 1)) = i + 1
              BY <4>1, <4>7, <5>2
            <6>2. new[i] = right[i - (n - 1)]
              BY <4>1, <4>4, <4>6, <4>7, <5>2
            <6> QED
              BY <4>1, <4>4, <4>7, <5>2, <6>1, <6>2
          <5> QED
            BY <4>1, <4>7, <5>1, <5>2
        <4> QED
          BY <4>1, <4>7, <4>8
      <3> DEFINE from == [i \in DOMAIN new |-> IF i < n THEN i ELSE i + 1]
      <3> HIDE DEF new
      <3>5. from \in [DOMAIN new -> DOMAIN fields]
        BY <3>4
      <3>6. \A i \in DOMAIN new : new[i] = fields[from[i]] /\ from[i] # n
        BY <3>4
      <3>7. \A m \in DOMAIN fields : m # n => fields[m].key # key
        BY <3>1 DEF Distinct
      <3>8. \A i, j \in DOMAIN new : i < j => from[i] < from[j]
        BY <3>4
      <3>9. \A m \in DOMAIN fields : m # n => \E i \in DOMAIN new : from[i] = m
        <4> SUFFICES ASSUME NEW m \in DOMAIN fields, m # n
                     PROVE  \E i \in DOMAIN new : from[i] = m
          OBVIOUS
        <4>1. CASE m < n
          <5>1. m \in DOMAIN new /\ from[m] = m
            BY <3>4, <4>1
          <5> QED BY <5>1
        <4>2. CASE m > n
          <5>1. m - 1 \in DOMAIN new /\ from[m - 1] = m
            BY <3>4, <4>2
          <5> QED BY <5>1
        <4> QED
          BY <3>4, <4>1, <4>2
      <3> HIDE DEF from
      <3> QED
        BY <3>1, <3>5, <3>6, <3>7, <3>8, <3>9
    <2>2. CASE key \notin KeysOf(fields)
      <3>1. new = fields
        BY <2>2, NoFieldIndex DEF removeField
      <3>2. \A n \in DOMAIN fields : fields[n].key # key
        BY <2>2 DEF KeysOf
      <3> DEFINE from == [i \in DOMAIN new |-> i]
      <3>3. from \in [DOMAIN new -> DOMAIN fields]
        BY <3>1
      <3> QED
        BY <3>1, <3>2, <3>3
    <2> QED
      BY <2>1, <2>2
  <1>2. new \in Seq(FieldsOf(K, V))
    <2>1. CASE FieldIndex(fields, key) = 0
      BY <2>1 DEF removeField
    <2>2. CASE FieldIndex(fields, key) # 0
      <3>1. key \in KeysOf(fields)
        BY <2>2, NoFieldIndex
      <3>2. PICK n \in DOMAIN fields : fields[n].key = key
        BY <3>1 DEF KeysOf
      <3>3. FieldIndex(fields, key) = n
        BY <3>2, FieldIndexOf
      <3> QED
        BY <2>2, <3>3 DEF removeField, RemoveAt
    <2> QED
      BY <2>1, <2>2
  <1> HIDE DEF new
  <1>3. DOMAIN new \subseteq Int /\ DOMAIN fields \subseteq Int
    BY <1>2
  <1>4. Distinct(new)
    <2> SUFFICES ASSUME NEW i \in DOMAIN new, NEW j \in DOMAIN new, new[i].key = new[j].key
                 PROVE  i = j
      BY DEF Distinct
    <2>1. from[i] = from[j]
      BY <1>1 DEF Distinct
    <2> QED
      BY <1>1, <1>3, <2>1
  <1>5. KeysOf(new) = KeysOf(fields) \ {key}
    BY <1>1 DEF KeysOf
  <1>6. SameOrder(fields, new)
    BY <1>1 DEF SameOrder, Distinct
  <1>7. GetField(new, key) = Void
    BY <1>2, <1>4, <1>5, GetFieldOf
  <1>8. \A k : k # key => GetField(new, k) = GetField(fields, k)
    <2>1. Keeps(fields, new, key)
      BY <1>1, <1>5 DEF Keeps
    <2> QED
      BY <1>2, <1>4, <2>1, SameAnswers
  <1> QED
    BY <1>2, <1>4, <1>5, <1>6, <1>7, <1>8 DEF new

-----------------------------------------------------------------------------
(* Induction over the natural numbers, and functions defined by it.        *)

LEMMA Least ==
  ASSUME NEW T, T \subseteq Nat, T # {}
  PROVE  \E m \in T : \A n \in T : m <= n
  <1>1. PICK m \in T : \A n \in T : <<n, m>> \notin OpToRel(<, Nat)
    BY NatLessThanWellFounded, WFMin, Zenon
  <1>2. ASSUME NEW n \in T PROVE ~(n < m)
    <2>1. n < m => <<n, m>> \in OpToRel(<, Nat)
      BY DEF OpToRel
    <2> QED
      BY <1>1, <2>1
  <1>3. \A n \in T : n \in Nat
    OBVIOUS
  <1>4. \A n \in T : m <= n
    BY <1>2, <1>3
  <1> QED
    BY <1>4

LEMMA MinIn ==
  ASSUME NEW T, T \subseteq Nat, T # {} PROVE Min(T) \in T
  BY Least DEF Min

LEMMA Induction ==
  ASSUME NEW T, 0 \in T, \A n \in Nat : n \in T => n + 1 \in T
  PROVE  \A n \in Nat : n \in T
  <1> SUFFICES ASSUME Nat \ T # {} PROVE FALSE
    OBVIOUS
  <1>1. PICK m \in Nat \ T : \A n \in Nat \ T : m <= n
    BY Least
  <1>2. m # 0 /\ m - 1 \in Nat
    BY <1>1
  <1>3. m - 1 \in T
    BY <1>1, <1>2
  <1> QED
    BY <1>1, <1>2, <1>3

\* There is a function that begins with `a` and goes on with the step F[n] from
\* the n-th value, if the steps lead from one to the next of the sets S[n].
LEMMA Iteration ==
  ASSUME NEW S, NEW F, NEW a \in S[0],
         \A n \in Nat : \A x \in S[n] : F[n][x] \in S[n + 1]
  PROVE  \E f : /\ f = [n \in Nat |-> IF n = 0 THEN a ELSE F[n - 1][f[n - 1]]]
                /\ \A n \in Nat : f[n] \in S[n]
  <1> DEFINE Begins(g, n) == /\ g[0] = a /\ \A i \in 0..n : g[i] \in S[i]
                             /\ \A i \in 1..n : g[i] = F[i - 1][g[i - 1]]
             T == {n \in Nat : \E g : Begins(g, n)}
             b == [n \in Nat |-> CHOOSE g : Begins(g, n)]
             f == [n \in Nat |-> b[n][n]]
  <1>1. \A n \in Nat : n \in T
    <2>1. 0 \in T
      <3>1. Begins([i \in {0} |-> a], 0)
        OBVIOUS
      <3> QED
        BY <3>1
    <2>2. ASSUME NEW n \in Nat, n \in T PROVE n + 1 \in T
      <3>1. PICK g : Begins(g, n)
        BY <2>2
      <3> DEFINE h == [i \in 0..n + 1 |-> IF i = n + 1 THEN F[n][g[n]] ELSE g[i]]
      <3>2. \A i \in 0..n : h[i] = g[i]
        OBVIOUS
      <3>3. h[n + 1] = F[n][g[n]] /\ h[n + 1] \in S[n + 1]
        BY <3>1
      <3> HIDE DEF h
      <3>4. \A i \in 0..n + 1 : h[i] \in S[i]
        BY <3>1, <3>2, <3>3
      <3>5. ASSUME NEW i \in 1..n + 1 PROVE h[i] = F[i - 1][h[i - 1]]
        <4>1. CASE i = n + 1
          BY <3>2, <3>3, <4>1
        <4>2. CASE i # n + 1
          <5>1. i \in 1..n /\ i \in 0..n /\ i - 1 \in 0..n
            BY <4>2
          <5> QED
            BY <3>1, <3>2, <5>1
        <4> QED
          BY <4>1, <4>2
      <3>6. h[0] = a
        BY <3>1, <3>2
      <3>7. Begins(h, n + 1)
        BY <3>4, <3>5, <3>6
      <3> QED
        BY <3>7
    <2> HIDE DEF T
    <2> QED
      BY <2>1, <2>2, Induction
  <1>2. ASSUME NEW n \in Nat PROVE Begins(b[n], n)
    BY <1>1
  <1>3. ASSUME NEW n \in Nat, NEW m \in Nat, n <= m PROVE b[n][n] = b[m][n]
    <2> DEFINE U == {i \in Nat : i <= n => b[n][i] = b[m][i]}
    <2>1. 0 \in U
      BY <1>2
    <2>2. ASSUME NEW i \in Nat, i \in U PROVE i + 1 \in U
      <3> SUFFICES ASSUME i + 1 <= n PROVE b[n][i + 1] = b[m][i + 1]
        OBVIOUS
      <3> HIDE DEF b
      <3>1. i + 1 \in 1..n /\ i + 1 \in 1..m /\ i + 1 - 1 = i
        BY <1>3
      <3>2. b[n][i + 1] = F[i][b[n][i]] /\ b[m][i + 1] = F[i][b[m][i]]
        BY <1>2, <3>1
      <3> QED
        BY <2>2, <3>1, <3>2
    <2> HIDE DEF U
    <2>3. n \in U
      BY <2>1, <2>2, Induction
    <2> QED
      BY <2>3 DEF U
  <1> HIDE DEF b
  <1>4. ASSUME NEW n \in Nat
        PROVE  f[n] \in S[n] /\ f[n] = IF n = 0 THEN a ELSE F[n - 1][f[n - 1]]
    <2>1. CASE n = 0
      BY <1>2, <2>1
    <2>2. CASE n # 0
      <3>1. n - 1 \in Nat /\ n \in 1..n /\ n \in 0..n /\ n - 1 <= n
        BY <2>2
      <3>2. b[n - 1][n - 1] = b[n][n - 1]
        BY <1>3, <3>1
      <3> QED
        BY <1>2, <2>2, <3>1, <3>2
    <2> QED
      BY <2>1, <2>2
  <1>5. f = [n \in Nat |-> IF n = 0 THEN a ELSE F[n - 1][f[n - 1]]]
    BY <1>4
  <1> QED
    BY <1>4, <1>5

-----------------------------------------------------------------------------
(* Trees.                                                                  *)

Around(values) == ScalarValues \cup ObjectsOf(values) \cup ArraysOf(values)

LEMMA ScalarKind ==
  ASSUME NEW scalar \in ScalarValues
  PROVE  ~IsRef(scalar) /\ ~IsContainer(scalar)
  <1>1. Void.kind = "void" /\ Null.kind = "null"
    BY DEF Void, Null, Scalar
  <1>2. scalar.kind \in {"void", "null", "boolean", "number", "string"}
    BY <1>1 DEF ScalarValues
  <1> QED
    BY <1>2 DEF IsRef, IsContainer

\* What the recursive definition of Nested says.
LEMMA NestedIs ==
  /\ Nested[0] = ScalarValues
  /\ \A n \in Nat : Nested[n + 1] = Around(Nested[n])
  <1> DEFINE Begins(g, n) == /\ g[0] = ScalarValues
                             /\ \A i \in 1..n : g[i] = Around(g[i - 1])
             T == {n \in Nat : \E g : Begins(g, n)}
             b == [n \in Nat |-> CHOOSE g : Begins(g, n)]
             f == [n \in Nat |-> b[n][n]]
  <1>1. \A n \in Nat : n \in T
    <2>1. 0 \in T
      <3>1. Begins([i \in {0} |-> ScalarValues], 0)
        OBVIOUS
      <3> QED
        BY <3>1
    <2>2. ASSUME NEW n \in Nat, n \in T PROVE n + 1 \in T
      <3>1. PICK g : Begins(g, n)
        BY <2>2
      <3> DEFINE h == [i \in 0..n + 1 |-> IF i = n + 1 THEN Around(g[n]) ELSE g[i]]
      <3>2. h[0] = ScalarValues
        BY <3>1
      <3>3. ASSUME NEW i \in 1..n + 1 PROVE h[i] = Around(h[i - 1])
        <4>1. i - 1 \in 0..n + 1 /\ i - 1 # n + 1
          OBVIOUS
        <4>2. h[i - 1] = g[i - 1]
          BY <4>1
        <4>3. CASE i = n + 1
          BY <4>2, <4>3
        <4>4. CASE i # n + 1
          <5>1. i \in 1..n /\ h[i] = g[i]
            BY <4>4
          <5> QED
            BY <3>1, <4>2, <5>1
        <4> QED
          BY <4>3, <4>4
      <3> HIDE DEF h
      <3>4. Begins(h, n + 1)
        BY <3>2, <3>3
      <3> QED
        BY <3>4
    <2> HIDE DEF T
    <2> QED
      BY <2>1, <2>2, Induction
  <1>2. ASSUME NEW n \in Nat PROVE Begins(b[n], n)
    BY <1>1
  <1>3. ASSUME NEW n \in Nat, NEW m \in Nat, n <= m PROVE b[n][n] = b[m][n]
    <2> DEFINE U == {i \in Nat : i <= n => b[n][i] = b[m][i]}
    <2>1. 0 \in U
      BY <1>2
    <2>2. ASSUME NEW i \in Nat, i \in U PROVE i + 1 \in U
      <3> SUFFICES ASSUME i + 1 <= n PROVE b[n][i + 1] = b[m][i + 1]
        OBVIOUS
      <3> HIDE DEF b
      <3>1. i + 1 \in 1..n /\ i + 1 \in 1..m /\ i + 1 - 1 = i
        BY <1>3
      <3>2. b[n][i + 1] = Around(b[n][i]) /\ b[m][i + 1] = Around(b[m][i])
        BY <1>2, <3>1
      <3> QED
        BY <2>2, <3>1, <3>2
    <2> HIDE DEF U
    <2>3. n \in U
      BY <2>1, <2>2, Induction
    <2> QED
      BY <2>3 DEF U
  <1> HIDE DEF b
  <1>4. ASSUME NEW n \in Nat
        PROVE  f[n] = IF n = 0 THEN ScalarValues ELSE Around(f[n - 1])
    <2>1. CASE n = 0
      BY <1>2, <2>1
    <2>2. CASE n # 0
      <3>1. n - 1 \in Nat /\ n \in 1..n /\ n - 1 <= n
        BY <2>2
      <3>2. b[n - 1][n - 1] = b[n][n - 1]
        BY <1>3, <3>1
      <3> QED
        BY <1>2, <2>2, <3>1, <3>2
    <2> QED
      BY <2>1, <2>2
  <1>5. f = [n \in Nat |-> IF n = 0 THEN ScalarValues ELSE Around(f[n - 1])]
    BY <1>4
  <1> HIDE DEF f
  <1>6. Nested = [n \in Nat |-> IF n = 0 THEN ScalarValues ELSE Around(Nested[n - 1])]
    BY <1>5, Zenon DEF Nested, Around
  <1>7. ASSUME NEW n \in Nat PROVE Nested[n + 1] = Around(Nested[n])
    <2>1. n + 1 \in Nat /\ n + 1 # 0 /\ n + 1 - 1 = n
      OBVIOUS
    <2> QED
      BY <1>6, <2>1
  <1>8. Nested[0] = ScalarValues
    BY <1>6
  <1> QED
    BY <1>7, <1>8

\* A function on 1..n is a sequence.
LEMMA SequenceOf ==
  ASSUME NEW V, NEW n \in Nat, NEW s \in [1..n -> V]
  PROVE  s \in Seq(V) /\ Len(s) = n /\ DOMAIN s = 1..n
  OBVIOUS

LEMMA ValuesOf ==
  ASSUME NEW K, NEW V, NEW fields \in Seq(FieldsOf(K, V))
  PROVE  LET values == [i \in DOMAIN fields |-> fields[i].value]
         IN  values \in Seq(V) /\ Len(values) = Len(fields) /\ DOMAIN values = DOMAIN fields
  <1>1. Len(fields) \in Nat /\ DOMAIN fields = 1..Len(fields)
    OBVIOUS
  <1>2. \A i \in 1..Len(fields) : fields[i].value \in V
    <2>1. \A f \in FieldsOf(K, V) : f.value \in V
      BY DEF FieldsOf
    <2> QED
      BY <2>1
  <1>3. [i \in 1..Len(fields) |-> fields[i].value] \in [1..Len(fields) -> V]
    BY <1>2
  <1> QED
    BY <1>1, <1>3, SequenceOf

LEMMA ScalarsNest == \A n \in Nat : ScalarValues \subseteq Nested[n]
  <1> SUFFICES ASSUME NEW n \in Nat PROVE ScalarValues \subseteq Nested[n]
    OBVIOUS
  <1>1. CASE n = 0
    BY <1>1, NestedIs
  <1>2. CASE n # 0
    <2>1. n - 1 \in Nat /\ (n - 1) + 1 = n
      BY <1>2
    <2> QED
      BY <2>1, NestedIs DEF Around
  <1> QED
    BY <1>1, <1>2

\* A tree is a scalar or a container, and no reference; its parts are trees
\* that nest less deep.
LEMMA TreeShape ==
  ASSUME NEW n \in Nat, NEW tree \in Nested[n]
  PROVE  /\ ~IsRef(tree)
         /\ ~IsContainer(tree) => tree \in ScalarValues
         /\ IsContainer(tree) =>
              /\ n # 0
              /\ Parts(tree) \in Seq(Nested[n - 1])
              /\ tree.kind = "object" \/ tree.kind = "array"
              /\ tree.kind = "object" =>
                   /\ tree \in ObjectsOf(Nested[n - 1])
                   /\ tree.fields \in Seq(FieldsOf(STRING, Nested[n - 1]))
                   /\ DOMAIN Parts(tree) = DOMAIN tree.fields
                   /\ Len(tree.fields) = Len(Parts(tree))
  <1>1. CASE tree \in ScalarValues
    BY <1>1, ScalarKind
  <1>2. CASE tree \notin ScalarValues
    <2>1. n # 0 /\ n - 1 \in Nat /\ (n - 1) + 1 = n
      BY <1>2, NestedIs
    <2>2. tree \in ObjectsOf(Nested[n - 1]) \cup ArraysOf(Nested[n - 1])
      BY <1>2, <2>1, NestedIs DEF Around
    <2>3. CASE tree \in ObjectsOf(Nested[n - 1])
      <3>1. tree.kind = "object" /\ tree.fields \in Seq(FieldsOf(STRING, Nested[n - 1]))
        BY <2>3 DEF ObjectsOf
      <3>2. Parts(tree) = [i \in DOMAIN tree.fields |-> tree.fields[i].value]
        BY <3>1 DEF Parts
      <3>3. /\ Parts(tree) \in Seq(Nested[n - 1]) /\ Len(Parts(tree)) = Len(tree.fields)
            /\ DOMAIN Parts(tree) = DOMAIN tree.fields
        BY <3>1, <3>2, ValuesOf
      <3> QED
        BY <2>1, <2>3, <3>1, <3>2, <3>3 DEF IsRef, IsContainer
    <2>4. CASE tree \in ArraysOf(Nested[n - 1])
      <3>1. tree.kind = "array" /\ tree.items \in Seq(Nested[n - 1])
        BY <2>4 DEF ArraysOf
      <3> QED
        BY <2>1, <3>1 DEF IsRef, IsContainer, Parts
    <2> QED
      BY <2>2, <2>3, <2>4
  <1> QED
    BY <1>1, <1>2

-----------------------------------------------------------------------------
(* Heaps.                                                                  *)

Entries      == DOMAIN Schema \cup {NoEntry}
Links(nodes) == ScalarValues \cup {Ref(r) : r \in nodes}

\* The nodes with such slots.
ObjectNodes(slots) ==
  [kind : {"object"}, fields : Seq(FieldsOf(STRING, slots)), schema : BOOLEAN, entry : Entries]
ArrayNodes(slots) ==
  [kind : {"array"}, items : Seq(slots), schema : BOOLEAN, entry : Entries]
NodesWith(slots) == ObjectNodes(slots) \cup ArrayNodes(slots)

\* Finitely many nodes, whose references are to nodes that are there.
HeapOK(heap) ==
  /\ IsFiniteSet(DOMAIN heap)
  /\ heap \in [DOMAIN heap -> NodesWith(Links(DOMAIN heap))]

\* No node of the set refers to one that is not in it.
Closed(heap, nodes) == \A r \in nodes : RefsIn(Slots(heap[r])) \subseteq nodes

LEMMA LinkOrScalar ==
  ASSUME NEW nodes, NEW slot \in Links(nodes)
  PROVE  /\ IsRef(slot) => slot.ref \in nodes /\ slot = Ref(slot.ref) /\ RefsIn({slot}) = {slot.ref}
         /\ ~IsRef(slot) => slot \in ScalarValues /\ RefsIn({slot}) = {}
         /\ RefsIn({slot}) \subseteq nodes
  <1>1. CASE slot \in ScalarValues
    <2>1. ~IsRef(slot)
      BY <1>1, ScalarKind
    <2> QED
      BY <1>1, <2>1 DEF RefsIn
  <1>2. CASE slot \notin ScalarValues
    <2>1. PICK r \in nodes : slot = Ref(r)
      BY <1>2 DEF Links
    <2>2. slot.kind = "ref" /\ slot.ref = r
      BY <2>1 DEF Ref
    <2>3. RefsIn({slot}) = {slot.ref}
      BY <2>2 DEF RefsIn, IsRef
    <2> QED
      BY <2>1, <2>2, <2>3 DEF IsRef
  <1> QED
    BY <1>1, <1>2

LEMMA NodeShape ==
  ASSUME NEW V, NEW node \in NodesWith(V)
  PROVE  /\ Parts(node) \in Seq(V) /\ Slots(node) \subseteq V
         /\ \A i \in DOMAIN Parts(node) : Parts(node)[i] \in Slots(node)
         /\ node.schema \in BOOLEAN /\ node.entry \in Entries
         /\ node.kind = "object" \/ node.kind = "array"
         /\ node.kind = "object" =>
              /\ node \in ObjectNodes(V) /\ node.fields \in Seq(FieldsOf(STRING, V))
              /\ Parts(node) = [i \in DOMAIN node.fields |-> node.fields[i].value]
              /\ DOMAIN Parts(node) = DOMAIN node.fields
         /\ node.kind = "array" =>
              /\ node \in ArrayNodes(V) /\ node.items \in Seq(V) /\ Parts(node) = node.items
  <1>1. CASE node \in ObjectNodes(V)
    <2>1. /\ node.kind = "object" /\ node.fields \in Seq(FieldsOf(STRING, V))
          /\ node.schema \in BOOLEAN /\ node.entry \in Entries
      BY <1>1 DEF ObjectNodes
    <2>2. Parts(node) = [i \in DOMAIN node.fields |-> node.fields[i].value]
      BY <2>1 DEF Parts
    <2>3. Parts(node) \in Seq(V) /\ DOMAIN Parts(node) = DOMAIN node.fields
      BY <2>1, <2>2, ValuesOf
    <2>4. Slots(node) \subseteq V /\ \A i \in DOMAIN Parts(node) : Parts(node)[i] \in Slots(node)
      BY <2>3 DEF Slots, Range
    <2> QED
      BY <1>1, <2>1, <2>2, <2>3, <2>4
  <1>2. CASE node \in ArrayNodes(V)
    <2>1. /\ node.kind = "array" /\ node.items \in Seq(V)
          /\ node.schema \in BOOLEAN /\ node.entry \in Entries
      BY <1>2 DEF ArrayNodes
    <2>2. Parts(node) = node.items
      BY <2>1 DEF Parts
    <2>3. Slots(node) \subseteq V /\ \A i \in DOMAIN Parts(node) : Parts(node)[i] \in Slots(node)
      BY <2>1, <2>2 DEF Slots, Range
    <2> QED
      BY <1>2, <2>1, <2>2, <2>3
  <1> QED
    BY <1>1, <1>2 DEF NodesWith

LEMMA RefsOfLinks ==
  ASSUME NEW nodes, NEW slots, slots \subseteq Links(nodes)
  PROVE  /\ RefsIn(slots) \subseteq nodes
         /\ \A slot \in slots : IsRef(slot) => slot.ref \in RefsIn(slots)
         /\ \A r \in RefsIn(slots) : Ref(r) \in slots
  <1>1. \A slot \in slots : IsRef(slot) => slot.ref \in nodes /\ slot = Ref(slot.ref)
    BY LinkOrScalar
  <1> QED
    BY <1>1 DEF RefsIn

LEMMA HeapClosed ==
  ASSUME NEW heap, HeapOK(heap) PROVE Closed(heap, DOMAIN heap)
  <1> SUFFICES ASSUME NEW r \in DOMAIN heap
               PROVE  RefsIn(Slots(heap[r])) \subseteq DOMAIN heap
    BY DEF Closed
  <1>1. Slots(heap[r]) \subseteq Links(DOMAIN heap)
    BY NodeShape DEF HeapOK
  <1> QED
    BY <1>1, RefsOfLinks

-----------------------------------------------------------------------------
\* Reach is the least closed set with the nodes the slots refer to.
LeastClosed(heap, seen) ==
  {r \in DOMAIN heap : \A nodes \in SUBSET DOMAIN heap :
                         Closed(heap, nodes) /\ seen \subseteq nodes => r \in nodes}

LEMMA ReachIs ==
  ASSUME NEW heap, HeapOK(heap), NEW slots, slots \subseteq Links(DOMAIN heap)
  PROVE  Reach(heap, slots) = LeastClosed(heap, RefsIn(slots))
  <1> DEFINE D == DOMAIN heap
             Nxt(seen) == UNION {RefsIn(Slots(heap[r])) : r \in seen}
             F(f) == f = [seen \in SUBSET D |->
                            IF Nxt(seen) \subseteq seen THEN seen ELSE f[seen \cup Nxt(seen)]]
             g == [seen \in SUBSET D |-> LeastClosed(heap, seen)]
  <1>1. Closed(heap, D) /\ RefsIn(slots) \subseteq D /\ IsFiniteSet(D)
    BY HeapClosed, RefsOfLinks DEF HeapOK
  <1>2. \A seen \in SUBSET D : Nxt(seen) \in SUBSET D
    BY <1>1 DEF Closed
  <1>3. \A seen \in SUBSET D : Closed(heap, seen) <=> Nxt(seen) \subseteq seen
    BY DEF Closed
  <1>4. ASSUME NEW seen \in SUBSET D, Nxt(seen) \subseteq seen
        PROVE  LeastClosed(heap, seen) = seen
    BY <1>3, <1>4 DEF LeastClosed
  <1>5. ASSUME NEW seen \in SUBSET D
        PROVE  LeastClosed(heap, seen) = LeastClosed(heap, seen \cup Nxt(seen))
    <2>1. ASSUME NEW nodes \in SUBSET D, Closed(heap, nodes), seen \subseteq nodes
          PROVE  Nxt(seen) \subseteq nodes
      BY <2>1 DEF Closed
    <2> HIDE DEF Nxt
    <2> QED
      BY <2>1 DEF LeastClosed
  <1> HIDE DEF Nxt
  <1>6. F(g)
    BY <1>2, <1>4, <1>5
  <1>7. ASSUME NEW f, F(f), NEW s \in SUBSET D PROVE f[s] = g[s]
    <2> DEFINE Wrong == {seen \in SUBSET D : f[seen] # g[seen]}
               T == {Cardinality(D \ seen) : seen \in Wrong}
    <2> SUFFICES ASSUME Wrong # {} PROVE FALSE
      OBVIOUS
    <2>1. \A seen \in SUBSET D : IsFiniteSet(D \ seen) /\ Cardinality(D \ seen) \in Nat
      BY <1>1, FS_Subset, FS_CardinalityType
    <2>2. T \subseteq Nat /\ T # {}
      BY <2>1
    <2>3. PICK m \in T : \A n \in T : m <= n
      BY <2>2, Least
    <2>4. PICK seen \in Wrong : m = Cardinality(D \ seen)
      BY <2>3
    <2>5. ~(Nxt(seen) \subseteq seen)
      BY <1>6, <1>7, <2>4
    <2>6. f[seen] = f[seen \cup Nxt(seen)] /\ g[seen] = g[seen \cup Nxt(seen)]
      BY <1>6, <1>7, <2>4, <2>5
    <2>7. seen \cup Nxt(seen) \in Wrong
      BY <1>2, <2>4, <2>6
    <2> DEFINE A == D \ seen
               B == D \ (seen \cup Nxt(seen))
    <2>8. B \in SUBSET A /\ B # A
      BY <1>2, <2>4, <2>5
    <2>9. Cardinality(B) <= Cardinality(A) /\ Cardinality(A) # Cardinality(B)
      <3>1. IsFiniteSet(A)
        BY <2>1, <2>4
      <3> HIDE DEF A, B
      <3> QED
        BY <2>8, <3>1, FS_Subset
    <2>10. Cardinality(B) \in T /\ Cardinality(B) \in Nat /\ Cardinality(A) \in Nat
      BY <2>1, <2>4, <2>7
    <2> HIDE DEF A, B, T
    <2>11. Cardinality(A) <= Cardinality(B)
      BY <2>3, <2>4, <2>10 DEF A
    <2> QED
      BY <2>9, <2>10, <2>11
  <1> DEFINE reach == CHOOSE f : F(f)
  <1>8. F(reach)
    BY <1>6
  <1>9. Reach(heap, slots) = reach[RefsIn(slots)]
    BY Zenon DEF Reach, Nxt
  <1> HIDE DEF reach
  <1>10. reach[RefsIn(slots)] = g[RefsIn(slots)]
    BY <1>1, <1>7, <1>8
  <1> QED
    BY <1>1, <1>9, <1>10

LEMMA Reached ==
  ASSUME NEW heap, HeapOK(heap), NEW slots, slots \subseteq Links(DOMAIN heap)
  PROVE  /\ Reach(heap, slots) \subseteq DOMAIN heap
         /\ RefsIn(slots) \subseteq Reach(heap, slots)
         /\ Closed(heap, Reach(heap, slots))
         /\ \A nodes \in SUBSET DOMAIN heap :
              Closed(heap, nodes) /\ RefsIn(slots) \subseteq nodes
                => Reach(heap, slots) \subseteq nodes
  <1>1. RefsIn(slots) \subseteq DOMAIN heap
    BY RefsOfLinks
  <1>2. RefsIn(slots) \subseteq LeastClosed(heap, RefsIn(slots))
    BY <1>1 DEF LeastClosed
  <1>3. Closed(heap, LeastClosed(heap, RefsIn(slots)))
    <2>1. Closed(heap, DOMAIN heap)
      BY HeapClosed
    <2> SUFFICES ASSUME NEW r \in LeastClosed(heap, RefsIn(slots)), NEW q \in RefsIn(Slots(heap[r]))
                 PROVE  q \in LeastClosed(heap, RefsIn(slots))
      BY DEF Closed
    <2> QED
      BY <2>1 DEF LeastClosed, Closed
  <1> QED
    BY <1>2, <1>3, ReachIs DEF LeastClosed

\* A closed set of nodes is reached alike in every heap that has those nodes.
LEMMA ReachWithin ==
  ASSUME NEW heap, HeapOK(heap), NEW new, HeapOK(new),
         NEW nodes, nodes \subseteq DOMAIN heap, nodes \subseteq DOMAIN new,
         Closed(heap, nodes), \A r \in nodes : new[r] = heap[r],
         NEW slots, slots \subseteq Links(nodes)
  PROVE  /\ Reach(new, slots) = Reach(heap, slots)
         /\ Reach(heap, slots) \subseteq nodes
  <1>1. slots \subseteq Links(DOMAIN heap) /\ slots \subseteq Links(DOMAIN new)
    BY DEF Links
  <1>2. RefsIn(slots) \subseteq nodes
    BY RefsOfLinks
  <1>3. Closed(new, nodes)
    BY DEF Closed
  <1>4. Reach(heap, slots) \subseteq nodes /\ Reach(new, slots) \subseteq nodes
    BY <1>1, <1>2, <1>3, Reached
  <1>5. Closed(new, Reach(heap, slots)) /\ Closed(heap, Reach(new, slots))
    BY <1>1, <1>4, Reached DEF Closed
  <1>6. Reach(new, slots) \subseteq Reach(heap, slots)
    BY <1>1, <1>4, <1>5, Reached
  <1>7. Reach(heap, slots) \subseteq Reach(new, slots)
    BY <1>1, <1>4, <1>5, Reached
  <1> QED
    BY <1>4, <1>6, <1>7

LEMMA NodesWithMore ==
  ASSUME NEW node, NEW nodes, NEW all, node \in NodesWith(Links(all)), nodes \subseteq all,
         RefsIn(Slots(node)) \subseteq nodes
  PROVE  node \in NodesWith(Links(nodes))
  <1>1. ASSUME NEW slot \in Slots(node) PROVE slot \in Links(nodes)
    <2>1. slot \in Links(all) /\ Slots(node) \subseteq Links(all)
      BY NodeShape
    <2>2. CASE IsRef(slot)
      <3>1. slot.ref \in RefsIn(Slots(node)) /\ slot = Ref(slot.ref)
        BY <2>1, <2>2, RefsOfLinks, LinkOrScalar
      <3> QED
        BY <3>1 DEF Links
    <2>3. CASE ~IsRef(slot)
      BY <2>1, <2>3, LinkOrScalar DEF Links
    <2> QED
      BY <2>2, <2>3
  <1> DEFINE V == Links(nodes)
             W == Links(all)
  <1>2. CASE node \in ObjectNodes(W)
    <2>1. node \in [kind : {"object"}, fields : Seq(FieldsOf(STRING, W)), schema : BOOLEAN, entry : Entries]
      BY <1>2 DEF ObjectNodes
    <2>2. node.fields \in Seq(FieldsOf(STRING, W)) /\ node.kind = "object"
      BY <2>1
    <2>3. Parts(node) = [i \in DOMAIN node.fields |-> node.fields[i].value]
      BY <2>2 DEF Parts
    <2>4. ASSUME NEW i \in 1..Len(node.fields) PROVE node.fields[i] \in FieldsOf(STRING, V)
      <3>1. node.fields[i] \in FieldsOf(STRING, W) /\ i \in DOMAIN Parts(node)
        BY <2>2, <2>3
      <3>2. node.fields[i].value \in V
        <4>1. Parts(node)[i] = node.fields[i].value
          BY <2>2, <2>3
        <4>2. Parts(node)[i] \in Slots(node)
          BY <3>1, NodeShape
        <4> QED
          BY <1>1, <4>1, <4>2
      <3>3. \A f \in FieldsOf(STRING, W) : f.value \in V => f \in FieldsOf(STRING, V)
        BY DEF FieldsOf
      <3> QED
        BY <3>1, <3>2, <3>3
    <2>5. node.fields \in Seq(FieldsOf(STRING, V))
      BY <2>2, <2>4
    <2>6. node \in ObjectNodes(V)
      BY <2>1, <2>5 DEF ObjectNodes
    <2> QED
      BY <2>6 DEF NodesWith
  <1>3. CASE node \in ArrayNodes(W)
    <2>1. node \in [kind : {"array"}, items : Seq(W), schema : BOOLEAN, entry : Entries]
      BY <1>3 DEF ArrayNodes
    <2>2. node.items \in Seq(W) /\ Parts(node) = node.items
      BY <2>1 DEF Parts
    <2>3. \A i \in 1..Len(node.items) : node.items[i] \in V
      <3>1. \A i \in DOMAIN Parts(node) : Parts(node)[i] \in Slots(node)
        BY NodeShape
      <3> QED
        BY <1>1, <2>2, <3>1
    <2>4. node.items \in Seq(V)
      BY <2>2, <2>3
    <2>5. node \in ArrayNodes(V)
      BY <2>1, <2>4 DEF ArrayNodes
    <2> QED
      BY <2>5 DEF NodesWith
  <1> QED
    BY <1>2, <1>3 DEF NodesWith

\* Collection keeps the nodes reached, as they are.
LEMMA Collected ==
  ASSUME NEW heap, HeapOK(heap), NEW slots, slots \subseteq Links(DOMAIN heap)
  PROVE  LET new == Collect(heap, slots)
         IN  /\ HeapOK(new) /\ DOMAIN new = Reach(heap, slots)
             /\ \A r \in DOMAIN new : r \in DOMAIN heap /\ new[r] = heap[r]
             /\ slots \subseteq Links(DOMAIN new)
             /\ Reach(new, slots) = DOMAIN new
  <1> DEFINE new == Collect(heap, slots)
             D == Reach(heap, slots)
  <1>1. /\ D \subseteq DOMAIN heap /\ Closed(heap, D) /\ RefsIn(slots) \subseteq D
    BY Reached
  <1>2. DOMAIN new = D /\ \A r \in D : new[r] = heap[r]
    BY DEF Collect
  <1>3. \A r \in D : new[r] \in NodesWith(Links(D))
    <2>1. \A r \in D : heap[r] \in NodesWith(Links(DOMAIN heap)) /\ RefsIn(Slots(heap[r])) \subseteq D
      BY <1>1 DEF HeapOK, Closed
    <2> QED
      BY <1>1, <1>2, <2>1, NodesWithMore
  <1>4. new \in [D -> NodesWith(Links(D))]
    BY <1>3 DEF Collect
  <1>5. IsFiniteSet(D)
    BY <1>1, FS_Subset DEF HeapOK
  <1>6. HeapOK(new)
    BY <1>2, <1>4, <1>5 DEF HeapOK
  <1>7. slots \subseteq Links(D)
    <2> SUFFICES ASSUME NEW slot \in slots PROVE slot \in Links(D)
      OBVIOUS
    <2>1. IsRef(slot) => slot.ref \in D /\ slot = Ref(slot.ref)
      BY <1>1, RefsOfLinks, LinkOrScalar
    <2>2. ~IsRef(slot) => slot \in ScalarValues
      BY LinkOrScalar
    <2> QED
      BY <2>1, <2>2 DEF Links
  <1>8. Reach(new, slots) = Reach(heap, slots)
    <2> HIDE DEF new, D
    <2> QED
      BY <1>1, <1>2, <1>6, <1>7, ReachWithin
  <1> QED
    BY <1>1, <1>2, <1>6, <1>7, <1>8

-----------------------------------------------------------------------------
(* What a slot denotes.                                                    *)

TreeAt(heap, trees, r) ==
  LET Part(s) == IF IsRef(s) THEN trees[s.ref] ELSE s
      slots   == Parts(heap[r])
  IN  TreeOf(heap[r], [i \in DOMAIN slots |-> Part(slots[i])])

LEMMA TreeAtNests ==
  ASSUME NEW heap, HeapOK(heap), NEW n \in Nat,
         NEW trees \in [DOMAIN heap -> Nested[n]], NEW r \in DOMAIN heap
  PROVE  TreeAt(heap, trees, r) \in Nested[n + 1]
  <1> DEFINE V == Links(DOMAIN heap)
             node == heap[r]
             Part(s) == IF IsRef(s) THEN trees[s.ref] ELSE s
             slots == Parts(node)
             parts == [i \in DOMAIN slots |-> Part(slots[i])]
  <1>1. node \in NodesWith(V)
    BY DEF HeapOK
  <1>2. ASSUME NEW s \in V PROVE Part(s) \in Nested[n]
    <2>1. CASE IsRef(s)
      BY <2>1, LinkOrScalar
    <2>2. CASE ~IsRef(s)
      BY <2>2, LinkOrScalar, ScalarsNest
    <2> QED
      BY <2>1, <2>2
  <1> HIDE DEF node, V, Part
  <1>3. slots \in Seq(V) /\ (node.kind = "object" \/ node.kind = "array")
    BY <1>1, NodeShape
  <1>4. slots \in Seq(V)
    BY <1>1, NodeShape
  <1>5. Len(slots) \in Nat /\ DOMAIN slots = 1..Len(slots) /\ \A i \in 1..Len(slots) : slots[i] \in V
    BY <1>4
  <1>6. parts \in [1..Len(slots) -> Nested[n]]
    <2> HIDE DEF slots
    <2> QED
      BY <1>2, <1>5
  <1>7. parts \in Seq(Nested[n]) /\ DOMAIN parts = DOMAIN slots /\ Len(parts) = Len(slots)
    <2> HIDE DEF parts, slots
    <2> QED
      BY <1>5, <1>6, SequenceOf
  <1>8. TreeAt(heap, trees, r) = TreeOf(node, parts)
    BY DEF TreeAt, node, Part
  <1>9. TreeOf(node, parts) \in ObjectsOf(Nested[n]) \cup ArraysOf(Nested[n])
    <2>1. CASE node.kind = "array"
      BY <1>7, <2>1 DEF TreeOf, Array, ArraysOf
    <2>2. CASE node.kind = "object"
      <3>1. node.fields \in Seq(FieldsOf(STRING, V)) /\ DOMAIN slots = DOMAIN node.fields
        BY <1>1, <2>2, NodeShape
      <3>2. \A f \in FieldsOf(STRING, V) : f.key \in STRING
        BY DEF FieldsOf
      <3>3. \A i \in DOMAIN parts : node.fields[i].key \in STRING
        <4> HIDE DEF parts, slots
        <4>1. \A i \in DOMAIN node.fields : node.fields[i] \in FieldsOf(STRING, V)
          BY <3>1
        <4> QED
          BY <1>7, <3>1, <3>2, <4>1
      <3> DEFINE new == [i \in DOMAIN parts |-> Field(node.fields[i].key, parts[i])]
      <3>4. new \in Seq(FieldsOf(STRING, Nested[n]))
        <4> HIDE DEF parts, slots
        <4>1. \A k \in STRING, t \in Nested[n] : Field(k, t) \in FieldsOf(STRING, Nested[n])
          BY DEF Field, FieldsOf
        <4>2. \A i \in 1..Len(slots) : parts[i] \in Nested[n] /\ node.fields[i].key \in STRING
          BY <1>5, <1>6, <1>7, <3>3
        <4>3. new \in [1..Len(slots) -> FieldsOf(STRING, Nested[n])]
          BY <1>5, <1>7, <4>1, <4>2
        <4> HIDE DEF new
        <4> QED
          BY <1>5, <4>3, SequenceOf
      <3>5. TreeOf(node, parts) = Object(new)
        BY <2>2 DEF TreeOf
      <3> HIDE DEF new
      <3> QED
        BY <3>4, <3>5 DEF Object, ObjectsOf
    <2> QED
      BY <1>1, <2>1, <2>2, NodeShape
  <1> QED
    BY <1>8, <1>9, NestedIs DEF Around

\* What the recursive definition in View says: the trees of the nodes, to a depth.
Viewing(heap, view) ==
  /\ view[0] = [r \in DOMAIN heap |-> Void]
  /\ \A n \in Nat : /\ view[n] \in [DOMAIN heap -> Nested[n]]
                    /\ view[n + 1] = [r \in DOMAIN heap |-> TreeAt(heap, view[n], r)]

LEMMA ViewIs ==
  ASSUME NEW heap, HeapOK(heap)
  PROVE  \E view : /\ Viewing(heap, view)
                   /\ \A slot : View(heap, slot) = IF IsRef(slot) THEN view[MaxDepth][slot.ref]
                                                  ELSE slot
  <1> DEFINE D == DOMAIN heap
             S == [n \in Nat |-> [D -> Nested[n]]]
             a == [r \in D |-> Void]
             F == [n \in Nat |-> [trees \in S[n] |-> [r \in D |-> TreeAt(heap, trees, r)]]]
             Is(f) == f = [n \in Nat |-> IF n = 0 THEN a
                                         ELSE [r \in D |-> TreeAt(heap, f[n - 1], r)]]
  <1>1. a \in S[0]
    <2>1. Void \in Nested[0]
      BY NestedIs DEF ScalarValues
    <2>2. S[0] = [D -> Nested[0]]
      BY Zenon
    <2> QED
      BY <2>1, <2>2
  <1>2. ASSUME NEW n \in Nat, NEW x \in S[n]
        PROVE  F[n][x] \in S[n + 1] /\ F[n][x] = [r \in D |-> TreeAt(heap, x, r)]
    <2>1. F[n][x] = [r \in D |-> TreeAt(heap, x, r)]
      OBVIOUS
    <2>2. x \in [D -> Nested[n]] /\ n + 1 \in Nat
      OBVIOUS
    <2>3. \A r \in D : TreeAt(heap, x, r) \in Nested[n + 1]
      BY <2>2, TreeAtNests
    <2> HIDE DEF F
    <2> QED
      BY <2>1, <2>2, <2>3
  <1> HIDE DEF F, a, S
  <1>21. \A n \in Nat : \A x \in S[n] : F[n][x] \in S[n + 1]
    BY <1>2
  <1>3. PICK f : /\ f = [n \in Nat |-> IF n = 0 THEN a ELSE F[n - 1][f[n - 1]]]
                 /\ \A n \in Nat : f[n] \in S[n]
    BY <1>1, <1>21, Iteration
  <1>4. ASSUME NEW n \in Nat
        PROVE  f[n] = IF n = 0 THEN a ELSE [r \in D |-> TreeAt(heap, f[n - 1], r)]
    <2>1. CASE n = 0
      BY <1>3, <2>1
    <2>2. CASE n # 0
      <3>1. n - 1 \in Nat
        BY <2>2
      <3>2. f[n] = F[n - 1][f[n - 1]] /\ f[n - 1] \in S[n - 1]
        BY <1>3, <2>2, <3>1
      <3> QED
        BY <1>2, <2>2, <3>1, <3>2
    <2> QED
      BY <2>1, <2>2
  <1>5. Is(f)
    BY <1>3, <1>4
  <1> DEFINE view == CHOOSE g : Is(g)
  <1>6. Is(view)
    BY <1>5
  <1>7. ASSUME NEW slot
        PROVE  View(heap, slot) = IF IsRef(slot) THEN view[MaxDepth][slot.ref] ELSE slot
    BY Zenon DEF View, a, TreeAt
  <1> HIDE DEF view
  <1>8. \A n \in Nat : view[n] \in S[n]
    <2> DEFINE T == {n \in Nat : view[n] \in S[n]}
    <2>1. 0 \in T
      BY <1>1, <1>6
    <2>2. ASSUME NEW n \in Nat, n \in T PROVE n + 1 \in T
      <3>1. n + 1 \in Nat /\ n + 1 # 0 /\ n + 1 - 1 = n
        OBVIOUS
      <3>2. view[n + 1] = [r \in D |-> TreeAt(heap, view[n], r)]
        BY <1>6, <3>1
      <3> QED
        BY <1>2, <2>2, <3>2
    <2> HIDE DEF T
    <2>3. \A n \in Nat : n \in T
      BY <2>1, <2>2, Induction
    <2> QED
      BY <2>3 DEF T
  <1>9. ASSUME NEW n \in Nat
        PROVE  /\ view[n] \in [DOMAIN heap -> Nested[n]]
               /\ view[n + 1] = [r \in DOMAIN heap |-> TreeAt(heap, view[n], r)]
    <2>1. n + 1 \in Nat /\ n + 1 # 0 /\ n + 1 - 1 = n
      OBVIOUS
    <2>2. view[n + 1] = [r \in D |-> TreeAt(heap, view[n], r)]
      BY <1>6, <2>1
    <2>3. S[n] = [D -> Nested[n]]
      BY Zenon DEF S
    <2> QED
      BY <1>8, <2>2, <2>3
  <1>10. view[0] = [r \in DOMAIN heap |-> Void]
    BY <1>6 DEF a
  <1>11. Viewing(heap, view)
    BY <1>9, <1>10, Zenon DEF Viewing
  <1> QED
    BY <1>7, <1>11

\* Whatever the heap, what a slot denotes is a tree: cut off, if need be.
LEMMA ViewIsTree ==
  ASSUME NEW heap, HeapOK(heap), NEW slot \in Links(DOMAIN heap)
  PROVE  View(heap, slot) \in Trees
  <1>1. PICK view : /\ Viewing(heap, view)
                    /\ \A s : View(heap, s) = IF IsRef(s) THEN view[MaxDepth][s.ref] ELSE s
    BY ViewIs
  <1>2. MaxDepth \in Nat /\ view[MaxDepth] \in [DOMAIN heap -> Trees]
    BY <1>1, DepthAssumption DEF Viewing, Trees
  <1>3. CASE IsRef(slot)
    <2>1. slot.ref \in DOMAIN heap
      BY <1>3, LinkOrScalar, Zenon
    <2>2. View(heap, slot) = view[MaxDepth][slot.ref]
      BY <1>1, <1>3
    <2> QED
      BY <1>2, <2>1, <2>2
  <1>4. CASE ~IsRef(slot)
    <2>1. slot \in ScalarValues
      BY <1>4, LinkOrScalar, Zenon
    <2>2. View(heap, slot) = slot
      BY <1>1, <1>4
    <2> QED
      BY <1>2, <2>1, <2>2, ScalarsNest DEF Trees
  <1> QED
    BY <1>3, <1>4

\* The deeper a tree may nest, the more trees there are.
LEMMA NestedGrows ==
  ASSUME NEW n \in Nat
  PROVE  Nested[n] \subseteq Nested[n + 1]
  <1> DEFINE T == {m \in Nat : Nested[m] \subseteq Nested[m + 1]}
  <1>1. ASSUME NEW V, NEW W, V \subseteq W PROVE Around(V) \subseteq Around(W)
    <2>1. FieldsOf(STRING, V) \subseteq FieldsOf(STRING, W)
      BY <1>1 DEF FieldsOf
    <2>2. Seq(FieldsOf(STRING, V)) \subseteq Seq(FieldsOf(STRING, W)) /\ Seq(V) \subseteq Seq(W)
      BY <1>1, <2>1
    <2>3. ObjectsOf(V) \subseteq ObjectsOf(W) /\ ArraysOf(V) \subseteq ArraysOf(W)
      BY <2>2 DEF ObjectsOf, ArraysOf
    <2> QED
      BY <2>3 DEF Around
  <1>2. 0 \in T
    BY NestedIs, ScalarsNest
  <1>3. ASSUME NEW m \in Nat, m \in T PROVE m + 1 \in T
    <2>1. Around(Nested[m]) \subseteq Around(Nested[m + 1])
      BY <1>1, <1>3
    <2> QED
      BY <2>1, NestedIs
  <1> HIDE DEF T
  <1>4. \A m \in Nat : m \in T
    BY <1>2, <1>3, Induction
  <1> QED
    BY <1>4 DEF T

-----------------------------------------------------------------------------
(* Who reaches what.                                                       *)

LEMMA ReachUnion ==
  ASSUME NEW h, HeapOK(h), NEW S, S \subseteq Links(DOMAIN h), NEW T, T \subseteq Links(DOMAIN h)
  PROVE  Reach(h, S \cup T) = Reach(h, S) \cup Reach(h, T)
  <1>1. /\ S \cup T \subseteq Links(DOMAIN h) /\ RefsIn(S \cup T) = RefsIn(S) \cup RefsIn(T)
    BY DEF RefsIn
  <1>2. \A U : U \subseteq Links(DOMAIN h) =>
          /\ Reach(h, U) \subseteq DOMAIN h /\ RefsIn(U) \subseteq Reach(h, U)
          /\ Closed(h, Reach(h, U))
          /\ \A nodes \in SUBSET DOMAIN h :
               Closed(h, nodes) /\ RefsIn(U) \subseteq nodes => Reach(h, U) \subseteq nodes
    BY Reached
  <1>3. Reach(h, S \cup T) \subseteq Reach(h, S) \cup Reach(h, T)
    <2>1. Closed(h, Reach(h, S) \cup Reach(h, T))
      <3>1. Closed(h, Reach(h, S)) /\ Closed(h, Reach(h, T))
        BY <1>2
      <3> QED
        BY <3>1 DEF Closed
    <2>2. /\ Reach(h, S) \cup Reach(h, T) \in SUBSET DOMAIN h
          /\ RefsIn(S \cup T) \subseteq Reach(h, S) \cup Reach(h, T)
      BY <1>1, <1>2
    <2> QED
      BY <1>1, <1>2, <2>1, <2>2
  <1>4. Reach(h, S) \subseteq Reach(h, S \cup T) /\ Reach(h, T) \subseteq Reach(h, S \cup T)
    <2>1. /\ Reach(h, S \cup T) \in SUBSET DOMAIN h /\ Closed(h, Reach(h, S \cup T))
          /\ RefsIn(S) \subseteq Reach(h, S \cup T) /\ RefsIn(T) \subseteq Reach(h, S \cup T)
      BY <1>1, <1>2
    <2> QED
      BY <1>2, <2>1
  <1> QED
    BY <1>3, <1>4

\* The nodes a slot reaches.
Own(h, slot) == Reach(h, {slot})

LEMMA OwnIs ==
  ASSUME NEW h, HeapOK(h), NEW slot \in Links(DOMAIN h)
  PROVE  /\ Own(h, slot) \subseteq DOMAIN h /\ Closed(h, Own(h, slot))
         /\ slot \in Links(Own(h, slot))
         /\ \A nodes \in SUBSET DOMAIN h :
              Closed(h, nodes) /\ slot \in Links(nodes) => Own(h, slot) \subseteq nodes
  <1> DEFINE S == {slot}
  <1>1. S \subseteq Links(DOMAIN h) /\ RefsIn(S) = IF IsRef(slot) THEN {slot.ref} ELSE {}
    BY LinkOrScalar
  <1> HIDE DEF S
  <1>2. /\ Reach(h, S) \subseteq DOMAIN h /\ RefsIn(S) \subseteq Reach(h, S)
        /\ Closed(h, Reach(h, S))
        /\ \A nodes \in SUBSET DOMAIN h :
              Closed(h, nodes) /\ RefsIn(S) \subseteq nodes => Reach(h, S) \subseteq nodes
    BY <1>1, Reached
  <1>3. Own(h, slot) = Reach(h, S)
    BY DEF Own, S
  <1>4. slot \in Links(Own(h, slot))
    <2>1. CASE IsRef(slot)
      <3>1. slot.ref \in RefsIn(S)
        BY <1>1, <2>1
      <3>2. slot = Ref(slot.ref)
        BY <2>1, LinkOrScalar
      <3> QED
        BY <1>2, <1>3, <3>1, <3>2 DEF Links
    <2>2. CASE ~IsRef(slot)
      BY <2>2, LinkOrScalar DEF Links
    <2> QED
      BY <2>1, <2>2
  <1>5. ASSUME NEW nodes \in SUBSET DOMAIN h, Closed(h, nodes), slot \in Links(nodes)
        PROVE  Own(h, slot) \subseteq nodes
    <2>1. RefsIn(S) \subseteq nodes
      BY <1>1, <1>5, LinkOrScalar
    <2> QED
      BY <1>2, <1>3, <1>5, <2>1
  <1> QED
    BY <1>2, <1>3, <1>4, <1>5

LEMMA OwnWithin ==
  ASSUME NEW h, HeapOK(h), NEW new, HeapOK(new),
         NEW nodes, nodes \subseteq DOMAIN h, nodes \subseteq DOMAIN new,
         Closed(h, nodes), \A r \in nodes : new[r] = h[r],
         NEW slot \in Links(nodes)
  PROVE  Own(new, slot) = Own(h, slot) /\ Own(h, slot) \subseteq nodes
  <1> DEFINE S == {slot}
  <1>1. S \subseteq Links(nodes) /\ Own(new, slot) = Reach(new, S) /\ Own(h, slot) = Reach(h, S)
    BY DEF Own
  <1> HIDE DEF S
  <1>2. Reach(new, S) = Reach(h, S) /\ Reach(h, S) \subseteq nodes
    BY <1>1, ReachWithin
  <1> QED
    BY <1>1, <1>2

LEMMA EmptyHeapOK == HeapOK(EmptyHeap) /\ DOMAIN EmptyHeap = {}
  <1>1. DOMAIN EmptyHeap = {} /\ EmptyHeap \in [DOMAIN EmptyHeap -> NodesWith(Links(DOMAIN EmptyHeap))]
    BY DEF EmptyHeap
  <1> QED
    BY <1>1, FS_EmptySet DEF HeapOK

LEMMA VoidLinks == \A nodes : Void \in Links(nodes) /\ IsVoid(Void) /\ ~IsRef(Void)
  BY ScalarKind DEF Links, ScalarValues, IsVoid, Void, Scalar, IsRef

-----------------------------------------------------------------------------
(* Edits of the parts of one node.                                         *)

\* A reference stands once in the sequence.
Once(parts) ==
  \A i, j \in DOMAIN parts : IsRef(parts[i]) /\ parts[i] = parts[j] => i = j

\* `new` refers to nothing but what `old` refers to and what is in `slot`.
Rearranged(old, new, slot) ==
  /\ Once(new)
  /\ \A i \in DOMAIN new :
       IsRef(new[i]) => new[i] = slot \/ \E k \in DOMAIN old : old[k] = new[i]

LEMMA InsertAtIs ==
  ASSUME NEW V, NEW s \in Seq(V), NEW slot \in V, NEW k \in 1..Len(s) + 1
  PROVE  LET t == InsertAt(s, k, slot)
         IN  /\ t \in Seq(V) /\ DOMAIN t = 1..Len(s) + 1
             /\ \A i \in 1..Len(s) + 1 :
                  t[i] = IF i < k THEN s[i] ELSE IF i = k THEN slot ELSE s[i - 1]
  <1> DEFINE t == InsertAt(s, k, slot)
  <1> DEFINE a == SubSeq(s, 1, k - 1)
             c == SubSeq(s, k, Len(s))
             b == a \o <<slot>>
  <1>1. a \in Seq(V) /\ Len(a) = k - 1 /\ \A i \in 1..k - 1 : a[i] = s[i]
    OBVIOUS
  <1>2. /\ c \in Seq(V) /\ Len(c) = Len(s) - k + 1
        /\ \A i \in 1..Len(s) - k + 1 : c[i] = s[k + i - 1]
    OBVIOUS
  <1>3. /\ b \in Seq(V) /\ Len(b) = k /\ b[k] = slot
        /\ \A i \in 1..k - 1 : b[i] = s[i]
    <2> HIDE DEF a
    <2> QED
      BY <1>1
  <1>4. t = b \o c
    BY DEF InsertAt
  <1> HIDE DEF t, b, c
  <1>5. t \in Seq(V) /\ DOMAIN t = 1..Len(s) + 1
    <2>1. t \in Seq(V) /\ DOMAIN t = 1..Len(b) + Len(c)
      BY <1>2, <1>3, <1>4, Joined
    <2>2. Len(b) + Len(c) = Len(s) + 1
      BY <1>2, <1>3
    <2> QED
      BY <2>1, <2>2
  <1>6. \A i \in 1..k : t[i] = b[i]
    BY <1>2, <1>3, <1>4
  <1>7. \A i \in k + 1..Len(s) + 1 : t[i] = c[i - k] /\ i - k \in 1..Len(s) - k + 1
    BY <1>2, <1>3, <1>4
  <1>8. \A i \in k + 1..Len(s) + 1 : t[i] = s[i - 1]
    BY <1>2, <1>7
  <1>9. ASSUME NEW i \in 1..Len(s) + 1
        PROVE  t[i] = IF i < k THEN s[i] ELSE IF i = k THEN slot ELSE s[i - 1]
    <2>1. i \in 1..k - 1 \/ i = k \/ i \in k + 1..Len(s) + 1
      OBVIOUS
    <2>2. CASE i \in 1..k - 1
      BY <1>3, <1>6, <2>2
    <2>3. CASE i = k
      BY <1>3, <1>6, <2>3
    <2>4. CASE i \in k + 1..Len(s) + 1
      BY <1>8, <2>4
    <2> QED
      BY <2>1, <2>2, <2>3, <2>4
  <1> QED
    BY <1>5, <1>9 DEF t

LEMMA InsertedParts ==
  ASSUME NEW V, NEW s \in Seq(V), Once(s), NEW slot \in V, NEW k \in 1..Len(s) + 1,
         IsRef(slot) => \A i \in DOMAIN s : s[i] # slot
  PROVE  InsertAt(s, k, slot) \in Seq(V) /\ Rearranged(s, InsertAt(s, k, slot), slot)
  <1> DEFINE t == InsertAt(s, k, slot)
  <1>1. /\ t \in Seq(V) /\ DOMAIN t = 1..Len(s) + 1
        /\ \A i \in 1..Len(s) + 1 :
             t[i] = IF i < k THEN s[i] ELSE IF i = k THEN slot ELSE s[i - 1]
    BY InsertAtIs
  <1> HIDE DEF t
  <1>2. ASSUME NEW i \in DOMAIN t, i # k
        PROVE  \E n \in DOMAIN s : t[i] = s[n] /\ n = IF i < k THEN i ELSE i - 1
    BY <1>1, <1>2
  <1>3. t[k] = slot
    BY <1>1
  <1>4. ASSUME NEW i \in DOMAIN t, NEW j \in DOMAIN t, IsRef(t[i]), t[i] = t[j] PROVE i = j
    <2>1. CASE i = k /\ j # k
      BY <1>2, <1>3, <1>4, <2>1
    <2>2. CASE i # k /\ j = k
      BY <1>2, <1>3, <1>4, <2>2
    <2>3. CASE i # k /\ j # k
      <3>1. PICK n \in DOMAIN s : t[i] = s[n] /\ n = IF i < k THEN i ELSE i - 1
        BY <1>2, <2>3
      <3>2. PICK m \in DOMAIN s : t[j] = s[m] /\ m = IF j < k THEN j ELSE j - 1
        BY <1>2, <2>3
      <3>3. n = m
        BY <1>4, <3>1, <3>2 DEF Once
      <3> QED
        BY <1>1, <2>3, <3>1, <3>2, <3>3
    <2> QED
      BY <2>1, <2>2, <2>3
  <1> QED
    BY <1>1, <1>2, <1>3, <1>4 DEF Once, Rearranged, t

LEMMA RemoveAtIs ==
  ASSUME NEW V, NEW s \in Seq(V), NEW k \in 1..Len(s)
  PROVE  LET t == RemoveAt(s, k)
         IN  /\ t \in Seq(V) /\ DOMAIN t = 1..Len(s) - 1
             /\ \A i \in 1..Len(s) - 1 : t[i] = IF i < k THEN s[i] ELSE s[i + 1]
  <1> DEFINE t == RemoveAt(s, k)
             a == SubSeq(s, 1, k - 1)
             c == SubSeq(s, k + 1, Len(s))
  <1>1. a \in Seq(V) /\ Len(a) = k - 1 /\ \A i \in 1..k - 1 : a[i] = s[i]
    OBVIOUS
  <1>2. /\ c \in Seq(V) /\ Len(c) = Len(s) - k
        /\ \A i \in 1..Len(s) - k : c[i] = s[k + i]
    OBVIOUS
  <1>3. t = a \o c
    BY DEF RemoveAt
  <1> HIDE DEF t, a, c
  <1>4. t \in Seq(V) /\ DOMAIN t = 1..Len(s) - 1
    BY <1>1, <1>2, <1>3
  <1>5. \A i \in 1..k - 1 : t[i] = s[i]
    BY <1>1, <1>2, <1>3
  <1>6. \A i \in k..Len(s) - 1 : t[i] = c[i - (k - 1)] /\ i - (k - 1) \in 1..Len(s) - k
    BY <1>1, <1>2, <1>3
  <1>7. ASSUME NEW i \in k..Len(s) - 1 PROVE t[i] = s[i + 1]
    <2>1. t[i] = c[i - (k - 1)] /\ i - (k - 1) \in 1..Len(s) - k
      BY <1>6
    <2>2. k + (i - (k - 1)) = i + 1
      OBVIOUS
    <2> QED
      BY <1>2, <2>1, <2>2
  <1> QED
    BY <1>4, <1>5, <1>7 DEF t

LEMMA RemovedParts ==
  ASSUME NEW V, NEW s \in Seq(V), Once(s), NEW k \in 1..Len(s), NEW slot
  PROVE  RemoveAt(s, k) \in Seq(V) /\ Rearranged(s, RemoveAt(s, k), slot)
  <1> DEFINE t == RemoveAt(s, k)
  <1>1. /\ t \in Seq(V) /\ DOMAIN t = 1..Len(s) - 1
        /\ \A i \in 1..Len(s) - 1 : t[i] = IF i < k THEN s[i] ELSE s[i + 1]
    BY RemoveAtIs
  <1> HIDE DEF t
  <1>2. ASSUME NEW i \in DOMAIN t
        PROVE  \E n \in DOMAIN s : t[i] = s[n] /\ n = IF i < k THEN i ELSE i + 1
    BY <1>1
  <1>3. ASSUME NEW i \in DOMAIN t, NEW j \in DOMAIN t, IsRef(t[i]), t[i] = t[j] PROVE i = j
    <2>1. PICK n \in DOMAIN s : t[i] = s[n] /\ n = IF i < k THEN i ELSE i + 1
      BY <1>2
    <2>2. PICK m \in DOMAIN s : t[j] = s[m] /\ m = IF j < k THEN j ELSE j + 1
      BY <1>2
    <2>3. n = m
      BY <1>3, <2>1, <2>2 DEF Once
    <2> QED
      BY <1>1, <2>1, <2>2, <2>3
  <1> QED
    BY <1>1, <1>2, <1>3 DEF Once, Rearranged, t

LEMMA ReplacedParts ==
  ASSUME NEW V, NEW s \in Seq(V), Once(s), NEW slot \in V, NEW k \in 1..Len(s),
         IsRef(slot) => \A i \in DOMAIN s : s[i] # slot
  PROVE  [s EXCEPT ![k] = slot] \in Seq(V) /\ Rearranged(s, [s EXCEPT ![k] = slot], slot)
  <1> DEFINE t == [s EXCEPT ![k] = slot]
  <1>1. t \in Seq(V) /\ DOMAIN t = DOMAIN s /\ t[k] = slot
    OBVIOUS
  <1>2. \A i \in DOMAIN s : i # k => t[i] = s[i]
    OBVIOUS
  <1> HIDE DEF t
  <1> QED
    BY <1>1, <1>2 DEF Once, Rearranged, t

LEMMA AppendedParts ==
  ASSUME NEW V, NEW s \in Seq(V), Once(s), NEW slot \in V,
         IsRef(slot) => \A i \in DOMAIN s : s[i] # slot
  PROVE  Append(s, slot) \in Seq(V) /\ Rearranged(s, Append(s, slot), slot)
  <1> DEFINE t == Append(s, slot)
  <1>1. t \in Seq(V) /\ DOMAIN t = 1..Len(s) + 1 /\ t[Len(s) + 1] = slot
    OBVIOUS
  <1>2. \A i \in DOMAIN s : i \in DOMAIN t /\ t[i] = s[i]
    OBVIOUS
  <1>3. \A i \in DOMAIN t : i # Len(s) + 1 => i \in DOMAIN s
    BY <1>1
  <1> HIDE DEF t
  <1> QED
    BY <1>1, <1>2, <1>3 DEF Once, Rearranged, t

LEMMA FieldIndexIn ==
  ASSUME NEW K, NEW V, NEW fields \in Seq(FieldsOf(K, V)), NEW key
  PROVE  FieldIndex(fields, key) \in 0..Len(fields)
  <1> DEFINE I == {i \in 1..Len(fields) : fields[i].key = key}
  <1>1. I # {} => Min(I) \in I
    <2>1. I \subseteq Nat
      OBVIOUS
    <2> HIDE DEF I
    <2> QED
      BY <2>1, MinIn
  <1>2. FieldIndex(fields, key) = IF I # {} THEN Min(I) ELSE 0
    BY DEF FieldIndex, SelectInSeq
  <1>3. Len(fields) \in Nat
    OBVIOUS
  <1> QED
    BY <1>1, <1>2, <1>3

LEMMA GetFieldIn ==
  ASSUME NEW K, NEW V, NEW fields \in Seq(FieldsOf(K, V)), NEW key
  PROVE  GetField(fields, key) \in V \cup {Void}
  <1>1. \A f \in FieldsOf(K, V) : f.value \in V
    BY DEF FieldsOf
  <1>2. FieldIndex(fields, key) \in 0..Len(fields)
    BY FieldIndexIn
  <1>3. FieldIndex(fields, key) # 0 => fields[FieldIndex(fields, key)].value \in V
    BY <1>1, <1>2
  <1> QED
    BY <1>3 DEF GetField

ValuesIn(fields) == [i \in DOMAIN fields |-> fields[i].value]

LEMMA FieldSet ==
  ASSUME NEW K, NEW V, NEW fields \in Seq(FieldsOf(K, V)), NEW key \in K, NEW slot \in V
  PROVE  LET new == setField(fields, key, slot)
             i   == FieldIndex(fields, key)
         IN  /\ new \in Seq(FieldsOf(K, V)) /\ i \in 0..Len(fields)
             /\ ValuesIn(new) = IF i = 0 THEN Append(ValuesIn(fields), slot)
                                ELSE [ValuesIn(fields) EXCEPT ![i] = slot]
  <1> DEFINE new == setField(fields, key, slot)
             i   == FieldIndex(fields, key)
  <1>1. i \in 0..Len(fields)
    BY FieldIndexIn
  <1>2. /\ ValuesIn(fields) \in Seq(V) /\ Len(ValuesIn(fields)) = Len(fields)
        /\ DOMAIN ValuesIn(fields) = DOMAIN fields
    BY ValuesOf DEF ValuesIn
  <1> HIDE DEF i
  <1>3. CASE i = 0
    <2>1. new = Append(fields, Field(key, slot))
      BY <1>3 DEF setField, i
    <2>2. Field(key, slot) \in FieldsOf(K, V) /\ Field(key, slot).value = slot
      BY DEF Field, FieldsOf
    <2> HIDE DEF new
    <2>3. /\ new \in Seq(FieldsOf(K, V)) /\ DOMAIN new = 1..Len(fields) + 1
          /\ new[Len(fields) + 1] = Field(key, slot)
          /\ \A n \in 1..Len(fields) : new[n] = fields[n]
      BY <2>1, <2>2
    <2> DEFINE t == Append(ValuesIn(fields), slot)
    <2>4. /\ DOMAIN t = 1..Len(fields) + 1 /\ t[Len(fields) + 1] = slot
          /\ \A n \in 1..Len(fields) : t[n] = fields[n].value
      BY <1>2 DEF ValuesIn
    <2>5. t = [n \in 1..Len(fields) + 1 |-> t[n]]
      <3>1. t \in Seq(V)
        BY <1>2
      <3> HIDE DEF t
      <3> QED
        BY <2>4, <3>1
    <2> HIDE DEF t
    <2>6. \A n \in 1..Len(fields) + 1 : new[n].value = t[n]
      BY <2>2, <2>3, <2>4
    <2>7. ValuesIn(new) = t
      BY <2>3, <2>5, <2>6 DEF ValuesIn
    <2> QED
      BY <1>1, <1>3, <2>3, <2>7 DEF t, new, i
  <1>4. CASE i # 0
    <2>1. new = [fields EXCEPT ![i] = [fields[i] EXCEPT !.value = slot]]
      BY <1>4 DEF setField, i
    <2>2. /\ [fields[i] EXCEPT !.value = slot] \in FieldsOf(K, V)
          /\ [fields[i] EXCEPT !.value = slot].value = slot
      <3>1. \A f \in FieldsOf(K, V) : /\ [f EXCEPT !.value = slot] \in FieldsOf(K, V)
                                      /\ [f EXCEPT !.value = slot].value = slot
        BY DEF FieldsOf
      <3>2. fields[i] \in FieldsOf(K, V)
        BY <1>1, <1>4
      <3> QED
        BY <3>1, <3>2, Zenon
    <2> DEFINE f == [fields[i] EXCEPT !.value = slot]
    <2> HIDE DEF new, f
    <2>3. /\ new \in Seq(FieldsOf(K, V)) /\ DOMAIN new = DOMAIN fields /\ new[i] = f
          /\ \A n \in DOMAIN fields : n # i => new[n] = fields[n]
      BY <1>1, <1>4, <2>1, <2>2 DEF f
    <2>4. ValuesIn(new) = [ValuesIn(fields) EXCEPT ![i] = slot]
      <3>1. f.value = slot
        BY <2>2 DEF f
      <3> QED
        BY <1>2, <2>3, <3>1 DEF ValuesIn
    <2> QED
      BY <1>1, <1>4, <2>3, <2>4 DEF new, i
  <1> QED
    BY <1>3, <1>4

LEMMA FieldRemoved ==
  ASSUME NEW K, NEW V, NEW fields \in Seq(FieldsOf(K, V)), NEW key
  PROVE  LET new == removeField(fields, key)
             i   == FieldIndex(fields, key)
         IN  /\ new \in Seq(FieldsOf(K, V)) /\ i \in 0..Len(fields)
             /\ ValuesIn(new) = IF i = 0 THEN ValuesIn(fields) ELSE RemoveAt(ValuesIn(fields), i)
  <1> DEFINE new == removeField(fields, key)
             i   == FieldIndex(fields, key)
  <1>1. i \in 0..Len(fields) /\ Len(fields) \in Nat
    BY FieldIndexIn
  <1>2. /\ ValuesIn(fields) \in Seq(V) /\ Len(ValuesIn(fields)) = Len(fields)
        /\ DOMAIN ValuesIn(fields) = DOMAIN fields
    BY ValuesOf DEF ValuesIn
  <1>3. new = IF i = 0 THEN fields ELSE RemoveAt(fields, i)
    BY DEF removeField
  <1> HIDE DEF i, new
  <1>4. CASE i = 0
    BY <1>1, <1>3, <1>4 DEF i, new
  <1>5. CASE i # 0
    <2> DEFINE t == RemoveAt(ValuesIn(fields), i)
    <2>1. i \in 1..Len(fields)
      BY <1>1, <1>5
    <2>2. /\ new \in Seq(FieldsOf(K, V)) /\ DOMAIN new = 1..Len(fields) - 1
          /\ \A n \in 1..Len(fields) - 1 : new[n] = IF n < i THEN fields[n] ELSE fields[n + 1]
      BY <1>3, <1>5, <2>1, RemoveAtIs
    <2>3. /\ t \in Seq(V) /\ DOMAIN t = 1..Len(fields) - 1
          /\ \A n \in 1..Len(fields) - 1 :
               t[n] = IF n < i THEN ValuesIn(fields)[n] ELSE ValuesIn(fields)[n + 1]
      BY <1>2, <2>1, RemoveAtIs
    <2> HIDE DEF t
    <2>4. \A n \in 1..Len(fields) - 1 : n \in DOMAIN fields /\ n + 1 \in DOMAIN fields
      BY <1>1
    <2>5. \A n \in 1..Len(fields) - 1 : new[n].value = t[n]
      BY <2>2, <2>3, <2>4 DEF ValuesIn
    <2>6. t = [n \in 1..Len(fields) - 1 |-> t[n]]
      BY <2>3
    <2>7. ValuesIn(new) = t
      BY <2>2, <2>5, <2>6 DEF ValuesIn
    <2> QED
      BY <1>1, <1>5, <2>2, <2>7 DEF t, new, i
  <1> QED
    BY <1>4, <1>5

LEMMA ItemsEdited ==
  ASSUME NEW V, NEW node \in ArrayNodes(V), NEW items \in Seq(V)
  PROVE  LET new == [node EXCEPT !.items = items]
         IN  /\ new \in NodesWith(V) /\ new.schema = node.schema /\ new.entry = node.entry
             /\ new.kind = node.kind /\ Parts(new) = items
  <1>1. \A n \in ArrayNodes(V) :
          /\ [n EXCEPT !.items = items] \in ArrayNodes(V)
          /\ [n EXCEPT !.items = items].schema = n.schema
          /\ [n EXCEPT !.items = items].entry = n.entry
          /\ [n EXCEPT !.items = items].items = items
          /\ [n EXCEPT !.items = items].kind = "array" /\ n.kind = "array"
    BY DEF ArrayNodes
  <1> DEFINE new == [node EXCEPT !.items = items]
  <1>2. /\ new \in ArrayNodes(V) /\ new.schema = node.schema /\ new.entry = node.entry
        /\ new.items = items /\ new.kind = "array" /\ node.kind = "array"
    BY <1>1, Zenon
  <1> HIDE DEF new
  <1>3. Parts(new) = items /\ new \in NodesWith(V)
    BY <1>2 DEF Parts, NodesWith
  <1> QED
    BY <1>2, <1>3 DEF new

LEMMA FieldsEdited ==
  ASSUME NEW V, NEW node \in ObjectNodes(V), NEW fields \in Seq(FieldsOf(STRING, V))
  PROVE  LET new == [node EXCEPT !.fields = fields]
         IN  /\ new \in NodesWith(V) /\ new.schema = node.schema /\ new.entry = node.entry
             /\ new.kind = node.kind /\ new.fields = fields /\ Parts(new) = ValuesIn(fields)
  <1> DEFINE F == Seq(FieldsOf(STRING, V))
  <1>0. fields \in F
    OBVIOUS
  <1>1. \A n \in [kind : {"object"}, fields : F, schema : BOOLEAN, entry : Entries] :
          /\ [n EXCEPT !.fields = fields]
               \in [kind : {"object"}, fields : F, schema : BOOLEAN, entry : Entries]
          /\ [n EXCEPT !.fields = fields].schema = n.schema
          /\ [n EXCEPT !.fields = fields].entry = n.entry
          /\ [n EXCEPT !.fields = fields].fields = fields
          /\ [n EXCEPT !.fields = fields].kind = "object" /\ n.kind = "object"
    <2> HIDE DEF F
    <2> QED
      BY <1>0
  <1> DEFINE new == [node EXCEPT !.fields = fields]
  <1>2. /\ new \in ObjectNodes(V) /\ new.schema = node.schema /\ new.entry = node.entry
        /\ new.fields = fields /\ new.kind = "object" /\ node.kind = "object"
    BY <1>1, Zenon DEF ObjectNodes
  <1> HIDE DEF new
  <1>3. Parts(new) = ValuesIn(fields) /\ new \in NodesWith(V)
    BY <1>2 DEF Parts, NodesWith, ValuesIn
  <1> QED
    BY <1>2, <1>3 DEF new

-----------------------------------------------------------------------------
(* What Store puts into a heap.                                            *)

LEMMA EntriesBelow ==
  /\ NoEntry \in Entries /\ Root \in Entries
  /\ \A entry \in Entries : /\ ItemEntry(entry) \in Entries
                            /\ \A key : ChildEntry(entry, key) \in Entries
  /\ ItemEntry(NoEntry) = NoEntry /\ \A key : ChildEntry(NoEntry, key) = NoEntry
  <1>1. ASSUME NEW entry \in Entries PROVE Children(entry) \in Seq(DOMAIN Schema)
    <2>1. <<>> \in Seq(DOMAIN Schema)
      OBVIOUS
    <2>2. entry # NoEntry => Schema[entry].children \in Seq(DOMAIN Schema)
      BY SchemaAssumption DEF Entries
    <2> QED
      BY <2>1, <2>2 DEF Children
  <1>2. ASSUME NEW entry \in Entries, NEW key
        PROVE  ChildEntry(entry, key) \in Entries
    <2> DEFINE I == {i \in 1..Len(Children(entry)) : Schema[Children(entry)[i]].name = key}
               n == SelectInSeq(Children(entry), LAMBDA c : Schema[c].name = key)
    <2>1. n = IF I # {} THEN Min(I) ELSE 0
      BY DEF SelectInSeq
    <2>2. n # 0 => n \in 1..Len(Children(entry))
      <3>1. I \subseteq Nat /\ I # {} => Min(I) \in I
        BY MinIn
      <3> HIDE DEF n
      <3> QED
        BY <2>1, <3>1
    <2>3. ChildEntry(entry, key) = IF n = 0 THEN NoEntry ELSE Children(entry)[n]
      BY DEF ChildEntry
    <2> HIDE DEF n
    <2> QED
      BY <1>1, <2>2, <2>3 DEF Entries
  <1>3. \A key : ChildEntry(NoEntry, key) = NoEntry
    <2> TAKE key
    <2>1. Children(NoEntry) = <<>>
      BY DEF Children
    <2>2. {i \in 1..Len(<<>>) : Schema[(<<>>)[i]].name = key} = {}
      OBVIOUS
    <2> QED
      BY <2>1, <2>2 DEF ChildEntry, SelectInSeq
  <1> QED
    BY <1>2, <1>3, SchemaAssumption DEF Entries, ItemEntry

LEMMA DepthIs ==
  ASSUME NEW tree \in Trees
  PROVE  Depth(tree) \in Nat /\ tree \in Nested[Depth(tree)]
  <1>1. MaxDepth \in 0..MaxDepth
    BY DepthAssumption
  <1>2. \E depth \in 0..MaxDepth : tree \in Nested[depth]
    BY <1>1 DEF Trees
  <1> QED
    BY <1>2, DepthAssumption DEF Depth

LEMMA FiniteImage ==
  ASSUME NEW f, IsFiniteSet(DOMAIN f), f = [x \in DOMAIN f |-> f[x]]
  PROVE  IsFiniteSet({f[x] : x \in DOMAIN f})
  <1>1. f \in Surjection(DOMAIN f, {f[x] : x \in DOMAIN f})
    BY DEF Surjection
  <1> QED
    BY <1>1, FS_Surjection

LEMMA Paths ==
  ASSUME NEW path \in Seq(Nat), NEW i \in Nat
  PROVE  /\ Append(path, i) \in Seq(Nat) /\ Len(Append(path, i)) = Len(path) + 1
         /\ Front(Append(path, i)) = path /\ Last(Append(path, i)) = i
         /\ Append(path, i) # <<>>
  BY DEF Front, Last

LEMMA OnePath ==
  ASSUME NEW p \in Seq(Nat), NEW q \in Seq(Nat), NEW i \in Nat, NEW j \in Nat,
         Append(p, i) = Append(q, j)
  PROVE  p = q /\ i = j
  <1>1. Front(Append(p, i)) = p /\ Last(Append(p, i)) = i
    BY Paths
  <1>2. Front(Append(q, j)) = q /\ Last(Append(q, j)) = j
    BY Paths
  <1> QED
    BY <1>1, <1>2

LEMMA PartsNest ==
  ASSUME NEW n \in Nat, NEW tree \in Nested[n], IsContainer(tree)
  PROVE  /\ n # 0 /\ IsFiniteSet(ContainersIn(tree)) /\ ContainersIn(tree) \subseteq Nat
         /\ \A i \in DOMAIN Parts(tree) : Parts(tree)[i] \in Nested[n - 1]
         /\ \A i \in ContainersIn(tree) :
              i \in DOMAIN Parts(tree) /\ IsContainer(Parts(tree)[i])
  <1>1. n # 0 /\ Parts(tree) \in Seq(Nested[n - 1])
    BY TreeShape
  <1> DEFINE parts == Parts(tree)
  <1>2. Len(parts) \in Nat /\ DOMAIN parts = 1..Len(parts)
    BY <1>1
  <1>3. IsFiniteSet(1..Len(parts))
    BY <1>2, FS_Interval
  <1>4. ContainersIn(tree) \in SUBSET (1..Len(parts))
    BY <1>2 DEF ContainersIn
  <1>5. IsFiniteSet(ContainersIn(tree))
    BY <1>3, <1>4, FS_Subset
  <1> QED
    BY <1>1, <1>2, <1>4, <1>5 DEF ContainersIn

-----------------------------------------------------------------------------
(* What Layout lays out of a tree up to a depth.                           *)

Grown(above, depth) ==
  LET ends == {path \in DOMAIN above : Len(path) = depth}
      new  == UNION {{Append(path, i) : i \in ContainersIn(above[path].tree)} : path \in ends}
  IN  [path \in DOMAIN above \cup new |->
         IF path \in DOMAIN above THEN above[path] ELSE PartAt(above[Front(path)], Last(path))]

TreePlaces  == [tree : UNION {Nested[n] : n \in Nat}, entry : Entries]
Layouts == UNION {[paths -> TreePlaces] : paths \in SUBSET Seq(Nat)}

\* A place `levels` below the top of the tree, whose entry is `entry`.
PlaceOK(place, entry, levels) ==
  /\ place.tree \in Nested[levels] /\ IsContainer(place.tree)
  /\ entry = NoEntry => place.entry = NoEntry

\* The path leads to a part of another container laid out.
Under(layout, path) ==
  \E p \in DOMAIN layout : \E i \in ContainersIn(layout[p].tree) : path = Append(p, i)

LaidOut(layout, tree, entry, d, depth) ==
  /\ IsFiniteSet(DOMAIN layout)
  /\ <<>> \in DOMAIN layout /\ layout[<<>>] = [tree |-> tree, entry |-> entry]
  /\ \A path \in DOMAIN layout :
       /\ path \in Seq(Nat) /\ Len(path) <= depth /\ Len(path) <= d
       /\ PlaceOK(layout[path], entry, d - Len(path))
       /\ Len(path) < depth =>
            \A i \in ContainersIn(layout[path].tree) :
              /\ Append(path, i) \in DOMAIN layout
              /\ layout[Append(path, i)] = PartAt(layout[path], i)
       /\ path = <<>> \/ Under(layout, path)

LEMMA PartPlace ==
  ASSUME NEW place \in TreePlaces, NEW entry \in Entries, NEW n \in Nat, PlaceOK(place, entry, n),
         NEW i \in ContainersIn(place.tree)
  PROVE  n # 0 /\ PartAt(place, i) \in TreePlaces /\ PlaceOK(PartAt(place, i), entry, n - 1)
  <1>1. /\ n # 0 /\ n - 1 \in Nat /\ Parts(place.tree)[i] \in Nested[n - 1]
        /\ IsContainer(Parts(place.tree)[i])
    BY PartsNest DEF PlaceOK
  <1>2. /\ PartEntry(place.tree, i, place.entry) \in Entries
        /\ place.entry = NoEntry => PartEntry(place.tree, i, place.entry) = NoEntry
    <2>1. place.entry \in Entries
      BY DEF TreePlaces
    <2> QED
      BY <2>1, EntriesBelow DEF PartEntry
  <1>3. /\ PartAt(place, i).tree = Parts(place.tree)[i]
        /\ PartAt(place, i).entry = PartEntry(place.tree, i, place.entry)
        /\ PartAt(place, i) = [tree |-> PartAt(place, i).tree, entry |-> PartAt(place, i).entry]
    BY DEF PartAt
  <1>4. PartAt(place, i) \in TreePlaces
    BY <1>1, <1>2, <1>3 DEF TreePlaces
  <1> QED
    BY <1>1, <1>2, <1>3, <1>4 DEF PlaceOK

LEMMA LayoutGrows ==
  ASSUME NEW tree, NEW entry \in Entries, NEW d \in Nat, NEW n \in Nat,
         NEW above \in Layouts, LaidOut(above, tree, entry, d, n)
  PROVE  Grown(above, n) \in Layouts /\ LaidOut(Grown(above, n), tree, entry, d, n + 1)
  <1> DEFINE ends == {path \in DOMAIN above : Len(path) = n}
             Below(path) == {Append(path, i) : i \in ContainersIn(above[path].tree)}
             new  == UNION {Below(path) : path \in ends}
             L    == Grown(above, n)
  <1>1. /\ \A path \in DOMAIN above : above[path] \in TreePlaces
        /\ DOMAIN above \subseteq Seq(Nat) /\ IsFiniteSet(DOMAIN above)
    BY DEF Layouts, LaidOut
  <1>2. L = [path \in DOMAIN above \cup new |->
               IF path \in DOMAIN above THEN above[path]
               ELSE PartAt(above[Front(path)], Last(path))]
    BY Zenon DEF Grown
  <1>3. ASSUME NEW path \in ends
        PROVE  /\ path \in Seq(Nat) /\ Len(path) = n /\ n <= d /\ PlaceOK(above[path], entry, d - n)
               /\ IsFiniteSet(Below(path)) /\ ContainersIn(above[path].tree) \subseteq Nat
    <2>1. path \in Seq(Nat) /\ Len(path) = n /\ n <= d /\ PlaceOK(above[path], entry, d - n)
      <3>1. path \in DOMAIN above /\ Len(path) = n
        OBVIOUS
      <3> QED
        BY <3>1 DEF LaidOut
    <2> DEFINE I == ContainersIn(above[path].tree)
               f == [i \in I |-> Append(path, i)]
    <2>2. IsFiniteSet(I) /\ I \subseteq Nat
      <3>1. d - n \in Nat
        BY <2>1
      <3>2. above[path].tree \in Nested[d - n] /\ IsContainer(above[path].tree)
        BY <2>1 DEF PlaceOK
      <3> HIDE DEF ends
      <3> QED
        BY <3>1, <3>2, PartsNest
    <2>3. IsFiniteSet({f[i] : i \in DOMAIN f})
      <3>1. DOMAIN f = I /\ f = [i \in DOMAIN f |-> f[i]]
        OBVIOUS
      <3> HIDE DEF f
      <3> QED
        BY <2>2, <3>1, FiniteImage
    <2>4. {f[i] : i \in DOMAIN f} = Below(path)
      OBVIOUS
    <2> QED
      BY <2>1, <2>2, <2>3, <2>4
  <1>4. ASSUME NEW path \in ends, NEW i \in ContainersIn(above[path].tree)
        PROVE  /\ Append(path, i) \in Seq(Nat) /\ Len(Append(path, i)) = n + 1 /\ n < d
               /\ Append(path, i) \in DOMAIN L \ DOMAIN above
               /\ L[Append(path, i)] = PartAt(above[path], i)
               /\ L[Append(path, i)] \in TreePlaces
               /\ PlaceOK(L[Append(path, i)], entry, d - (n + 1))
    <2>1. i \in Nat /\ path \in Seq(Nat) /\ Len(path) = n /\ n <= d
      BY <1>3
    <2>2. /\ Append(path, i) \in Seq(Nat) /\ Len(Append(path, i)) = n + 1
          /\ Front(Append(path, i)) = path /\ Last(Append(path, i)) = i
      BY <2>1, Paths
    <2>3. Append(path, i) \notin DOMAIN above
      <3> SUFFICES ASSUME Append(path, i) \in DOMAIN above PROVE FALSE
        OBVIOUS
      <3>1. Len(Append(path, i)) <= n
        BY DEF LaidOut
      <3> QED
        BY <2>2, <3>1
    <2>4. Append(path, i) \in new
      OBVIOUS
    <2>5. L[Append(path, i)] = PartAt(above[path], i) /\ Append(path, i) \in DOMAIN L
      <3> HIDE DEF L, new
      <3> QED
        BY <1>2, <2>2, <2>3, <2>4
    <2>6. /\ d - n \in Nat /\ d - n # 0 /\ PartAt(above[path], i) \in TreePlaces
          /\ PlaceOK(PartAt(above[path], i), entry, (d - n) - 1)
      <3>1. d - n \in Nat
        BY <2>1
      <3>2. path \in DOMAIN above
        OBVIOUS
      <3>3. above[path] \in TreePlaces /\ PlaceOK(above[path], entry, d - n)
        BY <1>1, <1>3, <3>2
      <3> QED
        BY <3>1, <3>3, PartPlace
    <2>7. n < d /\ (d - n) - 1 = d - (n + 1)
      BY <2>1, <2>6
    <2> HIDE DEF L
    <2> QED
      BY <2>2, <2>3, <2>5, <2>6, <2>7
  <1>5. ASSUME NEW path \in new
        PROVE  \E p \in ends : \E i \in ContainersIn(above[p].tree) : path = Append(p, i)
    OBVIOUS
  <1>6. DOMAIN L = DOMAIN above \cup new /\ \A path \in DOMAIN above : L[path] = above[path]
    <2> HIDE DEF L, new
    <2> QED
      BY <1>2
  <1>7. IsFiniteSet(DOMAIN L)
    <2> DEFINE f == [path \in ends |-> Below(path)]
    <2>1. IsFiniteSet(ends)
      <3>1. ends \in SUBSET DOMAIN above
        OBVIOUS
      <3> HIDE DEF ends
      <3> QED
        BY <1>1, <3>1, FS_Subset
    <2>2. IsFiniteSet({f[path] : path \in DOMAIN f})
      <3>1. DOMAIN f = ends /\ f = [path \in DOMAIN f |-> f[path]]
        OBVIOUS
      <3> HIDE DEF f, ends
      <3> QED
        BY <2>1, <3>1, FiniteImage
    <2>3. \A s \in {f[path] : path \in DOMAIN f} : IsFiniteSet(s)
      BY <1>3
    <2>4. new = UNION {f[path] : path \in DOMAIN f}
      OBVIOUS
    <2>5. IsFiniteSet(new)
      <3> HIDE DEF f, new, Below, ends
      <3> QED
        BY <2>2, <2>3, <2>4, FS_UNION
    <2> HIDE DEF new, L, f
    <2> QED
      BY <1>1, <1>6, <2>5, FS_Union
  <1> HIDE DEF L, new
  <1>8. L \in Layouts
    <2>1. \A path \in DOMAIN L : L[path] \in TreePlaces /\ path \in Seq(Nat)
      <3> TAKE path \in DOMAIN L
      <3>1. CASE path \in DOMAIN above
        BY <1>1, <1>6, <3>1
      <3>2. CASE path \notin DOMAIN above
        <4>1. PICK p \in ends : \E i \in ContainersIn(above[p].tree) : path = Append(p, i)
          BY <1>5, <1>6, <3>2
        <4> QED
          BY <1>4, <4>1
      <3> QED
        BY <3>1, <3>2
    <2>2. L \in [DOMAIN L -> TreePlaces] /\ DOMAIN L \in SUBSET Seq(Nat)
      BY <1>2, <1>6, <2>1
    <2> QED
      BY <2>2 DEF Layouts
  <1>9. ASSUME NEW path \in DOMAIN L
        PROVE  /\ path \in Seq(Nat) /\ Len(path) <= n + 1 /\ Len(path) <= d
               /\ PlaceOK(L[path], entry, d - Len(path))
               /\ Len(path) < n + 1 =>
                    \A i \in ContainersIn(L[path].tree) :
                      /\ Append(path, i) \in DOMAIN L
                      /\ L[Append(path, i)] = PartAt(L[path], i)
    <2>1. CASE path \in DOMAIN above
      <3>1. /\ path \in Seq(Nat) /\ Len(path) <= n /\ Len(path) <= d
            /\ PlaceOK(above[path], entry, d - Len(path))
            /\ Len(path) < n =>
                 \A i \in ContainersIn(above[path].tree) :
                   /\ Append(path, i) \in DOMAIN above
                   /\ above[Append(path, i)] = PartAt(above[path], i)
        BY <2>1 DEF LaidOut
      <3>2. L[path] = above[path] /\ Len(path) \in Nat
        BY <1>6, <2>1, <3>1
      <3>3. CASE Len(path) < n
        BY <1>6, <3>1, <3>2, <3>3
      <3>4. CASE Len(path) = n
        <4>1. path \in ends
          BY <2>1, <3>4
        <4> QED
          BY <1>4, <3>1, <3>2, <3>4, <4>1
      <3> QED
        BY <3>1, <3>2, <3>3, <3>4
    <2>2. CASE path \notin DOMAIN above
      <3>1. PICK p \in ends : \E i \in ContainersIn(above[p].tree) : path = Append(p, i)
        BY <1>5, <1>6, <2>2
      <3>2. PICK i \in ContainersIn(above[p].tree) : path = Append(p, i)
        BY <3>1
      <3>3. /\ path \in Seq(Nat) /\ Len(path) = n + 1 /\ n < d
            /\ PlaceOK(L[path], entry, d - (n + 1))
        BY <1>4, <3>2
      <3> QED
        BY <3>3
    <2> QED
      BY <2>1, <2>2
  <1>10. <<>> \in DOMAIN L /\ L[<<>>] = [tree |-> tree, entry |-> entry]
    <2>1. <<>> \in DOMAIN above /\ above[<<>>] = [tree |-> tree, entry |-> entry]
      BY DEF LaidOut
    <2> QED
      BY <1>6, <2>1
  <1>11. ASSUME NEW path \in DOMAIN L, path # <<>> PROVE Under(L, path)
    <2>1. CASE path \in DOMAIN above
      <3>1. Under(above, path)
        BY <1>11, <2>1 DEF LaidOut
      <3> QED
        BY <1>6, <3>1 DEF Under
    <2>2. CASE path \notin DOMAIN above
      <3>1. PICK p \in ends : \E i \in ContainersIn(above[p].tree) : path = Append(p, i)
        BY <1>5, <1>6, <2>2
      <3>2. p \in DOMAIN L /\ L[p] = above[p]
        BY <1>6
      <3> QED
        BY <3>1, <3>2 DEF Under
    <2> QED
      BY <2>1, <2>2
  <1>12. LaidOut(L, tree, entry, d, n + 1)
    BY <1>7, <1>9, <1>10, <1>11 DEF LaidOut
  <1> QED
    BY <1>8, <1>12 DEF L

LEMMA LayoutIs ==
  ASSUME NEW tree \in Trees, IsContainer(tree), NEW entry \in Entries
  PROVE  /\ Layout(tree, entry) \in Layouts
         /\ LaidOut(Layout(tree, entry), tree, entry, Depth(tree), Depth(tree))
  <1> DEFINE d == Depth(tree)
             S == [n \in Nat |-> {layout \in Layouts : LaidOut(layout, tree, entry, d, n)}]
             a == [path \in {<<>>} |-> [tree |-> tree, entry |-> entry]]
             F == [n \in Nat |-> [above \in S[n] |-> Grown(above, n)]]
             Is(f) == f = [n \in Nat |-> IF n = 0 THEN a ELSE Grown(f[n - 1], n - 1)]
  <1>1. d \in Nat /\ tree \in Nested[d]
    BY DepthIs
  <1>2. a \in S[0]
    <2>1. a[<<>>] = [tree |-> tree, entry |-> entry] /\ DOMAIN a = {<<>>}
      OBVIOUS
    <2>2. <<>> \in Seq(Nat) /\ Len(<<>>) = 0 /\ d - 0 = d
      BY <1>1
    <2>3. PlaceOK(a[<<>>], entry, d - 0)
      BY <1>1, <2>1, <2>2 DEF PlaceOK
    <2>4. a[<<>>] \in TreePlaces
      BY <1>1, <2>1 DEF TreePlaces
    <2>5. a \in Layouts
      <3>1. a \in [{<<>>} -> TreePlaces] /\ {<<>>} \in SUBSET Seq(Nat)
        BY <2>2, <2>4
      <3> HIDE DEF a
      <3> QED
        BY <3>1 DEF Layouts
    <2>6. IsFiniteSet(DOMAIN a)
      BY <2>1, FS_Singleton
    <2>7. LaidOut(a, tree, entry, d, 0)
      <3> HIDE DEF a
      <3> QED
        BY <1>1, <2>1, <2>2, <2>3, <2>6 DEF LaidOut
    <2> QED
      BY <2>5, <2>7
  <1>3. ASSUME NEW n \in Nat, NEW x \in S[n]
        PROVE  F[n][x] \in S[n + 1] /\ F[n][x] = Grown(x, n)
    <2>1. x \in Layouts /\ LaidOut(x, tree, entry, d, n) /\ n + 1 \in Nat
      OBVIOUS
    <2>2. Grown(x, n) \in Layouts /\ LaidOut(Grown(x, n), tree, entry, d, n + 1)
      BY <1>1, <2>1, LayoutGrows
    <2> QED
      BY <2>1, <2>2
  <1> HIDE DEF F, a, S
  <1>4. \A n \in Nat : \A x \in S[n] : F[n][x] \in S[n + 1]
    BY <1>3
  <1>5. PICK f : /\ f = [n \in Nat |-> IF n = 0 THEN a ELSE F[n - 1][f[n - 1]]]
                 /\ \A n \in Nat : f[n] \in S[n]
    BY <1>2, <1>4, Iteration
  <1>6. ASSUME NEW n \in Nat
        PROVE  f[n] = IF n = 0 THEN a ELSE Grown(f[n - 1], n - 1)
    <2>1. CASE n = 0
      BY <1>5, <2>1
    <2>2. CASE n # 0
      <3>1. n - 1 \in Nat
        BY <2>2
      <3>2. f[n] = F[n - 1][f[n - 1]] /\ f[n - 1] \in S[n - 1]
        BY <1>5, <2>2, <3>1
      <3> QED
        BY <1>3, <2>2, <3>1, <3>2
    <2> QED
      BY <2>1, <2>2
  <1>7. Is(f)
    BY <1>5, <1>6
  <1> DEFINE layout == CHOOSE g : Is(g)
  <1>8. Is(layout)
    BY <1>7
  <1>9. Layout(tree, entry) = layout[d]
    BY Zenon DEF Layout, a, Grown
  <1> HIDE DEF layout
  <1>10. \A n \in Nat : layout[n] \in S[n]
    <2> DEFINE T == {n \in Nat : layout[n] \in S[n]}
    <2>1. 0 \in T
      BY <1>2, <1>8
    <2>2. ASSUME NEW n \in Nat, n \in T PROVE n + 1 \in T
      <3>1. n + 1 \in Nat /\ n + 1 # 0 /\ n + 1 - 1 = n
        OBVIOUS
      <3>2. layout[n + 1] = Grown(layout[n], n)
        BY <1>8, <3>1
      <3> QED
        BY <1>3, <2>2, <3>2
    <2> HIDE DEF T
    <2>3. \A n \in Nat : n \in T
      BY <2>1, <2>2, Induction
    <2> QED
      BY <2>3 DEF T
  <1> HIDE DEF d
  <1>11. layout[d] \in S[d]
    BY <1>1, <1>10
  <1>12. layout[d] \in Layouts /\ LaidOut(layout[d], tree, entry, d, d)
    BY <1>1, <1>11 DEF S
  <1> QED
    BY <1>9, <1>12 DEF d

\* The layout holds, with a container, every container in it.
LEMMA LayoutComplete ==
  ASSUME NEW tree \in Trees, IsContainer(tree), NEW entry \in Entries
  PROVE  LET layout == Layout(tree, entry)
         IN  /\ IsFiniteSet(DOMAIN layout) /\ <<>> \in DOMAIN layout
             /\ layout[<<>>] = [tree |-> tree, entry |-> entry]
             /\ \A path \in DOMAIN layout :
                  /\ path \in Seq(Nat) /\ layout[path] \in TreePlaces
                  /\ \E n \in Nat : PlaceOK(layout[path], entry, n)
                  /\ \A i \in ContainersIn(layout[path].tree) :
                       /\ Append(path, i) \in DOMAIN layout
                       /\ layout[Append(path, i)] = PartAt(layout[path], i)
                  /\ path = <<>> \/ Under(layout, path)
  <1> DEFINE layout == Layout(tree, entry)
             d == Depth(tree)
  <1>1. layout \in Layouts /\ LaidOut(layout, tree, entry, d, d) /\ d \in Nat
    BY LayoutIs, DepthIs
  <1> HIDE DEF layout, d
  <1>2. ASSUME NEW path \in DOMAIN layout
        PROVE  /\ path \in Seq(Nat) /\ layout[path] \in TreePlaces
               /\ d - Len(path) \in Nat /\ PlaceOK(layout[path], entry, d - Len(path))
               /\ Len(path) < d
    <2>1. /\ path \in Seq(Nat) /\ layout[path] \in TreePlaces /\ Len(path) <= d
          /\ PlaceOK(layout[path], entry, d - Len(path))
      BY <1>1 DEF LaidOut, Layouts
    <2>2. d - Len(path) \in Nat
      BY <1>1, <2>1
    <2>3. d - Len(path) # 0
      BY <2>1, <2>2, PartsNest DEF PlaceOK
    <2> QED
      BY <1>1, <2>1, <2>2, <2>3
  <1>3. ASSUME NEW path \in DOMAIN layout, NEW i \in ContainersIn(layout[path].tree)
        PROVE  Append(path, i) \in DOMAIN layout /\ layout[Append(path, i)] = PartAt(layout[path], i)
    BY <1>1, <1>2 DEF LaidOut
  <1>4. /\ IsFiniteSet(DOMAIN layout) /\ <<>> \in DOMAIN layout
        /\ layout[<<>>] = [tree |-> tree, entry |-> entry]
        /\ \A path \in DOMAIN layout : path = <<>> \/ Under(layout, path)
    BY <1>1 DEF LaidOut
  <1> QED
    BY <1>2, <1>3, <1>4 DEF layout

LEMMA FreshCellIs ==
  ASSUME NEW heap, IsFiniteSet(DOMAIN heap)
  PROVE  \A r \in DOMAIN heap : r.cell # FreshCell(heap)
  <1> DEFINE n == Cardinality(DOMAIN heap)
             cells == 1..n + 1
             Used(c) == \E r \in DOMAIN heap : r.cell = c
  <1>1. n \in Nat
    BY FS_CardinalityType
  <1>2. \E c \in cells : ~Used(c)
    <2> SUFFICES ASSUME \A c \in cells : Used(c) PROVE FALSE
      OBVIOUS
    <2> DEFINE f == [c \in cells |-> CHOOSE r \in DOMAIN heap : r.cell = c]
    <2>1. \A c \in cells : f[c] \in DOMAIN heap /\ f[c].cell = c
      OBVIOUS
    <2>2. f \in [cells -> DOMAIN heap]
      BY <2>1
    <2>3. IsFiniteSet(cells) /\ Cardinality(cells) = n + 1
      <3>1. n + 1 \in Int /\ 1 \in Int /\ ~(1 > n + 1) /\ (n + 1) - 1 + 1 = n + 1
        BY <1>1
      <3> HIDE DEF n
      <3> QED
        BY <3>1, FS_Interval
    <2>4. Cardinality(DOMAIN heap) < Cardinality(cells)
      BY <1>1, <2>3
    <2> HIDE DEF f, cells
    <2>5. \E x, y \in cells : x # y /\ f[x] = f[y]
      BY <2>2, <2>3, <2>4, FS_PigeonHole
    <2> QED
      BY <2>1, <2>5
  <1>3. FreshCell(heap) = CHOOSE c \in cells : ~Used(c)
    BY DEF FreshCell
  <1> QED
    BY <1>2, <1>3

\* No node stands in two places of the others, nor does what a slot refers to
\* stand in one.
OnePlace(heap, nodes) ==
  \A p, q \in nodes :
    \A i \in DOMAIN Parts(heap[p]), j \in DOMAIN Parts(heap[q]) :
      IsRef(Parts(heap[p])[i]) /\ Parts(heap[p])[i] = Parts(heap[q])[j] => p = q /\ i = j

Unplaced(heap, nodes, slot) == IsRef(slot) => \A p \in nodes : slot \notin Slots(heap[p])

LEMMA RefIs ==
  /\ \A r : IsRef(Ref(r)) /\ Ref(r).ref = r
  /\ \A r, q : Ref(r) = Ref(q) => r = q
  /\ \A c, p, d, q : Address(c, p) = Address(d, q) => c = d /\ p = q
  /\ \A c, p : Address(c, p).cell = c /\ Address(c, p).path = p
  BY DEF Ref, IsRef, Address

SlotAt(place, cell, path, i) ==
  LET part == Parts(place.tree)[i]
  IN  IF IsContainer(part) THEN Ref(Address(cell, Append(path, i))) ELSE part

LEMMA NodeAtPlaceIs ==
  ASSUME NEW place \in TreePlaces, NEW entry, NEW n \in Nat, PlaceOK(place, entry, n),
         NEW attached \in BOOLEAN, NEW cell, NEW path, NEW nodes,
         \A i \in ContainersIn(place.tree) : Address(cell, Append(path, i)) \in nodes
  PROVE  LET node == NodeAtPlace(place, attached, cell, path)
         IN  /\ node \in NodesWith(Links(nodes))
             /\ node.schema = attached /\ node.entry = place.entry
             /\ DOMAIN Parts(node) = DOMAIN Parts(place.tree)
             /\ \A i \in DOMAIN Parts(node) : Parts(node)[i] = SlotAt(place, cell, path, i)
             /\ node.kind = place.tree.kind
             /\ node.kind = "object" =>
                  \A i \in DOMAIN Parts(node) : node.fields[i].key = place.tree.fields[i].key
  <1> DEFINE tree == place.tree
             parts == Parts(tree)
             slots == [i \in DOMAIN parts |-> SlotAt(place, cell, path, i)]
             V == Links(nodes)
             node == NodeAtPlace(place, attached, cell, path)
  <1>1. /\ n # 0 /\ n - 1 \in Nat /\ tree \in Nested[n] /\ IsContainer(tree)
        /\ parts \in Seq(Nested[n - 1]) /\ place.entry \in Entries
    BY TreeShape DEF PlaceOK, TreePlaces
  <1>2. Len(parts) \in Nat /\ DOMAIN parts = 1..Len(parts) /\ \A i \in 1..Len(parts) : parts[i] \in Nested[n - 1]
    BY <1>1
  <1>3. ASSUME NEW i \in DOMAIN parts PROVE SlotAt(place, cell, path, i) \in V
    <2>1. CASE IsContainer(parts[i])
      BY <2>1 DEF SlotAt, ContainersIn, Links
    <2>2. CASE ~IsContainer(parts[i])
      BY <1>1, <1>2, <2>2, TreeShape DEF SlotAt, Links
    <2> QED
      BY <2>1, <2>2
  <1>4. slots \in [1..Len(parts) -> V]
    BY <1>2, <1>3
  <1>5. slots \in Seq(V) /\ DOMAIN slots = DOMAIN parts
    <2> HIDE DEF slots, parts, V
    <2> QED
      BY <1>2, <1>4, SequenceOf
  <1>6. node = NodeOf(tree, slots, attached, place.entry)
    BY Zenon DEF NodeAtPlace, SlotAt
  <1>7. /\ NodeOf(tree, slots, attached, place.entry) \in NodesWith(V)
        /\ NodeOf(tree, slots, attached, place.entry).schema = attached
        /\ NodeOf(tree, slots, attached, place.entry).entry = place.entry
        /\ Parts(NodeOf(tree, slots, attached, place.entry)) = slots
        /\ NodeOf(tree, slots, attached, place.entry).kind = tree.kind
        /\ tree.kind = "object" =>
             \A i \in DOMAIN slots :
               NodeOf(tree, slots, attached, place.entry).fields[i].key = tree.fields[i].key
    <2>1. CASE tree.kind = "array"
      <3> HIDE DEF slots, V, tree
      <3>1. NodeOf(tree, slots, attached, place.entry) = ArrayNode(slots, attached, place.entry)
        BY <2>1 DEF NodeOf
      <3>2. ArrayNode(slots, attached, place.entry) \in ArrayNodes(V)
        BY <1>1, <1>5 DEF ArrayNode, ArrayNodes
      <3> QED
        BY <2>1, <3>1, <3>2 DEF ArrayNode, NodesWith, Parts
    <2>2. CASE tree.kind = "object"
      <3> DEFINE fields == [i \in DOMAIN slots |-> Field(tree.fields[i].key, slots[i])]
      <3>1. tree.fields \in Seq(FieldsOf(STRING, Nested[n - 1])) /\ DOMAIN tree.fields = DOMAIN parts
        BY <1>1, <2>2, TreeShape
      <3>2. \A i \in DOMAIN parts : tree.fields[i].key \in STRING
        <4>1. \A f \in FieldsOf(STRING, Nested[n - 1]) : f.key \in STRING
          BY DEF FieldsOf
        <4> HIDE DEF tree, parts
        <4> QED
          BY <3>1, <4>1
      <3>3. fields \in [1..Len(parts) -> FieldsOf(STRING, V)]
        <4>1. \A k \in STRING, v \in V : Field(k, v) \in FieldsOf(STRING, V)
          BY DEF Field, FieldsOf
        <4> HIDE DEF tree, parts, slots, V
        <4> QED
          BY <1>2, <1>4, <1>5, <3>2, <4>1
      <3>4. fields \in Seq(FieldsOf(STRING, V)) /\ DOMAIN fields = DOMAIN parts
        <4> HIDE DEF fields, parts
        <4> QED
          BY <1>2, <3>3, SequenceOf
      <3>5. \A i \in DOMAIN parts : fields[i].value = slots[i]
        <4> HIDE DEF slots, parts
        <4> QED
          BY <1>5 DEF Field
      <3>9. \A i \in DOMAIN slots : fields[i].key = tree.fields[i].key
        <4> HIDE DEF slots, parts
        <4> QED
          BY DEF Field
      <3>6. slots = [i \in DOMAIN fields |-> fields[i].value]
        <4> HIDE DEF fields, parts
        <4> QED
          BY <3>4, <3>5
      <3>7. NodeOf(tree, slots, attached, place.entry) = ObjectNode(fields, attached, place.entry)
        BY <2>2 DEF NodeOf
      <3> HIDE DEF fields, slots, V, tree
      <3>8. ObjectNode(fields, attached, place.entry) \in ObjectNodes(V)
        BY <1>1, <3>4 DEF ObjectNode, ObjectNodes
      <3> QED
        BY <2>2, <3>6, <3>7, <3>8, <3>9 DEF ObjectNode, NodesWith, Parts
    <2> QED
      BY <1>1, <2>1, <2>2, TreeShape
  <1> QED
    BY <1>5, <1>6, <1>7

LEMMA NodesWithin ==
  ASSUME NEW V, NEW W, V \subseteq W PROVE NodesWith(V) \subseteq NodesWith(W)
  <1>1. FieldsOf(STRING, V) \subseteq FieldsOf(STRING, W)
    BY DEF FieldsOf
  <1>2. Seq(FieldsOf(STRING, V)) \subseteq Seq(FieldsOf(STRING, W)) /\ Seq(V) \subseteq Seq(W)
    BY <1>1
  <1>3. ObjectNodes(V) \subseteq ObjectNodes(W)
    BY <1>2 DEF ObjectNodes
  <1>4. ArrayNodes(V) \subseteq ArrayNodes(W)
    BY <1>2 DEF ArrayNodes
  <1> QED
    BY <1>3, <1>4 DEF NodesWith

LEMMA LinksWithin ==
  ASSUME NEW D, NEW E, D \subseteq E PROVE Links(D) \subseteq Links(E)
  BY DEF Links

\* What Store adds at `slot`: a tree of nodes of its own.  Nothing that was
\* there changes.
Added(heap, new, slot) ==
  LET nodes == DOMAIN new \ DOMAIN heap
  IN  /\ HeapOK(new) /\ DOMAIN heap \subseteq DOMAIN new
      /\ \A r \in DOMAIN heap : new[r] = heap[r]
      /\ Closed(new, nodes) /\ OnePlace(new, nodes) /\ nodes \subseteq Reach(new, {slot})
      /\ slot \in Links(nodes) /\ Unplaced(new, nodes, slot)

\* It is governed as the entry asks.
StoredIn(heap, new, slot, tree, attached, entry) ==
  /\ Added(heap, new, slot)
  /\ IsRef(slot) <=> IsContainer(tree)
  /\ ~IsContainer(tree) => slot = tree /\ new = heap
  /\ IsContainer(tree) => new[slot.ref].entry = entry
  /\ \A r \in DOMAIN new \ DOMAIN heap :
       new[r].schema = attached /\ (entry = NoEntry => new[r].entry = NoEntry)

LEMMA ContainerStored ==
  ASSUME NEW heap, HeapOK(heap), NEW tree \in Trees, IsContainer(tree),
         NEW attached \in BOOLEAN, NEW entry \in Entries
  PROVE  LET store == StoreContainer(heap, tree, attached, entry)
         IN  StoredIn(heap, store.heap, store.slot, tree, attached, entry)
  <1> DEFINE cell   == FreshCell(heap)
             layout == Layout(tree, entry)
             new    == {Address(cell, path) : path \in DOMAIN layout}
             Node(r) == NodeAtPlace(layout[r.path], attached, cell, r.path)
             h == [r \in DOMAIN heap \cup new |-> IF r \in DOMAIN heap THEN heap[r] ELSE Node(r)]
             slot == Ref(Address(cell, <<>>))
             store == StoreContainer(heap, tree, attached, entry)
  <1>1. store.heap = h /\ store.slot = slot
    BY DEF StoreContainer
  <1>2. /\ IsFiniteSet(DOMAIN layout) /\ <<>> \in DOMAIN layout
        /\ layout[<<>>] = [tree |-> tree, entry |-> entry]
        /\ \A path \in DOMAIN layout :
             /\ path \in Seq(Nat) /\ layout[path] \in TreePlaces
             /\ \E n \in Nat : PlaceOK(layout[path], entry, n)
             /\ \A i \in ContainersIn(layout[path].tree) : Append(path, i) \in DOMAIN layout
             /\ path = <<>> \/ Under(layout, path)
    BY LayoutComplete
  <1>3. \A r \in DOMAIN heap : r.cell # cell
    BY FreshCellIs DEF HeapOK
  <1> HIDE DEF cell, layout
  <1>4. new \cap DOMAIN heap = {} /\ DOMAIN h \ DOMAIN heap = new /\ DOMAIN h = DOMAIN heap \cup new
    BY <1>3, RefIs
  <1>5. ASSUME NEW path \in DOMAIN layout
        PROVE  LET r == Address(cell, path)
               IN  /\ r \in new /\ r \in DOMAIN h
                   /\ h[r] = NodeAtPlace(layout[path], attached, cell, path)
    BY <1>4, RefIs
  <1>6. ASSUME NEW path \in DOMAIN layout
        PROVE  LET r == Address(cell, path)
               IN  /\ h[r] \in NodesWith(Links(new)) /\ h[r].schema = attached
                   /\ h[r].entry = layout[path].entry
                   /\ entry = NoEntry => h[r].entry = NoEntry
                   /\ DOMAIN Parts(h[r]) = DOMAIN Parts(layout[path].tree)
                   /\ DOMAIN Parts(h[r]) \subseteq Nat
                   /\ \A i \in DOMAIN Parts(h[r]) :
                        Parts(h[r])[i] = SlotAt(layout[path], cell, path, i)
    <2>1. PICK n \in Nat : PlaceOK(layout[path], entry, n)
      BY <1>2
    <2>2. layout[path] \in TreePlaces
      BY <1>2
    <2>3. \A i \in ContainersIn(layout[path].tree) : Address(cell, Append(path, i)) \in new
      BY <1>2
    <2> DEFINE node == NodeAtPlace(layout[path], attached, cell, path)
    <2> HIDE DEF new
    <2>4. /\ node \in NodesWith(Links(new)) /\ node.schema = attached
          /\ node.entry = layout[path].entry
          /\ DOMAIN Parts(node) = DOMAIN Parts(layout[path].tree)
          /\ \A i \in DOMAIN Parts(node) : Parts(node)[i] = SlotAt(layout[path], cell, path, i)
      BY <2>1, <2>2, <2>3, NodeAtPlaceIs
    <2>5. h[Address(cell, path)] = node
      BY <1>5
    <2>6. entry = NoEntry => node.entry = NoEntry
      BY <2>1, <2>4 DEF PlaceOK
    <2>7. DOMAIN Parts(node) \subseteq Nat
      <3>1. Parts(node) \in Seq(Links(new))
        BY <2>4, NodeShape
      <3> QED
        BY <3>1
    <2> HIDE DEF node, h
    <2> QED
      BY <2>4, <2>5, <2>6, <2>7
  <1>7. ASSUME NEW r \in new PROVE \E path \in DOMAIN layout : r = Address(cell, path)
    OBVIOUS
  <1>8. \A r \in DOMAIN heap : h[r] = heap[r]
    OBVIOUS
  <1>9. IsFiniteSet(DOMAIN h)
    <2> DEFINE f == [path \in DOMAIN layout |-> Address(cell, path)]
    <2>1. IsFiniteSet({f[path] : path \in DOMAIN f})
      <3>1. DOMAIN f = DOMAIN layout /\ f = [path \in DOMAIN f |-> f[path]]
        OBVIOUS
      <3> HIDE DEF f
      <3> QED
        BY <1>2, <3>1, FiniteImage
    <2>2. {f[path] : path \in DOMAIN f} = new
      OBVIOUS
    <2> HIDE DEF f, new, h
    <2>3. IsFiniteSet(DOMAIN heap) /\ IsFiniteSet(new)
      BY <2>1, <2>2 DEF HeapOK
    <2>4. IsFiniteSet(DOMAIN heap \cup new)
      BY <2>3, FS_Union
    <2> QED
      BY <1>4, <2>4
  <1>10. slot.ref = Address(cell, <<>>) /\ slot.ref \in new /\ IsRef(slot) /\ slot \in Links(new)
    BY <1>2, RefIs DEF Links
  <1>11. h = [r \in DOMAIN h |-> h[r]]
    OBVIOUS
  <1> HIDE DEF h, new, slot
  <1>12. HeapOK(h)
    <2>1. Links(new) \subseteq Links(DOMAIN h) /\ Links(DOMAIN heap) \subseteq Links(DOMAIN h)
      BY <1>4, LinksWithin
    <2>2. /\ NodesWith(Links(new)) \subseteq NodesWith(Links(DOMAIN h))
          /\ NodesWith(Links(DOMAIN heap)) \subseteq NodesWith(Links(DOMAIN h))
      BY <2>1, NodesWithin
    <2>3. \A r \in DOMAIN heap : h[r] \in NodesWith(Links(DOMAIN h))
      BY <1>8, <2>2 DEF HeapOK
    <2>4. \A r \in new : h[r] \in NodesWith(Links(DOMAIN h))
      BY <1>6, <1>7, <2>2
    <2>5. \A r \in DOMAIN h : h[r] \in NodesWith(Links(DOMAIN h))
      BY <1>4, <2>3, <2>4
    <2>6. h \in [DOMAIN h -> NodesWith(Links(DOMAIN h))]
      BY <1>11, <2>5
    <2> QED
      BY <1>9, <2>6 DEF HeapOK
  <1>13. Closed(h, new)
    <2>1. \A r \in new : Slots(h[r]) \subseteq Links(new)
      BY <1>6, <1>7, NodeShape
    <2> QED
      BY <2>1, RefsOfLinks DEF Closed
  <1>14. ASSUME NEW path \in DOMAIN layout, NEW i \in DOMAIN Parts(h[Address(cell, path)]),
                IsRef(Parts(h[Address(cell, path)])[i])
         PROVE  /\ Parts(h[Address(cell, path)])[i] = Ref(Address(cell, Append(path, i)))
                /\ path \in Seq(Nat) /\ i \in Nat
    <2>1. Parts(h[Address(cell, path)])[i] = SlotAt(layout[path], cell, path, i)
      BY <1>6
    <2>2. path \in Seq(Nat) /\ i \in Nat
      BY <1>2, <1>6
    <2>3. CASE IsContainer(Parts(layout[path].tree)[i])
      BY <2>1, <2>2, <2>3 DEF SlotAt
    <2>4. CASE ~IsContainer(Parts(layout[path].tree)[i])
      <3>1. PICK n \in Nat : PlaceOK(layout[path], entry, n)
        BY <1>2
      <3>2. Parts(layout[path].tree)[i] \in Nested[n - 1] /\ n - 1 \in Nat
        <4>1. n # 0 /\ \A j \in DOMAIN Parts(layout[path].tree) :
                         Parts(layout[path].tree)[j] \in Nested[n - 1]
          BY <3>1, PartsNest DEF PlaceOK
        <4> QED
          BY <1>6, <4>1
      <3>3. ~IsRef(Parts(layout[path].tree)[i])
        BY <3>2, TreeShape
      <3>4. Parts(h[Address(cell, path)])[i] = Parts(layout[path].tree)[i]
        BY <2>1, <2>4 DEF SlotAt
      <3> QED
        BY <1>14, <3>3, <3>4
    <2> QED
      BY <2>3, <2>4
  <1>15. OnePlace(h, new)
    <2> SUFFICES ASSUME NEW p \in new, NEW q \in new,
                        NEW i \in DOMAIN Parts(h[p]), NEW j \in DOMAIN Parts(h[q]),
                        IsRef(Parts(h[p])[i]), Parts(h[p])[i] = Parts(h[q])[j]
                 PROVE  p = q /\ i = j
      BY DEF OnePlace
    <2>1. PICK a \in DOMAIN layout : p = Address(cell, a)
      BY <1>7
    <2>2. PICK b \in DOMAIN layout : q = Address(cell, b)
      BY <1>7
    <2>3. Parts(h[p])[i] = Ref(Address(cell, Append(a, i))) /\ a \in Seq(Nat) /\ i \in Nat
      BY <1>14, <2>1
    <2>4. Parts(h[q])[j] = Ref(Address(cell, Append(b, j))) /\ b \in Seq(Nat) /\ j \in Nat
      BY <1>14, <2>2
    <2>5. Append(a, i) = Append(b, j)
      <3>1. Ref(Address(cell, Append(a, i))) = Ref(Address(cell, Append(b, j)))
        BY <2>3, <2>4
      <3>2. Address(cell, Append(a, i)) = Address(cell, Append(b, j))
        BY <3>1, RefIs
      <3> QED
        BY <3>2, RefIs
    <2> QED
      BY <2>1, <2>2, <2>3, <2>4, <2>5, OnePath
  <1>16. Unplaced(h, new, slot)
    <2> SUFFICES ASSUME NEW p \in new, slot \in Slots(h[p]) PROVE FALSE
      BY DEF Unplaced
    <2>1. PICK a \in DOMAIN layout : p = Address(cell, a)
      BY <1>7
    <2>2. PICK i \in DOMAIN Parts(h[p]) : Parts(h[p])[i] = slot
      BY DEF Slots, Range
    <2>3. slot = Ref(Address(cell, Append(a, i))) /\ a \in Seq(Nat) /\ i \in Nat
      BY <1>10, <1>14, <2>1, <2>2
    <2>4. Append(a, i) = <<>>
      BY <2>3, RefIs DEF slot
    <2> QED
      BY <2>3, <2>4, Paths
  <1>17. /\ \A r \in new : h[r].schema = attached /\ (entry = NoEntry => h[r].entry = NoEntry)
         /\ h[slot.ref].entry = entry
    <2>1. h[Address(cell, <<>>)].entry = layout[<<>>].entry /\ layout[<<>>].entry = entry
      BY <1>2, <1>6
    <2> QED
      BY <1>6, <1>7, <1>10, <2>1
  <1>18. new \subseteq Reach(h, {slot})
    <2> DEFINE R == Reach(h, {slot})
               Missed == {path \in DOMAIN layout : Address(cell, path) \notin R}
               T == {Len(path) : path \in Missed}
    <2>1. {slot} \subseteq Links(DOMAIN h)
      BY <1>4, <1>10, LinksWithin
    <2>2. Closed(h, R) /\ slot.ref \in R
      <3>1. RefsIn({slot}) = {slot.ref}
        BY <1>10, LinkOrScalar
      <3> QED
        BY <1>12, <2>1, <3>1, Reached
    <2> HIDE DEF R
    <2>3. ASSUME Missed # {} PROVE FALSE
      <3>1. T \subseteq Nat /\ T # {}
        <4>1. \A path \in DOMAIN layout : Len(path) \in Nat
          BY <1>2
        <4> QED
          BY <2>3, <4>1
      <3>2. PICK m \in T : \A n \in T : m <= n
        BY <3>1, Least
      <3>3. PICK path \in Missed : m = Len(path)
        BY <3>2
      <3>4. path # <<>>
        BY <1>10, <2>2, <3>3
      <3>5. PICK p \in DOMAIN layout : \E i \in ContainersIn(layout[p].tree) : path = Append(p, i)
        BY <1>2, <3>4 DEF Under
      <3>6. PICK i \in ContainersIn(layout[p].tree) : path = Append(p, i)
        BY <3>5
      <3>7. i \in DOMAIN Parts(h[Address(cell, p)]) /\ IsContainer(Parts(layout[p].tree)[i])
        BY <1>6 DEF ContainersIn
      <3>8. p \in Seq(Nat) /\ i \in Nat
        BY <1>2, <1>6, <3>7
      <3>9. Parts(h[Address(cell, p)])[i] = Ref(Address(cell, path))
        BY <1>6, <3>6, <3>7 DEF SlotAt
      <3>10. Ref(Address(cell, path)) \in Slots(h[Address(cell, p)])
        BY <3>7, <3>9 DEF Slots, Range
      <3>11. Address(cell, path) \in RefsIn(Slots(h[Address(cell, p)]))
        BY <3>10, RefIs DEF RefsIn
      <3>12. Address(cell, p) \notin R
        BY <2>2, <3>3, <3>11 DEF Closed
      <3>13. Len(p) \in T
        BY <3>12
      <3>14. Len(path) = Len(p) + 1 /\ Len(p) \in Nat
        BY <3>6, <3>8, Paths
      <3> HIDE DEF T, Missed
      <3>15. Len(path) <= Len(p)
        BY <3>2, <3>3, <3>13
      <3> QED
        BY <3>14, <3>15
    <2> QED
      BY <1>7, <2>3 DEF R
  <1>19. StoredIn(heap, h, slot, tree, attached, entry)
    BY <1>4, <1>8, <1>10, <1>12, <1>13, <1>15, <1>16, <1>17, <1>18 DEF StoredIn, Added
  <1> QED
    BY <1>1, <1>19

LEMMA Stored ==
  ASSUME NEW heap, HeapOK(heap), NEW tree \in Trees,
         NEW attached \in BOOLEAN, NEW entry \in Entries
  PROVE  LET store == Store(heap, tree, attached, entry)
         IN  StoredIn(heap, store.heap, store.slot, tree, attached, entry)
  <1>1. CASE IsContainer(tree)
    BY <1>1, ContainerStored DEF Store
  <1>2. CASE ~IsContainer(tree)
    <2>1. Store(heap, tree, attached, entry).heap = heap /\ Store(heap, tree, attached, entry).slot = tree
      BY <1>2 DEF Store
    <2>2. tree \in ScalarValues /\ ~IsRef(tree)
      BY <1>2, TreeShape, DepthAssumption DEF Trees
    <2>3. DOMAIN heap \ DOMAIN heap = {}
      OBVIOUS
    <2>4. Closed(heap, {}) /\ OnePlace(heap, {}) /\ Unplaced(heap, {}, tree) /\ tree \in Links({})
      BY <2>2 DEF Closed, OnePlace, Unplaced, Links
    <2>5. StoredIn(heap, heap, tree, tree, attached, entry)
      BY <1>2, <2>2, <2>3, <2>4 DEF StoredIn, Added
    <2> QED
      BY <2>1, <2>5
  <1> QED
    BY <1>1, <1>2

LEMMA Cloned ==
  ASSUME NEW heap, HeapOK(heap), NEW slot \in Links(DOMAIN heap)
  PROVE  LET copy == cloneJSONValue(heap, slot)
         IN  StoredIn(heap, copy.heap, copy.slot, View(heap, slot), FALSE, NoEntry)
  <1>1. View(heap, slot) \in Trees
    BY ViewIsTree
  <1> QED
    BY <1>1, Stored, EntriesBelow DEF cloneJSONValue

\* What has just been added is reached by its slot alone.
LEMMA AddedApart ==
  ASSUME NEW h, HeapOK(h), NEW new, NEW slot, Added(h, new, slot)
  PROVE  /\ HeapOK(new) /\ DOMAIN h \subseteq DOMAIN new
         /\ slot \in Links(DOMAIN new) /\ Own(new, slot) = DOMAIN new \ DOMAIN h
         /\ \A x \in Links(DOMAIN h) :
              x \in Links(DOMAIN new) /\ Own(new, x) = Own(h, x) /\ Own(h, x) \subseteq DOMAIN h
  <1> DEFINE N == DOMAIN new \ DOMAIN h
  <1>1. /\ HeapOK(new) /\ DOMAIN h \subseteq DOMAIN new /\ \A r \in DOMAIN h : new[r] = h[r]
        /\ Closed(new, N) /\ N \subseteq Own(new, slot) /\ slot \in Links(N)
    BY DEF Added, Own
  <1>2. Closed(h, DOMAIN h)
    BY HeapClosed
  <1>3. slot \in Links(DOMAIN new) /\ Links(DOMAIN h) \subseteq Links(DOMAIN new)
    BY <1>1, LinksWithin
  <1>4. Own(new, slot) \subseteq N
    <2>1. N \in SUBSET DOMAIN new
      OBVIOUS
    <2> HIDE DEF N
    <2> QED
      BY <1>1, <1>3, <2>1, OwnIs
  <1>5. ASSUME NEW x \in Links(DOMAIN h)
        PROVE  Own(new, x) = Own(h, x) /\ Own(h, x) \subseteq DOMAIN h
    BY <1>1, <1>2, <1>5, OwnWithin
  <1> QED
    BY <1>1, <1>3, <1>4, <1>5

-----------------------------------------------------------------------------
(* What the nodes of a stored tree show: each a container at its place.    *)

NodeShows(heap, r, places) ==
  LET node == heap[r]
      tree == places[r].tree
  IN  /\ IsContainer(tree) /\ node.kind = tree.kind /\ node.entry = places[r].entry
      /\ DOMAIN Parts(node) = DOMAIN Parts(tree)
      /\ \A i \in DOMAIN Parts(node) :
           /\ node.kind = "object" => node.fields[i].key = tree.fields[i].key
           /\ ~IsContainer(Parts(tree)[i]) => Parts(node)[i] = Parts(tree)[i]
           /\ IsContainer(Parts(tree)[i]) =>
                /\ IsRef(Parts(node)[i]) /\ Parts(node)[i].ref \in DOMAIN places
                /\ places[Parts(node)[i].ref] = PartAt(places[r], i)

Shows(heap, places) ==
  /\ places \in [DOMAIN places -> TreePlaces]
  /\ \A r \in DOMAIN places : NodeShows(heap, r, places)

\* What a node shows as it stands, whatever was stored with it.
LEMMA ContainerShown ==
  ASSUME NEW heap, HeapOK(heap), NEW tree \in Trees, IsContainer(tree),
         NEW attached \in BOOLEAN, NEW entry \in Entries
  PROVE  LET store == StoreContainer(heap, tree, attached, entry)
         IN  \E places : /\ DOMAIN places = DOMAIN store.heap \ DOMAIN heap
                         /\ Shows(store.heap, places)
                         /\ places[store.slot.ref] = [tree |-> tree, entry |-> entry]
  <1> DEFINE cell   == FreshCell(heap)
             layout == Layout(tree, entry)
             new    == {Address(cell, path) : path \in DOMAIN layout}
             Node(r) == NodeAtPlace(layout[r.path], attached, cell, r.path)
             h == [r \in DOMAIN heap \cup new |-> IF r \in DOMAIN heap THEN heap[r] ELSE Node(r)]
             slot == Ref(Address(cell, <<>>))
             store == StoreContainer(heap, tree, attached, entry)
             places == [r \in new |-> layout[r.path]]
  <1>1. store.heap = h /\ store.slot = slot
    BY DEF StoreContainer
  <1>2. /\ <<>> \in DOMAIN layout /\ layout[<<>>] = [tree |-> tree, entry |-> entry]
        /\ \A path \in DOMAIN layout :
             /\ layout[path] \in TreePlaces
             /\ \E n \in Nat : PlaceOK(layout[path], entry, n)
             /\ \A i \in ContainersIn(layout[path].tree) :
                  /\ Append(path, i) \in DOMAIN layout
                  /\ layout[Append(path, i)] = PartAt(layout[path], i)
    BY LayoutComplete
  <1>3. \A r \in DOMAIN heap : r.cell # cell
    BY FreshCellIs DEF HeapOK
  <1> HIDE DEF cell, layout
  <1>4. new \cap DOMAIN heap = {} /\ DOMAIN h \ DOMAIN heap = new
    BY <1>3, RefIs
  <1>5. ASSUME NEW path \in DOMAIN layout
        PROVE  LET r == Address(cell, path)
               IN  /\ r \in new /\ h[r] = NodeAtPlace(layout[path], attached, cell, path)
                   /\ places[r] = layout[path]
    BY <1>4, RefIs
  <1>6. ASSUME NEW r \in new PROVE \E path \in DOMAIN layout : r = Address(cell, path)
    OBVIOUS
  <1>7. DOMAIN places = new
    OBVIOUS
  <1>12. places = [r \in new |-> places[r]]
    OBVIOUS
  <1> HIDE DEF places, h, new
  <1>8. places \in [new -> TreePlaces]
    <2>1. \A r \in new : places[r] \in TreePlaces
      BY <1>2, <1>5, <1>6
    <2> QED
      BY <1>12, <2>1
  <1>9. ASSUME NEW r \in new PROVE NodeShows(h, r, places)
    <2>1. PICK path \in DOMAIN layout : r = Address(cell, path)
      BY <1>6
    <2> DEFINE place == layout[path]
               node == NodeAtPlace(place, attached, cell, path)
    <2>2. PICK n \in Nat : PlaceOK(place, entry, n)
      BY <1>2
    <2>3. place \in TreePlaces /\ h[r] = node /\ places[r] = place /\ IsContainer(place.tree)
      BY <1>2, <1>5, <2>1, <2>2 DEF PlaceOK
    <2>4. \A i \in ContainersIn(place.tree) : Address(cell, Append(path, i)) \in new
      BY <1>2, <1>5
    <2>5. \A i \in ContainersIn(place.tree) :
            places[Address(cell, Append(path, i))] = PartAt(place, i)
      BY <1>2, <1>5
    <2> HIDE DEF place
    <2>6. /\ node.entry = place.entry /\ node.kind = place.tree.kind
          /\ DOMAIN Parts(node) = DOMAIN Parts(place.tree)
          /\ \A i \in DOMAIN Parts(node) : Parts(node)[i] = SlotAt(place, cell, path, i)
          /\ node.kind = "object" =>
               \A i \in DOMAIN Parts(node) : node.fields[i].key = place.tree.fields[i].key
      BY <2>2, <2>3, <2>4, NodeAtPlaceIs
    <2> HIDE DEF node
    <2>7. ASSUME NEW i \in DOMAIN Parts(node), ~IsContainer(Parts(place.tree)[i])
          PROVE  Parts(node)[i] = Parts(place.tree)[i]
      BY <2>6, <2>7 DEF SlotAt
    <2>8. ASSUME NEW i \in DOMAIN Parts(node), IsContainer(Parts(place.tree)[i])
          PROVE  /\ IsRef(Parts(node)[i]) /\ Parts(node)[i].ref \in new
                 /\ places[Parts(node)[i].ref] = PartAt(place, i)
      <3>1. i \in ContainersIn(place.tree)
        BY <2>6, <2>8 DEF ContainersIn
      <3>2. Parts(node)[i] = Ref(Address(cell, Append(path, i)))
        BY <2>6, <2>8 DEF SlotAt
      <3> QED
        BY <2>4, <2>5, <3>1, <3>2, RefIs
    <2> QED
      BY <1>7, <2>3, <2>6, <2>7, <2>8 DEF NodeShows
  <1>10. places[slot.ref] = [tree |-> tree, entry |-> entry]
    BY <1>2, <1>5, RefIs
  <1>11. Shows(h, places)
    BY <1>7, <1>8, <1>9 DEF Shows
  <1> QED
    BY <1>1, <1>4, <1>7, <1>10, <1>11

\* A scalar is stored in no node.
LEMMA StoredShows ==
  ASSUME NEW heap, HeapOK(heap), NEW tree \in Trees,
         NEW attached \in BOOLEAN, NEW entry \in Entries
  PROVE  LET store == Store(heap, tree, attached, entry)
         IN  \E places : /\ DOMAIN places = DOMAIN store.heap \ DOMAIN heap
                         /\ Shows(store.heap, places)
                         /\ IsContainer(tree) =>
                              places[store.slot.ref] = [tree |-> tree, entry |-> entry]
  <1>1. CASE IsContainer(tree)
    BY <1>1, ContainerShown DEF Store
  <1>2. CASE ~IsContainer(tree)
    <2>1. Store(heap, tree, attached, entry).heap = heap
      BY <1>2 DEF Store
    <2> DEFINE none == [r \in {} |-> [tree |-> Void, entry |-> NoEntry]]
    <2>2. DOMAIN none = DOMAIN heap \ DOMAIN heap /\ none \in [DOMAIN none -> TreePlaces]
      OBVIOUS
    <2>3. Shows(heap, none)
      <3>1. DOMAIN none = {}
        OBVIOUS
      <3> HIDE DEF none
      <3> QED
        BY <2>2, <3>1 DEF Shows
    <2> QED
      BY <1>2, <2>1, <2>2, <2>3
  <1> QED
    BY <1>1, <1>2
-----------------------------------------------------------------------------
(* What a stored tree is seen as.                                          *)

\* What a node denotes: a container like it, of what its parts denote.
LEMMA TreeAtIs ==
  ASSUME NEW heap, HeapOK(heap), NEW n \in Nat, NEW trees \in [DOMAIN heap -> Nested[n]],
         NEW r \in DOMAIN heap
  PROVE  LET tree == TreeAt(heap, trees, r)
             node == heap[r]
         IN  /\ tree \in Nested[n + 1] /\ IsContainer(tree) /\ tree.kind = node.kind
             /\ DOMAIN Parts(tree) = DOMAIN Parts(node)
             /\ \A i \in DOMAIN Parts(node) :
                  /\ Parts(node)[i] \in Links(DOMAIN heap)
                  /\ IsRef(Parts(node)[i]) => Parts(tree)[i] = trees[Parts(node)[i].ref]
                  /\ ~IsRef(Parts(node)[i]) => Parts(tree)[i] = Parts(node)[i]
                  /\ node.kind = "object" => tree.fields[i].key = node.fields[i].key
  <1> DEFINE D == DOMAIN heap
             node == heap[r]
             slots == Parts(node)
             tree == TreeAt(heap, trees, r)
             Part(s) == IF IsRef(s) THEN trees[s.ref] ELSE s
  <1>1. /\ node \in NodesWith(Links(D)) /\ slots \in Seq(Links(D))
        /\ node.kind = "object" \/ node.kind = "array"
        /\ node.kind = "object" => DOMAIN slots = DOMAIN node.fields
    <2>1. node \in NodesWith(Links(D))
      BY DEF HeapOK
    <2> HIDE DEF node, D
    <2> QED
      BY <2>1, NodeShape
  <1>2. tree \in Nested[n + 1]
    BY TreeAtNests
  <1>3. tree = TreeOf(node, [i \in DOMAIN slots |-> Part(slots[i])])
    BY DEF TreeAt
  <1> HIDE DEF node, slots, tree, D
  <1>4. /\ tree.kind = node.kind /\ DOMAIN Parts(tree) = DOMAIN slots
        /\ \A i \in DOMAIN slots : Parts(tree)[i] = Part(slots[i])
        /\ node.kind = "object" =>
             \A i \in DOMAIN slots : tree.fields[i].key = node.fields[i].key
    <2>1. CASE node.kind = "array"
      BY <1>3, <2>1 DEF TreeOf, Array, Parts
    <2>2. CASE node.kind = "object"
      BY <1>3, <2>2 DEF TreeOf, Object, Field, Parts
    <2> QED
      BY <1>1, <2>1, <2>2
  <1>5. IsContainer(tree)
    BY <1>1, <1>4 DEF IsContainer
  <1>6. \A i \in DOMAIN slots : slots[i] \in Links(D)
    BY <1>1
  <1> QED
    BY <1>2, <1>4, <1>5, <1>6 DEF node, slots, tree, D

\* Two containers with the same parts, and the same keys if they are objects.
LEMMA SameTree ==
  ASSUME NEW n \in Nat, NEW tree \in Nested[n], IsContainer(tree),
         NEW m \in Nat, NEW other \in Nested[m], IsContainer(other),
         other.kind = tree.kind, DOMAIN Parts(other) = DOMAIN Parts(tree),
         \A i \in DOMAIN Parts(tree) : Parts(other)[i] = Parts(tree)[i],
         tree.kind = "object" =>
           \A i \in DOMAIN Parts(tree) : other.fields[i].key = tree.fields[i].key
  PROVE  other = tree
  <1>1. CASE tree.kind = "array"
    <2>1. ASSUME NEW k \in Nat, NEW t \in Nested[k], IsContainer(t), t.kind = "array"
          PROVE  t = [kind |-> "array", items |-> t.items] /\ Parts(t) = t.items
      <3>1. k # 0 /\ t \notin ScalarValues
        BY <2>1, TreeShape, ScalarKind
      <3>2. k - 1 \in Nat /\ (k - 1) + 1 = k
        BY <3>1
      <3>3. t \in ObjectsOf(Nested[k - 1]) \cup ArraysOf(Nested[k - 1])
        BY <3>1, <3>2, NestedIs DEF Around
      <3>4. t \in ArraysOf(Nested[k - 1])
        BY <2>1, <3>3 DEF ObjectsOf
      <3> QED
        BY <2>1, <3>4 DEF ArraysOf, Parts
    <2>2. tree = [kind |-> "array", items |-> tree.items] /\ Parts(tree) = tree.items
      BY <1>1, <2>1
    <2>3. other = [kind |-> "array", items |-> other.items] /\ Parts(other) = other.items
      BY <1>1, <2>1
    <2>4. Parts(tree) \in Seq(Nested[n - 1]) /\ Parts(other) \in Seq(Nested[m - 1])
      BY TreeShape
    <2> DEFINE a == Parts(tree)
               b == Parts(other)
    <2>5. a = [i \in DOMAIN a |-> a[i]] /\ b = [i \in DOMAIN b |-> b[i]]
      BY <2>4
    <2>6. DOMAIN a = DOMAIN b /\ \A i \in DOMAIN a : a[i] = b[i]
      OBVIOUS
    <2> HIDE DEF a, b
    <2>7. a = b
      BY <2>5, <2>6
    <2> QED
      BY <2>2, <2>3, <2>7 DEF a, b
  <1>2. CASE tree.kind = "object"
    <2>1. ASSUME NEW k \in Nat, NEW t \in Nested[k], IsContainer(t), t.kind = "object"
          PROVE  /\ t = [kind |-> "object", fields |-> t.fields]
                 /\ DOMAIN t.fields = DOMAIN Parts(t)
                 /\ t.fields = [i \in DOMAIN t.fields |-> t.fields[i]]
                 /\ \A i \in DOMAIN Parts(t) :
                      t.fields[i] = [key |-> t.fields[i].key, value |-> Parts(t)[i]]
      <3>1. /\ t \in ObjectsOf(Nested[k - 1]) /\ DOMAIN Parts(t) = DOMAIN t.fields
            /\ t.fields \in Seq(FieldsOf(STRING, Nested[k - 1]))
        BY <2>1, TreeShape
      <3>2. t = [kind |-> "object", fields |-> t.fields]
        BY <3>1 DEF ObjectsOf
      <3>3. \A i \in DOMAIN t.fields : t.fields[i] = [key |-> t.fields[i].key, value |-> t.fields[i].value]
        <4>1. \A f \in FieldsOf(STRING, Nested[k - 1]) : f = [key |-> f.key, value |-> f.value]
          BY DEF FieldsOf
        <4>2. \A i \in DOMAIN t.fields : t.fields[i] \in FieldsOf(STRING, Nested[k - 1])
          BY <3>1
        <4> QED
          BY <4>1, <4>2
      <3>4. \A i \in DOMAIN Parts(t) : Parts(t)[i] = t.fields[i].value
        BY <2>1, <3>1 DEF Parts
      <3>5. t.fields = [i \in DOMAIN t.fields |-> t.fields[i]]
        BY <3>1
      <3> QED
        BY <3>1, <3>2, <3>3, <3>4, <3>5
    <2> DEFINE a == tree.fields
               b == other.fields
    <2>2. /\ tree = [kind |-> "object", fields |-> a] /\ DOMAIN a = DOMAIN Parts(tree)
          /\ a = [i \in DOMAIN a |-> a[i]]
          /\ \A i \in DOMAIN Parts(tree) : a[i] = [key |-> a[i].key, value |-> Parts(tree)[i]]
      BY <1>2, <2>1
    <2>3. /\ other = [kind |-> "object", fields |-> b] /\ DOMAIN b = DOMAIN Parts(other)
          /\ b = [i \in DOMAIN b |-> b[i]]
          /\ \A i \in DOMAIN Parts(other) : b[i] = [key |-> b[i].key, value |-> Parts(other)[i]]
      BY <1>2, <2>1
    <2>4. \A i \in DOMAIN Parts(tree) : a[i].key = b[i].key
      BY <1>2
    <2> HIDE DEF a, b
    <2>5. ASSUME NEW i \in DOMAIN Parts(tree) PROVE a[i] = b[i]
      <3>1. i \in DOMAIN Parts(other) /\ Parts(other)[i] = Parts(tree)[i]
        OBVIOUS
      <3>2. a[i] = [key |-> a[i].key, value |-> Parts(tree)[i]]
        BY <2>2
      <3>3. b[i] = [key |-> b[i].key, value |-> Parts(tree)[i]]
        BY <2>3, <3>1
      <3> QED
        BY <2>4, <3>2, <3>3
    <2>6. a = b
      BY <2>2, <2>3, <2>5
    <2> QED
      BY <2>2, <2>3, <2>6
  <1> QED
    BY <1>1, <1>2, TreeShape

\* The nodes of a stored tree denote what stands at their places.
LEMMA ViewShows ==
  ASSUME NEW heap, HeapOK(heap), NEW view, Viewing(heap, view),
         NEW places, Shows(heap, places), DOMAIN places \subseteq DOMAIN heap
  PROVE  \A n \in Nat : \A r \in DOMAIN places :
           places[r].tree \in Nested[n] => view[n][r] = places[r].tree
  <1> DEFINE T == {n \in Nat : \A r \in DOMAIN places :
                                 places[r].tree \in Nested[n] => view[n][r] = places[r].tree}
  <1>1. 0 \in T
    <2>1. \A r \in DOMAIN places : IsContainer(places[r].tree)
      BY DEF Shows, NodeShows
    <2> QED
      BY <2>1, NestedIs, ScalarKind
  <1>2. ASSUME NEW n \in Nat, n \in T PROVE n + 1 \in T
    <2> SUFFICES ASSUME NEW r \in DOMAIN places, places[r].tree \in Nested[n + 1]
                 PROVE  view[n + 1][r] = places[r].tree
      OBVIOUS
    <2> DEFINE node == heap[r]
               tree == places[r].tree
               seen == view[n + 1][r]
    <2>0. r \in DOMAIN heap /\ n + 1 \in Nat /\ (n + 1) - 1 = n
      OBVIOUS
    <2>1. seen = TreeAt(heap, view[n], r) /\ view[n] \in [DOMAIN heap -> Nested[n]]
      BY <2>0 DEF Viewing
    <2>2. /\ seen \in Nested[n + 1] /\ IsContainer(seen) /\ seen.kind = node.kind
          /\ DOMAIN Parts(seen) = DOMAIN Parts(node)
          /\ \A i \in DOMAIN Parts(node) :
               /\ IsRef(Parts(node)[i]) => Parts(seen)[i] = view[n][Parts(node)[i].ref]
               /\ ~IsRef(Parts(node)[i]) => Parts(seen)[i] = Parts(node)[i]
               /\ node.kind = "object" => seen.fields[i].key = node.fields[i].key
      BY <2>0, <2>1, TreeAtIs
    <2>3. NodeShows(heap, r, places)
      BY DEF Shows
    <2>4. /\ IsContainer(tree) /\ node.kind = tree.kind
          /\ DOMAIN Parts(node) = DOMAIN Parts(tree)
          /\ \A i \in DOMAIN Parts(node) :
               /\ node.kind = "object" => node.fields[i].key = tree.fields[i].key
               /\ ~IsContainer(Parts(tree)[i]) => Parts(node)[i] = Parts(tree)[i]
               /\ IsContainer(Parts(tree)[i]) =>
                    /\ IsRef(Parts(node)[i]) /\ Parts(node)[i].ref \in DOMAIN places
                    /\ places[Parts(node)[i].ref] = PartAt(places[r], i)
      BY <2>3 DEF NodeShows
    <2>5. \A i \in DOMAIN Parts(tree) : Parts(tree)[i] \in Nested[n]
      BY <2>0, <2>4, PartsNest
    <2>6. \A i : PartAt(places[r], i).tree = Parts(tree)[i]
      BY DEF PartAt
    <2> HIDE DEF node, seen, tree
    <2>7. ASSUME NEW i \in DOMAIN Parts(tree) PROVE Parts(seen)[i] = Parts(tree)[i]
      <3>1. CASE IsContainer(Parts(tree)[i])
        <4> DEFINE q == Parts(node)[i].ref
        <4>1. IsRef(Parts(node)[i]) /\ q \in DOMAIN places /\ places[q].tree = Parts(tree)[i]
          BY <2>4, <2>6, <3>1
        <4>2. Parts(seen)[i] = view[n][q]
          BY <2>2, <2>4, <4>1
        <4> QED
          BY <1>2, <2>5, <4>1, <4>2
      <3>2. CASE ~IsContainer(Parts(tree)[i])
        <4>1. ~IsRef(Parts(tree)[i])
          BY <2>5, TreeShape
        <4> QED
          BY <2>2, <2>4, <3>2, <4>1
      <3> QED
        BY <3>1, <3>2
    <2>8. /\ seen.kind = tree.kind /\ DOMAIN Parts(seen) = DOMAIN Parts(tree)
          /\ tree.kind = "object" =>
               \A i \in DOMAIN Parts(tree) : seen.fields[i].key = tree.fields[i].key
      BY <2>2, <2>4
    <2>9. tree \in Nested[n + 1]
      BY DEF tree
    <2>10. seen = tree
      BY <2>0, <2>2, <2>4, <2>7, <2>8, <2>9, SameTree
    <2> QED
      BY <2>10 DEF seen, tree
  <1> HIDE DEF T
  <1>3. \A n \in Nat : n \in T
    BY <1>1, <1>2, Induction
  <1> QED
    BY <1>3 DEF T

\* Store keeps the tree: what it returns denotes what it was given.
LEMMA StoredView ==
  ASSUME NEW heap, HeapOK(heap), NEW tree \in Trees,
         NEW attached \in BOOLEAN, NEW entry \in Entries
  PROVE  LET store == Store(heap, tree, attached, entry)
         IN  View(store.heap, store.slot) = tree
  <1> DEFINE store == Store(heap, tree, attached, entry)
             new == store.heap
  <1>1. StoredIn(heap, new, store.slot, tree, attached, entry)
    BY Stored
  <1>2. PICK places : /\ DOMAIN places = DOMAIN new \ DOMAIN heap
                      /\ Shows(new, places)
                      /\ IsContainer(tree) =>
                           places[store.slot.ref] = [tree |-> tree, entry |-> entry]
    BY StoredShows
  <1> HIDE DEF store
  <1>3. /\ HeapOK(new) /\ store.slot \in Links(DOMAIN new \ DOMAIN heap)
        /\ IsContainer(tree) => IsRef(store.slot)
        /\ ~IsContainer(tree) => store.slot = tree /\ ~IsRef(tree)
    BY <1>1 DEF StoredIn, Added
  <1> HIDE DEF new
  <1>4. PICK view : /\ Viewing(new, view)
                    /\ \A s : View(new, s) = IF IsRef(s) THEN view[MaxDepth][s.ref] ELSE s
    BY <1>3, ViewIs
  <1>5. ASSUME IsContainer(tree) PROVE View(new, store.slot) = tree
    <2>1. store.slot.ref \in DOMAIN places /\ places[store.slot.ref].tree = tree
      <3>1. store.slot.ref \in DOMAIN new \ DOMAIN heap
        BY <1>3, <1>5, LinkOrScalar, Zenon
      <3> QED
        BY <1>2, <1>5, <3>1
    <2>2. \A n \in Nat : \A r \in DOMAIN places :
            places[r].tree \in Nested[n] => view[n][r] = places[r].tree
      BY <1>2, <1>3, <1>4, ViewShows
    <2>3. MaxDepth \in Nat /\ tree \in Nested[MaxDepth]
      BY DepthAssumption DEF Trees
    <2>4. view[MaxDepth][store.slot.ref] = tree
      BY <2>1, <2>2, <2>3
    <2> QED
      BY <1>3, <1>4, <1>5, <2>4
  <1>6. ASSUME ~IsContainer(tree) PROVE View(new, store.slot) = tree
    BY <1>3, <1>4, <1>6
  <1>7. View(new, store.slot) = tree
    BY <1>5, <1>6
  <1> QED
    BY <1>7 DEF new, store

\* What a slot denotes depends on the nodes below it alone.
LEMMA SameView ==
  ASSUME NEW h, HeapOK(h), NEW new, HeapOK(new),
         NEW D, D \subseteq DOMAIN h, D \subseteq DOMAIN new, Closed(h, D),
         \A r \in D : new[r] = h[r], NEW slot \in Links(D)
  PROVE  View(new, slot) = View(h, slot)
  <1>1. PICK view : /\ Viewing(h, view)
                    /\ \A s : View(h, s) = IF IsRef(s) THEN view[MaxDepth][s.ref] ELSE s
    BY ViewIs
  <1>2. PICK same : /\ Viewing(new, same)
                    /\ \A s : View(new, s) = IF IsRef(s) THEN same[MaxDepth][s.ref] ELSE s
    BY ViewIs
  <1> DEFINE T == {n \in Nat : \A r \in D : same[n][r] = view[n][r]}
  <1>3. 0 \in T
    BY <1>1, <1>2 DEF Viewing
  <1>4. ASSUME NEW n \in Nat, n \in T PROVE n + 1 \in T
    <2> SUFFICES ASSUME NEW r \in D PROVE same[n + 1][r] = view[n + 1][r]
      OBVIOUS
    <2>1. same[n + 1][r] = TreeAt(new, same[n], r) /\ view[n + 1][r] = TreeAt(h, view[n], r)
      <3>1. /\ same[n + 1] = [q \in DOMAIN new |-> TreeAt(new, same[n], q)]
            /\ view[n + 1] = [q \in DOMAIN h |-> TreeAt(h, view[n], q)]
        BY <1>1, <1>2, Zenon DEF Viewing
      <3> QED
        BY <3>1
    <2> DEFINE slots == Parts(h[r])
               Part(s) == IF IsRef(s) THEN view[n][s.ref] ELSE s
               Twin(s) == IF IsRef(s) THEN same[n][s.ref] ELSE s
    <2>2. \A i \in DOMAIN slots : slots[i] \in Slots(h[r])
      BY DEF Slots, Range
    <2>3. \A s \in Slots(h[r]) : IsRef(s) => s.ref \in D
      <3>1. Slots(h[r]) \subseteq Links(DOMAIN h)
        BY NodeShape DEF HeapOK
      <3>2. RefsIn(Slots(h[r])) \subseteq D
        BY DEF Closed
      <3> QED
        BY <3>1, <3>2, RefsOfLinks
    <2>4. \A i \in DOMAIN slots : Twin(slots[i]) = Part(slots[i])
      BY <1>4, <2>2, <2>3
    <2>5. TreeAt(h, view[n], r) = TreeOf(h[r], [i \in DOMAIN slots |-> Part(slots[i])])
      BY DEF TreeAt
    <2>6. TreeAt(new, same[n], r) = TreeOf(h[r], [i \in DOMAIN slots |-> Twin(slots[i])])
      BY DEF TreeAt
    <2> HIDE DEF slots, Part, Twin
    <2>7. [i \in DOMAIN slots |-> Twin(slots[i])] = [i \in DOMAIN slots |-> Part(slots[i])]
      BY <2>4
    <2> QED
      BY <2>1, <2>5, <2>6, <2>7
  <1> HIDE DEF T
  <1>5. \A n \in Nat : n \in T
    BY <1>3, <1>4, Induction
  <1>6. \A r \in D : same[MaxDepth][r] = view[MaxDepth][r]
    BY <1>5, DepthAssumption DEF T
  <1>7. IsRef(slot) => slot.ref \in D
    BY LinkOrScalar
  <1> QED
    BY <1>1, <1>2, <1>6, <1>7

\* Garbage collection changes nothing a client sees.
LEMMA CollectedView ==
  ASSUME NEW heap, HeapOK(heap), NEW slots, slots \subseteq Links(DOMAIN heap),
         NEW slot \in slots
  PROVE  View(Collect(heap, slots), slot) = View(heap, slot)
  <1> DEFINE new == Collect(heap, slots)
             D == DOMAIN new
  <1>1. /\ HeapOK(new) /\ D = Reach(heap, slots)
        /\ \A r \in D : r \in DOMAIN heap /\ new[r] = heap[r]
        /\ slots \subseteq Links(D)
    BY Collected
  <1>2. Closed(heap, D)
    BY <1>1, Reached
  <1> HIDE DEF new, D
  <1>3. D \subseteq DOMAIN heap /\ D \subseteq DOMAIN new /\ slot \in Links(D)
    BY <1>1 DEF D
  <1>4. View(new, slot) = View(heap, slot)
    BY <1>1, <1>2, <1>3, SameView
  <1> QED
    BY <1>4 DEF new

-----------------------------------------------------------------------------
(* What stands at some places of a sequence.                               *)

\* `at` says for each entry of `t` where in the first n of s it stood.
PickedBy(s, places, n, t, at) ==
  /\ at \in [1..Len(t) -> 1..n]
  /\ \A k \in 1..Len(t) : at[k] \in places /\ t[k] = s[at[k]]
  /\ \A j, k \in 1..Len(t) : j < k => at[j] < at[k]
  /\ \A i \in 1..n : i \in places => \E k \in 1..Len(t) : at[k] = i

Picked(s, places, n, t) == \E at : PickedBy(s, places, n, t, at)

LEMMA PickedMore ==
  ASSUME NEW S, NEW s \in Seq(S), NEW places, NEW n \in Nat, n + 1 <= Len(s),
         NEW t \in Seq(S), Picked(s, places, n, t)
  PROVE  LET new == IF n + 1 \in places THEN Append(t, s[n + 1]) ELSE t
         IN  new \in Seq(S) /\ Picked(s, places, n + 1, new)
  <1>1. PICK at : PickedBy(s, places, n, t, at)
    BY DEF Picked
  <1>2. /\ at \in [1..Len(t) -> 1..n]
        /\ \A k \in 1..Len(t) : at[k] \in places /\ t[k] = s[at[k]]
        /\ \A j, k \in 1..Len(t) : j < k => at[j] < at[k]
        /\ \A i \in 1..n : i \in places => \E k \in 1..Len(t) : at[k] = i
    BY <1>1 DEF PickedBy
  <1>3. CASE n + 1 \notin places
    <2>1. at \in [1..Len(t) -> 1..n + 1]
      BY <1>2
    <2>2. \A i \in 1..n + 1 : i \in places => \E k \in 1..Len(t) : at[k] = i
      <3>1. \A i \in 1..n + 1 : i \in 1..n \/ i = n + 1
        OBVIOUS
      <3> QED
        BY <1>2, <1>3, <3>1
    <2>3. PickedBy(s, places, n + 1, t, at)
      BY <1>2, <2>1, <2>2 DEF PickedBy
    <2> QED
      BY <1>3, <2>3 DEF Picked
  <1>4. CASE n + 1 \in places
    <2> DEFINE new == Append(t, s[n + 1])
               l == Len(t)
               more == [k \in 1..l + 1 |-> IF k <= l THEN at[k] ELSE n + 1]
    <2>1. l \in Nat /\ n + 1 \in 1..Len(s) /\ s[n + 1] \in S
      OBVIOUS
    <2>2. /\ new \in Seq(S) /\ Len(new) = l + 1
          /\ \A k \in 1..l : new[k] = t[k]
          /\ new[l + 1] = s[n + 1]
      BY <2>1
    <2> HIDE DEF new
    <2>3. \A k \in 1..l : more[k] = at[k] /\ at[k] \in 1..n
      BY <1>2, <2>1
    <2>4. more[l + 1] = n + 1 /\ l + 1 \in 1..l + 1
      BY <2>1
    <2>5. \A k \in 1..l + 1 : k \in 1..l \/ k = l + 1
      BY <2>1
    <2>6. more \in [1..l + 1 -> 1..n + 1]
      BY <1>2, <2>1
    <2> HIDE DEF more
    <2>7. \A k \in 1..l + 1 : more[k] \in places /\ new[k] = s[more[k]]
      BY <1>2, <1>4, <2>2, <2>3, <2>4, <2>5
    <2>8. ASSUME NEW j \in 1..l + 1, NEW k \in 1..l + 1, j < k PROVE more[j] < more[k]
      <3>1. j \in 1..l
        BY <2>1, <2>8
      <3>2. CASE k \in 1..l
        BY <1>2, <2>3, <2>8, <3>1, <3>2
      <3>3. CASE k = l + 1
        BY <2>3, <2>4, <3>1, <3>3
      <3> QED
        BY <2>5, <3>2, <3>3
    <2>9. ASSUME NEW i \in 1..n + 1, i \in places PROVE \E k \in 1..l + 1 : more[k] = i
      <3>1. CASE i = n + 1
        BY <2>4, <3>1
      <3>2. CASE i \in 1..n
        <4>1. PICK k \in 1..l : at[k] = i
          BY <1>2, <2>9, <3>2
        <4>2. k \in 1..l + 1
          BY <2>1
        <4> QED
          BY <2>3, <4>1, <4>2
      <3> QED
        BY <3>1, <3>2
    <2>10. PickedBy(s, places, n + 1, new, more)
      BY <2>2, <2>6, <2>7, <2>8, <2>9 DEF PickedBy
    <2> QED
      BY <1>4, <2>2, <2>10 DEF Picked, new
  <1> QED
    BY <1>3, <1>4

LEMMA ThosePicked ==
  ASSUME NEW S, NEW s \in Seq(S), NEW places
  PROVE  Those(s, places) \in Seq(S) /\ Picked(s, places, Len(s), Those(s, places))
  <1> DEFINE l == Len(s)
             Next(n, x) == IF n + 1 \in places THEN Append(x, s[n + 1]) ELSE x
             Is(f) == f = [n \in 0..l |-> IF n = 0 THEN <<>>
                                          ELSE IF n \in places THEN Append(f[n - 1], s[n])
                                          ELSE f[n - 1]]
             T == [n \in Nat |-> {t \in Seq(S) : n <= l => Picked(s, places, n, t)}]
             F == [n \in Nat |-> [x \in T[n] |-> IF n + 1 <= l THEN Next(n, x)
                                                 ELSE x]]
  <1>1. l \in Nat
    OBVIOUS
  <1>2. <<>> \in T[0]
    <2>1. <<>> \in Seq(S) /\ Len(<<>>) = 0
      OBVIOUS
    <2>2. PickedBy(s, places, 0, <<>>, <<>>)
      <3>1. 1..0 = {} /\ <<>> \in [1..0 -> 1..0]
        OBVIOUS
      <3> QED
        BY <2>1, <3>1 DEF PickedBy
    <2> QED
      BY <2>1, <2>2 DEF Picked
  <1>3. ASSUME NEW n \in Nat, NEW x \in T[n] PROVE F[n][x] \in T[n + 1]
    <2>1. x \in Seq(S) /\ (n <= l => Picked(s, places, n, x)) /\ n + 1 \in Nat
      OBVIOUS
    <2>2. CASE n + 1 <= l
      <3>1. Next(n, x) \in Seq(S) /\ Picked(s, places, n + 1, Next(n, x))
        BY <1>1, <2>1, <2>2, PickedMore
      <3>2. F[n][x] = Next(n, x)
        BY <2>2
      <3> HIDE DEF Next, F
      <3> QED
        BY <2>1, <3>1, <3>2
    <2>3. CASE ~(n + 1 <= l)
      BY <2>1, <2>3
    <2> QED
      BY <2>2, <2>3
  <1>4. \A n \in Nat : \A x \in T[n] : F[n][x] \in T[n + 1]
    BY <1>3
  <1>5. \A n \in Nat : \A x \in T[n] : n + 1 <= l => F[n][x] = Next(n, x)
    OBVIOUS
  <1>6. \A n \in Nat : T[n] = {t \in Seq(S) : n <= l => Picked(s, places, n, t)}
    OBVIOUS
  <1> HIDE DEF F, T
  <1>7. PICK f : /\ f = [n \in Nat |-> IF n = 0 THEN <<>> ELSE F[n - 1][f[n - 1]]]
                 /\ \A n \in Nat : f[n] \in T[n]
    BY <1>2, <1>4, Iteration
  <1> DEFINE g == [n \in 0..l |-> f[n]]
  <1>8. f[0] = <<>> /\ \A n \in Nat : n + 1 <= l => f[n + 1] = Next(n, f[n])
    <2>1. f[0] = <<>>
      BY <1>7
    <2>2. ASSUME NEW n \in Nat, n + 1 <= l PROVE f[n + 1] = Next(n, f[n])
      <3>1. n + 1 \in Nat /\ n + 1 # 0 /\ n + 1 - 1 = n
        OBVIOUS
      <3>2. f[n + 1] = F[n][f[n]] /\ f[n] \in T[n]
        BY <1>7, <3>1
      <3> HIDE DEF Next
      <3> QED
        BY <1>5, <2>2, <3>2
    <2> QED
      BY <2>1, <2>2
  <1>9. ASSUME NEW n \in 0..l
        PROVE  g[n] = IF n = 0 THEN <<>> ELSE IF n \in places THEN Append(g[n - 1], s[n]) ELSE g[n - 1]
    <2>1. CASE n = 0
      BY <1>1, <1>8, <2>1
    <2>2. CASE n # 0
      <3>1. n - 1 \in Nat /\ n - 1 \in 0..l /\ n - 1 + 1 = n /\ n - 1 + 1 <= l /\ n \in Nat
        BY <1>1, <2>2
      <3>2. f[n] = Next(n - 1, f[n - 1])
        BY <1>8, <3>1
      <3>3. g[n] = f[n] /\ g[n - 1] = f[n - 1]
        BY <3>1
      <3> HIDE DEF g
      <3> QED
        BY <2>2, <3>1, <3>2, <3>3
    <2> QED
      BY <2>1, <2>2
  <1>10. Is(g)
    BY <1>9, Zenon
  <1> DEFINE those == CHOOSE h : Is(h)
  <1>11. Is(those)
    BY <1>10
  <1>12. Those(s, places) = those[l]
    BY Zenon DEF Those
  <1> HIDE DEF those
  <1>15. \A n \in 0..l : those[n] = IF n = 0 THEN <<>>
                                    ELSE IF n \in places THEN Append(those[n - 1], s[n])
                                    ELSE those[n - 1]
    BY <1>11, Zenon
  <1>13. \A n \in Nat : n <= l => those[n] = f[n]
    <2> DEFINE U == {n \in Nat : n <= l => those[n] = f[n]}
    <2>1. 0 \in U
      BY <1>1, <1>8, <1>15
    <2>2. ASSUME NEW n \in Nat, n \in U PROVE n + 1 \in U
      <3> SUFFICES ASSUME n + 1 <= l PROVE those[n + 1] = f[n + 1]
        OBVIOUS
      <3>1. n + 1 \in 0..l /\ n + 1 # 0 /\ n + 1 - 1 = n /\ n <= l
        BY <1>1
      <3>2. those[n + 1] = IF n + 1 \in places THEN Append(those[n], s[n + 1]) ELSE those[n]
        BY <1>15, <3>1
      <3>3. those[n] = f[n]
        BY <2>2, <3>1
      <3> QED
        BY <1>8, <3>2, <3>3
    <2> HIDE DEF U
    <2>3. \A n \in Nat : n \in U
      BY <2>1, <2>2, Induction
    <2> QED
      BY <2>3 DEF U
  <1>14. those[l] = f[l] /\ f[l] \in T[l] /\ l <= l
    BY <1>1, <1>7, <1>13
  <1> QED
    BY <1>1, <1>6, <1>12, <1>14 DEF l

LEMMA ThoseIs ==
  ASSUME NEW S, NEW s \in Seq(S), NEW places, places \subseteq DOMAIN s
  PROVE  LET t == Those(s, places)
         IN  /\ t \in Seq(S)
             /\ \E at \in [DOMAIN t -> places] :
                  /\ \A k \in DOMAIN t : t[k] = s[at[k]]
                  /\ \A j, k \in DOMAIN t : j < k => at[j] < at[k]
                  /\ \A i \in places : \E k \in DOMAIN t : at[k] = i
  <1> DEFINE t == Those(s, places)
  <1>1. t \in Seq(S) /\ Picked(s, places, Len(s), t)
    BY ThosePicked
  <1>2. PICK at : PickedBy(s, places, Len(s), t, at)
    BY <1>1 DEF Picked
  <1> HIDE DEF t
  <1>3. DOMAIN t = 1..Len(t) /\ DOMAIN s = 1..Len(s)
    BY <1>1
  <1>4. at \in [1..Len(t) -> 1..Len(s)] /\ \A k \in 1..Len(t) : at[k] \in places /\ t[k] = s[at[k]]
    BY <1>2 DEF PickedBy
  <1>5. at \in [DOMAIN t -> places]
    BY <1>3, <1>4
  <1>6. /\ \A j, k \in DOMAIN t : j < k => at[j] < at[k]
        /\ \A i \in places : \E k \in DOMAIN t : at[k] = i
    BY <1>2, <1>3 DEF PickedBy
  <1> QED
    BY <1>1, <1>3, <1>4, <1>5, <1>6 DEF t

-----------------------------------------------------------------------------
(* The known fields of an entry, by their place in the schema.             *)

Rank(entry, key) ==
  SelectInSeq(Children(entry), LAMBDA c : Schema[c].name = key)

NameAt(entry, i) == Schema[Children(entry)[i]].name

LEMMA RankIs ==
  ASSUME NEW entry \in Entries
  PROVE  /\ Children(entry) \in Seq(DOMAIN Schema) /\ Len(Children(entry)) \in Nat
         /\ \A i \in DOMAIN Children(entry) :
              NameAt(entry, i) \in STRING /\ Rank(entry, NameAt(entry, i)) = i
         /\ \A key : /\ Rank(entry, key) \in 0..Len(Children(entry))
                     /\ Rank(entry, key) = 0 <=> ChildEntry(entry, key) = NoEntry
                     /\ Rank(entry, key) # 0 =>
                          /\ Rank(entry, key) \in DOMAIN Children(entry)
                          /\ NameAt(entry, Rank(entry, key)) = key
                          /\ ChildEntry(entry, key) = Children(entry)[Rank(entry, key)]
  <1> DEFINE cs == Children(entry)
             I(key) == {i \in 1..Len(cs) : NameAt(entry, i) = key}
  <1>1. cs \in Seq(DOMAIN Schema)
    <2>1. <<>> \in Seq(DOMAIN Schema)
      OBVIOUS
    <2>2. entry # NoEntry => Schema[entry].children \in Seq(DOMAIN Schema)
      BY SchemaAssumption DEF Entries
    <2> QED
      BY <2>1, <2>2 DEF Children
  <1>2. Len(cs) \in Nat /\ DOMAIN cs = 1..Len(cs) /\ \A i \in DOMAIN cs : cs[i] \in DOMAIN Schema
    BY <1>1
  <1>3. \A key : Rank(entry, key) = IF I(key) # {} THEN Min(I(key)) ELSE 0
    BY DEF Rank, SelectInSeq, NameAt
  <1>4. ASSUME NEW i \in DOMAIN cs, NEW j \in DOMAIN cs, NameAt(entry, i) = NameAt(entry, j)
        PROVE  i = j
    <2>1. entry # NoEntry
      <3>1. entry = NoEntry => cs = <<>>
        BY DEF Children
      <3>2. cs # <<>>
        BY <1>2
      <3> QED
        BY <3>1, <3>2
    <2>2. entry \in DOMAIN Schema /\ cs = Schema[entry].children
      BY <2>1 DEF Entries, Children
    <2> QED
      BY <1>4, <2>2, SchemaAssumption DEF NameAt
  <1>5. ASSUME NEW key, I(key) # {} PROVE Min(I(key)) \in I(key)
    <2> DEFINE T == I(key)
    <2>1. T \subseteq Nat /\ T # {}
      BY <1>5
    <2> HIDE DEF T
    <2>2. Min(T) \in T
      BY <2>1, MinIn
    <2> QED
      BY <2>2 DEF T
  <1>6. ASSUME NEW i \in DOMAIN cs
        PROVE  NameAt(entry, i) \in STRING /\ Rank(entry, NameAt(entry, i)) = i
    <2>1. NameAt(entry, i) \in STRING
      BY <1>2, SchemaAssumption DEF NameAt
    <2>2. i \in I(NameAt(entry, i))
      BY <1>2
    <2>3. Min(I(NameAt(entry, i))) \in I(NameAt(entry, i))
      BY <1>5, <2>2
    <2>4. Min(I(NameAt(entry, i))) = i
      BY <1>2, <1>4, <2>3
    <2> QED
      BY <1>3, <2>1, <2>2, <2>4
  <1>7. ASSUME NEW key
        PROVE  /\ Rank(entry, key) \in 0..Len(cs)
               /\ Rank(entry, key) = 0 <=> ChildEntry(entry, key) = NoEntry
               /\ Rank(entry, key) # 0 =>
                          /\ Rank(entry, key) \in DOMAIN cs
                          /\ NameAt(entry, Rank(entry, key)) = key
                          /\ ChildEntry(entry, key) = cs[Rank(entry, key)]
    <2>1. ChildEntry(entry, key) = IF Rank(entry, key) = 0 THEN NoEntry ELSE cs[Rank(entry, key)]
      BY DEF ChildEntry, Rank
    <2>2. CASE I(key) = {}
      <3>1. Rank(entry, key) = 0
        BY <1>3, <2>2
      <3>2. 0 \in 0..Len(cs)
        BY <1>2
      <3> QED
        BY <2>1, <3>1, <3>2
    <2>3. CASE I(key) # {}
      <3>1. Rank(entry, key) \in I(key)
        BY <1>3, <1>5, <2>3
      <3>2. /\ Rank(entry, key) \in 1..Len(cs) /\ NameAt(entry, Rank(entry, key)) = key
            /\ Rank(entry, key) # 0
        BY <3>1, <1>2
      <3>3. cs[Rank(entry, key)] \in DOMAIN Schema
        BY <1>2, <3>2
      <3> QED
        BY <1>2, <2>1, <3>2, <3>3, SchemaAssumption
    <2> QED
      BY <2>2, <2>3
  <1> QED
    BY <1>1, <1>2, <1>6, <1>7

-----------------------------------------------------------------------------
(* Known fields first.                                                     *)

\* As CanonicalOrder has it.
Ordered(fields, entry) ==
  \A i, j \in DOMAIN fields :
    i < j /\ Rank(entry, fields[j].key) > 0 =>
      Rank(entry, fields[i].key) \in 1..Rank(entry, fields[j].key) - 1

\* Each of the fields is `extra` or one of the others.
FieldsFrom(new, fields, extra) ==
  \A k \in DOMAIN new : new[k] = extra \/ \E i \in DOMAIN fields : new[k] = fields[i]

LEMMA NonVoidIs ==
  ASSUME NEW F, NEW fields \in Seq(F)
  PROVE  LET t == nonVoidObjectFields(fields)
         IN  /\ t \in Seq(F)
             /\ \E at \in [DOMAIN t -> DOMAIN fields] :
                  /\ \A k \in DOMAIN t : t[k] = fields[at[k]] /\ ~IsVoid(t[k].value)
                  /\ \A j, k \in DOMAIN t : j < k => at[j] < at[k]
                  /\ \A i \in DOMAIN fields :
                       ~IsVoid(fields[i].value) => \E k \in DOMAIN t : at[k] = i
  <1> DEFINE places == {i \in DOMAIN fields : ~IsVoid(fields[i].value)}
             t == nonVoidObjectFields(fields)
  <1>1. t = Those(fields, places)
    BY DEF nonVoidObjectFields
  <1>2. /\ places \subseteq DOMAIN fields
        /\ \A i : i \in places <=> i \in DOMAIN fields /\ ~IsVoid(fields[i].value)
    OBVIOUS
  <1> HIDE DEF places, t
  <1>3. /\ t \in Seq(F)
        /\ \E at \in [DOMAIN t -> places] :
                  /\ \A k \in DOMAIN t : t[k] = fields[at[k]]
                  /\ \A j, k \in DOMAIN t : j < k => at[j] < at[k]
                  /\ \A i \in places : \E k \in DOMAIN t : at[k] = i
    BY <1>1, <1>2, ThoseIs
  <1>4. PICK at \in [DOMAIN t -> places] :
                  /\ \A k \in DOMAIN t : t[k] = fields[at[k]]
                  /\ \A j, k \in DOMAIN t : j < k => at[j] < at[k]
                  /\ \A i \in places : \E k \in DOMAIN t : at[k] = i
    BY <1>3
  <1>5. at \in [DOMAIN t -> DOMAIN fields]
    BY <1>2
  <1>6. \A k \in DOMAIN t : ~IsVoid(t[k].value)
    BY <1>2, <1>4
  <1>7. \A i \in DOMAIN fields : ~IsVoid(fields[i].value) => \E k \in DOMAIN t : at[k] = i
    BY <1>2, <1>4
  <1> QED
    BY <1>3, <1>4, <1>5, <1>6, <1>7 DEF t

LEMMA KnownThenUnknown ==
  ASSUME NEW V, NEW entry \in Entries,
         NEW known \in Seq(FieldsOf(STRING, V)), DOMAIN known = DOMAIN Children(entry),
         \A i \in DOMAIN known : known[i].key = NameAt(entry, i),
         NEW source \in Seq(FieldsOf(STRING, V)), NEW unknown, unknown \subseteq DOMAIN source,
         \A i \in unknown : ChildEntry(entry, source[i].key) = NoEntry
  PROVE  LET t == nonVoidObjectFields(known) \o Those(source, unknown)
         IN  /\ t \in Seq(FieldsOf(STRING, V)) /\ Ordered(t, entry)
             /\ \A k \in DOMAIN t :
                  \/ \E i \in DOMAIN known : t[k] = known[i] /\ ~IsVoid(known[i].value)
                  \/ \E i \in unknown : t[k] = source[i]
             /\ Distinct(source) => Distinct(t)
  <1> DEFINE F == FieldsOf(STRING, V)
             a == nonVoidObjectFields(known)
             b == Those(source, unknown)
             t == a \o b
             R(key) == Rank(entry, key)
  <1>0. known \in Seq(F) /\ source \in Seq(F)
    OBVIOUS
  <1> HIDE DEF F
  <1>1. a \in Seq(F) /\ b \in Seq(F)
    BY <1>0, NonVoidIs, ThoseIs
  <1>2. PICK p \in [DOMAIN a -> DOMAIN known] :
          /\ \A k \in DOMAIN a : a[k] = known[p[k]] /\ ~IsVoid(a[k].value)
          /\ \A j, k \in DOMAIN a : j < k => p[j] < p[k]
    BY <1>0, NonVoidIs
  <1>3. PICK q \in [DOMAIN b -> unknown] :
          /\ \A k \in DOMAIN b : b[k] = source[q[k]]
          /\ \A j, k \in DOMAIN b : j < k => q[j] < q[k]
    BY <1>0, ThoseIs
  <1> HIDE DEF a, b
  <1>4. /\ Len(a) \in Nat /\ Len(b) \in Nat /\ DOMAIN a = 1..Len(a) /\ DOMAIN b = 1..Len(b)
        /\ DOMAIN source = 1..Len(source) /\ Len(source) \in Nat
    BY <1>0, <1>1
  <1>5. /\ t \in Seq(F) /\ DOMAIN t = 1..Len(a) + Len(b)
        /\ \A i \in 1..Len(a) + Len(b) : t[i] = IF i <= Len(a) THEN a[i] ELSE b[i - Len(a)]
    BY <1>1, Joined
  <1> HIDE DEF t
  <1>6. ASSUME NEW k \in DOMAIN a
        PROVE  R(a[k].key) = p[k] /\ p[k] \in DOMAIN known /\ p[k] \in Nat /\ p[k] > 0
    <2>1. p[k] \in DOMAIN Children(entry) /\ a[k].key = NameAt(entry, p[k])
      BY <1>2
    <2> QED
      BY <2>1, RankIs
  <1>7. ASSUME NEW k \in DOMAIN b PROVE R(b[k].key) = 0 /\ q[k] \in unknown
    <2>1. ChildEntry(entry, b[k].key) = NoEntry
      BY <1>3
    <2> QED
      BY <2>1, RankIs
  <1>8. ASSUME NEW k \in DOMAIN t
        PROVE  \/ k \in DOMAIN a /\ t[k] = a[k]
               \/ k - Len(a) \in DOMAIN b /\ t[k] = b[k - Len(a)] /\ k > Len(a)
    BY <1>4, <1>5
  <1>9. Ordered(t, entry)
    <2> SUFFICES ASSUME NEW i \in DOMAIN t, NEW j \in DOMAIN t, i < j, R(t[j].key) > 0
                 PROVE  R(t[i].key) \in 1..R(t[j].key) - 1
      BY DEF Ordered
    <2>1. j \in DOMAIN a /\ t[j] = a[j]
      BY <1>7, <1>8
    <2>2. i \in DOMAIN a /\ t[i] = a[i]
      BY <1>4, <1>5, <2>1
    <2>3. p[i] < p[j]
      BY <1>2, <2>1, <2>2
    <2>4. /\ R(a[i].key) = p[i] /\ p[i] \in Nat /\ p[i] > 0
          /\ R(a[j].key) = p[j] /\ p[j] \in Nat
      BY <1>6, <2>1, <2>2
    <2> HIDE DEF R
    <2> QED
      BY <2>1, <2>2, <2>3, <2>4
  <1>10. ASSUME NEW k \in DOMAIN t
         PROVE  \/ \E i \in DOMAIN known : t[k] = known[i] /\ ~IsVoid(known[i].value)
                \/ \E i \in unknown : t[k] = source[i]
    <2>1. CASE k \in DOMAIN a /\ t[k] = a[k]
      <3>1. p[k] \in DOMAIN known /\ t[k] = known[p[k]] /\ ~IsVoid(t[k].value)
        BY <1>2, <2>1
      <3> QED
        BY <3>1
    <2>2. CASE k - Len(a) \in DOMAIN b /\ t[k] = b[k - Len(a)]
      <3>1. q[k - Len(a)] \in unknown /\ t[k] = source[q[k - Len(a)]]
        BY <1>3, <2>2
      <3> QED
        BY <3>1
    <2> QED
      BY <1>8, <2>1, <2>2
  <1>11. ASSUME Distinct(source) PROVE Distinct(t)
    <2> SUFFICES ASSUME NEW i \in DOMAIN t, NEW j \in DOMAIN t, t[i].key = t[j].key, i < j
                 PROVE  FALSE
      <3>1. \A i \in DOMAIN t : i \in Nat
        BY <1>4, <1>5
      <3>2. \A i, j \in DOMAIN t : i < j \/ j < i \/ i = j
        BY <3>1
      <3> QED
        BY <3>2 DEF Distinct
    <2>1. CASE j \in DOMAIN a /\ t[j] = a[j]
      <3>1. i \in DOMAIN a /\ t[i] = a[i]
        BY <1>4, <1>5, <2>1
      <3>2. R(a[i].key) = p[i] /\ R(a[j].key) = p[j] /\ p[i] < p[j] /\ p[i] \in Nat /\ p[j] \in Nat
        BY <1>2, <1>6, <2>1, <3>1
      <3>3. a[i].key = a[j].key
        BY <2>1, <3>1
      <3> HIDE DEF R
      <3> QED
        BY <3>2, <3>3
    <2>2. CASE j - Len(a) \in DOMAIN b /\ t[j] = b[j - Len(a)]
      <3>1. R(t[j].key) = 0
        BY <1>7, <2>2
      <3>2. R(t[i].key) = 0
        BY <3>1
      <3>3. i - Len(a) \in DOMAIN b /\ t[i] = b[i - Len(a)]
        BY <1>6, <1>8, <3>2
      <3>4. q[i - Len(a)] < q[j - Len(a)]
        <4>1. i - Len(a) < j - Len(a)
          BY <1>4, <1>5
        <4> QED
          BY <1>3, <2>2, <3>3, <4>1
      <3>5. q[i - Len(a)] \in unknown /\ q[j - Len(a)] \in unknown
        BY <1>3, <2>2, <3>3
      <3>6. source[q[i - Len(a)]].key = source[q[j - Len(a)]].key
        BY <1>3, <2>2, <3>3
      <3>7. q[i - Len(a)] = q[j - Len(a)]
        BY <1>11, <3>5, <3>6 DEF Distinct
      <3>8. q[j - Len(a)] \in Nat
        BY <1>4, <3>5
      <3> QED
        BY <3>4, <3>7, <3>8
    <2> QED
      BY <1>8, <2>1, <2>2
  <1> QED
    BY <1>5, <1>9, <1>10, <1>11 DEF t, a, b, F

LEMMA NonVoidKept ==
  ASSUME NEW F, NEW fields \in Seq(F), NEW t, t = nonVoidObjectFields(fields),
         NEW i \in DOMAIN fields, ~IsVoid(fields[i].value)
  PROVE  \E k \in DOMAIN t : t[k] = fields[i]
  <1> DEFINE places == {j \in DOMAIN fields : ~IsVoid(fields[j].value)}
  <1>1. t = Those(fields, places)
    BY DEF nonVoidObjectFields
  <1>2. i \in places /\ i \in 1..Len(fields)
    OBVIOUS
  <1> HIDE DEF places
  <1>3. t \in Seq(F) /\ Picked(fields, places, Len(fields), t)
    BY <1>1, ThosePicked
  <1>4. PICK at : PickedBy(fields, places, Len(fields), t, at)
    BY <1>3 DEF Picked
  <1>5. PICK k \in 1..Len(t) : at[k] = i /\ t[k] = fields[at[k]]
    BY <1>2, <1>4 DEF PickedBy
  <1>6. k \in DOMAIN t
    BY <1>3, <1>5
  <1> QED
    BY <1>5, <1>6

\* The known fields there are, before the unknown ones of `source`.
Together(known, source, unknown) == nonVoidObjectFields(known) \o Those(source, unknown)

LEMMA KnownKept ==
  ASSUME NEW F, NEW known \in Seq(F), NEW source \in Seq(F),
         NEW unknown, unknown \subseteq DOMAIN source,
         NEW i \in DOMAIN known, ~IsVoid(known[i].value)
  PROVE  \E k \in DOMAIN Together(known, source, unknown) :
           Together(known, source, unknown)[k] = known[i]
  <1> DEFINE a == nonVoidObjectFields(known)
             b == Those(source, unknown)
             t == Together(known, source, unknown)
  <1>1. a \in Seq(F) /\ b \in Seq(F)
    BY NonVoidIs, ThoseIs
  <1>2. PICK k \in DOMAIN a : a[k] = known[i]
    BY NonVoidKept
  <1>3. t = a \o b
    BY DEF Together
  <1> HIDE DEF a, b, t
  <1>4. /\ Len(a) \in Nat /\ Len(b) \in Nat /\ DOMAIN a = 1..Len(a)
        /\ DOMAIN t = 1..Len(a) + Len(b)
        /\ \A m \in 1..Len(a) + Len(b) : t[m] = IF m <= Len(a) THEN a[m] ELSE b[m - Len(a)]
    BY <1>1, <1>3, Joined
  <1>5. k \in DOMAIN t /\ t[k] = a[k]
    BY <1>2, <1>4
  <1> QED
    BY <1>2, <1>5 DEF t

LEMMA FieldFound ==
  ASSUME NEW V, NEW fields \in Seq(FieldsOf(STRING, V)), NEW key, FieldIndex(fields, key) # 0
  PROVE  LET i == FieldIndex(fields, key)
         IN  i \in DOMAIN fields /\ fields[i].key = key
  <1> DEFINE i == FieldIndex(fields, key)
             I == {n \in 1..Len(fields) : fields[n].key = key}
  <1>1. i = IF I # {} THEN Min(I) ELSE 0
    BY DEF FieldIndex, SelectInSeq
  <1>2. I # {} => Min(I) \in I
    <2>1. I \subseteq Nat
      OBVIOUS
    <2> HIDE DEF I
    <2> QED
      BY <2>1, MinIn
  <1>3. i \in I
    BY <1>1, <1>2
  <1> QED
    BY <1>3

LEMMA GetFieldFrom ==
  ASSUME NEW V, NEW fields \in Seq(FieldsOf(STRING, V)), NEW key \in STRING,
         ~IsVoid(GetField(fields, key))
  PROVE  \E i \in DOMAIN fields : Field(key, GetField(fields, key)) = fields[i]
  <1> DEFINE i == FieldIndex(fields, key)
  <1>2. i # 0
    BY VoidLinks DEF GetField
  <1>4. i \in DOMAIN fields /\ fields[i].key = key
    BY <1>2, FieldFound
  <1>5. GetField(fields, key) = fields[i].value
    BY <1>2 DEF GetField
  <1>6. \A f \in FieldsOf(STRING, V) : Field(f.key, f.value) = f
    BY DEF FieldsOf, Field
  <1>7. fields[i] \in FieldsOf(STRING, V)
    BY <1>4
  <1> HIDE DEF i
  <1>8. Field(key, GetField(fields, key)) = fields[i]
    BY <1>4, <1>5, <1>6, <1>7
  <1> QED
    BY <1>4, <1>8

\* reorderObjectFieldsBySchema loses none but void fields and adds none.
LEMMA ReorderIs ==
  ASSUME NEW V, Void \in V, NEW fields \in Seq(FieldsOf(STRING, V)), NEW entry \in Entries,
         NEW extra
  PROVE  LET t == reorderObjectFieldsBySchema(fields, entry)
         IN  /\ t \in Seq(FieldsOf(STRING, V)) /\ Ordered(t, entry)
             /\ FieldsFrom(t, fields, extra)
             /\ Distinct(fields) => Distinct(t)
  <1> DEFINE t == reorderObjectFieldsBySchema(fields, entry)
             cs == Children(entry)
             F == FieldsOf(STRING, V)
             Name(i) == NameAt(entry, i)
             source == nonVoidObjectFields(fields)
             ordered == [i \in DOMAIN cs |-> Field(Name(i), GetField(source, Name(i)))]
             unknown == {i \in DOMAIN source : ~Known(entry, source[i].key)}
  <1>1. CASE entry = NoEntry \/ Schema[entry].kind # "object"
    <2>1. t = fields
      BY <1>1 DEF reorderObjectFieldsBySchema
    <2>2. cs = <<>>
      <3>1. entry # NoEntry => Schema[entry].children = <<>>
        BY <1>1, SchemaAssumption DEF Entries
      <3> QED
        BY <3>1 DEF Children
    <2>3. DOMAIN cs = {} /\ Len(cs) = 0
      BY <2>2
    <2>4. \A key : Rank(entry, key) = 0
      BY <2>3, RankIs
    <2> HIDE DEF t
    <2>5. Ordered(fields, entry)
      BY <2>4 DEF Ordered
    <2> QED
      BY <2>1, <2>5 DEF FieldsFrom, t
  <1>2. CASE ~(entry = NoEntry \/ Schema[entry].kind # "object")
    <2>1. t = nonVoidObjectFields(ordered) \o Those(source, unknown)
      BY <1>2, Zenon DEF reorderObjectFieldsBySchema, NameAt
    <2> HIDE DEF t
    <2>2. source \in Seq(F)
      <3>1. fields \in Seq(F)
        OBVIOUS
      <3> HIDE DEF F, source
      <3> QED
        BY <3>1, NonVoidIs DEF source
    <2>3. PICK at \in [DOMAIN source -> DOMAIN fields] :
             /\ \A k \in DOMAIN source : source[k] = fields[at[k]]
             /\ \A j, k \in DOMAIN source : j < k => at[j] < at[k]
      <3>1. fields \in Seq(F)
        OBVIOUS
      <3> HIDE DEF F
      <3> QED
        BY <3>1, NonVoidIs
    <2> HIDE DEF source
    <2>4. cs \in Seq(DOMAIN Schema) /\ Len(cs) \in Nat /\ DOMAIN cs = 1..Len(cs)
      BY RankIs
    <2>5. ASSUME NEW i \in DOMAIN cs PROVE ordered[i] \in F /\ Name(i) \in STRING
      <3>1. Name(i) \in STRING
        BY RankIs
      <3>2. GetField(source, Name(i)) \in V
        BY <2>2, GetFieldIn
      <3> QED
        BY <3>1, <3>2 DEF Field, FieldsOf
    <2>6. ordered \in Seq(F) /\ DOMAIN ordered = DOMAIN cs
      <3>1. ordered \in [1..Len(cs) -> F]
        BY <2>4, <2>5
      <3> HIDE DEF ordered, F, cs
      <3> QED
        BY <2>4, <3>1, SequenceOf
    <2>7. \A i \in DOMAIN ordered : ordered[i].key = Name(i) /\ ordered[i].value = GetField(source, Name(i))
      BY DEF Field
    <2>8. \A i \in DOMAIN ordered : ordered[i] = Field(Name(i), GetField(source, Name(i)))
      OBVIOUS
    <2>9. /\ unknown \subseteq DOMAIN source
          /\ \A i \in unknown : ChildEntry(entry, source[i].key) = NoEntry
      BY DEF Known
    <2> HIDE DEF ordered, unknown
    <2>10. /\ t \in Seq(F) /\ Ordered(t, entry)
           /\ \A k \in DOMAIN t :
                \/ \E i \in DOMAIN ordered : t[k] = ordered[i] /\ ~IsVoid(ordered[i].value)
                \/ \E i \in unknown : t[k] = source[i]
           /\ Distinct(source) => Distinct(t)
      <3> DEFINE u == nonVoidObjectFields(ordered) \o Those(source, unknown)
      <3>1. DOMAIN ordered = DOMAIN Children(entry)
        BY <2>6
      <3>2. \A i \in DOMAIN ordered : ordered[i].key = NameAt(entry, i)
        BY <2>7
      <3>3. /\ u \in Seq(FieldsOf(STRING, V)) /\ Ordered(u, entry)
            /\ \A k \in DOMAIN u :
                 \/ \E i \in DOMAIN ordered : u[k] = ordered[i] /\ ~IsVoid(ordered[i].value)
                 \/ \E i \in unknown : u[k] = source[i]
            /\ Distinct(source) => Distinct(u)
        BY <2>2, <2>6, <2>9, <3>1, <3>2, KnownThenUnknown
      <3> HIDE DEF u
      <3> QED
        BY <2>1, <3>3 DEF u
    <2>11. ASSUME NEW k \in DOMAIN t PROVE \E i \in DOMAIN fields : t[k] = fields[i]
      <3>1. \E j \in DOMAIN source : t[k] = source[j]
        <4>1. CASE \E i \in DOMAIN ordered : t[k] = ordered[i] /\ ~IsVoid(ordered[i].value)
          <5>1. PICK i \in DOMAIN ordered : t[k] = ordered[i] /\ ~IsVoid(ordered[i].value)
            BY <4>1
          <5>2. ~IsVoid(GetField(source, Name(i))) /\ Name(i) \in STRING
            BY <2>5, <2>6, <2>7, <5>1
          <5>3. \E j \in DOMAIN source : Field(Name(i), GetField(source, Name(i))) = source[j]
            BY <2>2, <5>2, GetFieldFrom
          <5> QED
            BY <2>8, <5>1, <5>3
        <4>2. CASE \E i \in unknown : t[k] = source[i]
          BY <2>9, <4>2
        <4> QED
          BY <2>10, <4>1, <4>2
      <3> QED
        BY <2>3, <3>1
    <2>12. Distinct(fields) => Distinct(source)
      <3> SUFFICES ASSUME Distinct(fields), NEW i \in DOMAIN source, NEW j \in DOMAIN source,
                          source[i].key = source[j].key, i < j
                   PROVE  FALSE
        <4>1. \A i, j \in DOMAIN source : i < j \/ j < i \/ i = j
          <5>1. DOMAIN source \subseteq Nat
            BY <2>2
          <5> QED
            BY <5>1
        <4> QED
          BY <4>1 DEF Distinct
      <3>1. at[i] \in DOMAIN fields /\ at[j] \in DOMAIN fields /\ at[i] < at[j]
        BY <2>3
      <3>2. at[i] = at[j]
        BY <2>3, <3>1 DEF Distinct
      <3>3. at[i] \in Nat
        BY <3>1
      <3> QED
        BY <3>1, <3>2, <3>3
    <2> QED
      BY <2>10, <2>11, <2>12 DEF FieldsFrom, t
  <1> QED
    BY <1>1, <1>2

-----------------------------------------------------------------------------
(* Trees whose known fields are in order all the way down.                 *)

Hereditary(places) ==
  \A p \in places :
    /\ p.tree.kind = "object" => Ordered(p.tree.fields, p.entry)
    /\ \A i \in ContainersIn(p.tree) : PartAt(p, i) \in places

Orderly == UNION {places \in SUBSET TreePlaces : Hereditary(places)}

InOrder(tree, entry) == IsContainer(tree) => [tree |-> tree, entry |-> entry] \in Orderly

LEMMA OrderlyIs == Orderly \subseteq TreePlaces /\ Hereditary(Orderly)
  <1>1. ASSUME NEW p \in Orderly
        PROVE  /\ p \in TreePlaces
               /\ p.tree.kind = "object" => Ordered(p.tree.fields, p.entry)
               /\ \A i \in ContainersIn(p.tree) : PartAt(p, i) \in Orderly
    <2>1. PICK places \in SUBSET TreePlaces : Hereditary(places) /\ p \in places
      BY DEF Orderly
    <2>2. places \subseteq Orderly
      BY <2>1 DEF Orderly
    <2>3. /\ p.tree.kind = "object" => Ordered(p.tree.fields, p.entry)
          /\ \A i \in ContainersIn(p.tree) : PartAt(p, i) \in places
      BY <2>1, Zenon DEF Hereditary
    <2> QED
      BY <2>1, <2>2, <2>3
  <1>2. Orderly \subseteq TreePlaces
    BY <1>1
  <1>3. Hereditary(Orderly)
    BY <1>1, Zenon DEF Hereditary
  <1> QED
    BY <1>2, <1>3

LEMMA OrderedKeys ==
  ASSUME NEW fields, NEW others, DOMAIN fields = DOMAIN others,
         \A i \in DOMAIN fields : fields[i].key = others[i].key,
         NEW entry, Ordered(others, entry)
  PROVE  Ordered(fields, entry)
  BY DEF Ordered

\* Where no entry governs, nothing is out of order.
LEMMA NoEntryInOrder ==
  ASSUME NEW tree \in UNION {Nested[n] : n \in Nat}
  PROVE  InOrder(tree, NoEntry)
  <1> DEFINE P == {p \in TreePlaces : p.entry = NoEntry /\ IsContainer(p.tree)}
  <1>1. ASSUME NEW p \in P, NEW i \in ContainersIn(p.tree) PROVE PartAt(p, i) \in P
    <2>1. PICK n \in Nat : p.tree \in Nested[n]
      BY DEF TreePlaces
    <2>2. PlaceOK(p, NoEntry, n)
      BY <2>1 DEF PlaceOK
    <2>3. n # 0 /\ PartAt(p, i) \in TreePlaces /\ PlaceOK(PartAt(p, i), NoEntry, n - 1)
      BY <2>2, EntriesBelow, PartPlace
    <2> QED
      BY <2>3 DEF PlaceOK
  <1>2. \A fields : Ordered(fields, NoEntry)
    <2>1. \A key : Rank(NoEntry, key) = 0
      BY EntriesBelow, RankIs
    <2> QED
      BY <2>1 DEF Ordered
  <1>3. Hereditary(P)
    BY <1>1, <1>2 DEF Hereditary
  <1>4. P \in SUBSET TreePlaces
    OBVIOUS
  <1>5. IsContainer(tree) => [tree |-> tree, entry |-> NoEntry] \in P
    BY EntriesBelow DEF TreePlaces
  <1> HIDE DEF P
  <1> QED
    BY <1>3, <1>4, <1>5 DEF InOrder, Orderly

\* A tree is in order when its own fields are and all its parts are.
LEMMA InOrderAround ==
  ASSUME NEW tree \in UNION {Nested[n] : n \in Nat}, NEW entry \in Entries,
         tree.kind = "object" => Ordered(tree.fields, entry),
         \A i \in ContainersIn(tree) : InOrder(Parts(tree)[i], PartEntry(tree, i, entry))
  PROVE  InOrder(tree, entry)
  <1> SUFFICES ASSUME IsContainer(tree) PROVE [tree |-> tree, entry |-> entry] \in Orderly
    BY DEF InOrder
  <1> DEFINE top == [tree |-> tree, entry |-> entry]
             P == Orderly \cup {top}
  <1>1. top \in TreePlaces /\ top.tree = tree /\ top.entry = entry
    BY DEF TreePlaces
  <1>2. Orderly \subseteq TreePlaces /\ Hereditary(Orderly)
    BY OrderlyIs
  <1> HIDE DEF top
  <1>3. \A i \in ContainersIn(tree) : PartAt(top, i) \in Orderly
    <2> SUFFICES ASSUME NEW i \in ContainersIn(tree) PROVE PartAt(top, i) \in Orderly
      OBVIOUS
    <2>1. PartAt(top, i) = [tree |-> Parts(tree)[i], entry |-> PartEntry(tree, i, entry)]
      BY <1>1 DEF PartAt
    <2>2. IsContainer(Parts(tree)[i])
      BY DEF ContainersIn
    <2> QED
      BY <2>1, <2>2 DEF InOrder
  <1>4. ASSUME NEW p \in P
        PROVE  /\ p.tree.kind = "object" => Ordered(p.tree.fields, p.entry)
               /\ \A i \in ContainersIn(p.tree) : PartAt(p, i) \in P
    <2>1. CASE p = top
      BY <1>1, <1>3, <2>1
    <2>2. CASE p \in Orderly
      BY <1>2, <2>2 DEF Hereditary
    <2> QED
      BY <2>1, <2>2
  <1>5. Hereditary(P) /\ P \in SUBSET TreePlaces
    BY <1>1, <1>2, <1>4 DEF Hereditary
  <1>6. top \in P
    OBVIOUS
  <1> HIDE DEF P
  <1>7. top \in Orderly
    BY <1>5, <1>6 DEF Orderly
  <1> QED
    BY <1>7 DEF top

\* The nodes of a tree in order are in order.
LEMMA StoredInOrder ==
  ASSUME NEW h, HeapOK(h), NEW tree \in Trees,
         NEW attached \in BOOLEAN, NEW entry \in Entries, InOrder(tree, entry)
  PROVE  LET new == Store(h, tree, attached, entry).heap
         IN  \A r \in DOMAIN new \ DOMAIN h :
               /\ new[r].kind = "object" => Ordered(new[r].fields, new[r].entry)
               /\ \A i \in DOMAIN Parts(new[r]) :
                    IsRef(Parts(new[r])[i]) =>
                      new[Parts(new[r])[i].ref].entry = PartEntry(new[r], i, new[r].entry)
  <1> DEFINE new == Store(h, tree, attached, entry).heap
             slot == Store(h, tree, attached, entry).slot
             N == DOMAIN new \ DOMAIN h
  <1>1. StoredIn(h, new, slot, tree, attached, entry)
    BY Stored
  <1>2. PICK places : /\ DOMAIN places = N /\ Shows(new, places)
                      /\ IsContainer(tree) => places[slot.ref] = [tree |-> tree, entry |-> entry]
    BY StoredShows
  <1> HIDE DEF new, slot
  <1>3. CASE ~IsContainer(tree)
    <2>1. new = h
      BY <1>1, <1>3 DEF StoredIn
    <2> QED
      BY <2>1 DEF new
  <1>4. CASE IsContainer(tree)
    <2> DEFINE G == {r \in N : places[r] \in Orderly}
    <2>1. /\ HeapOK(new) /\ Closed(new, N) /\ N \subseteq Own(new, slot)
          /\ slot \in Links(N) /\ IsRef(slot) /\ slot \in Links(DOMAIN new)
      <3>1. /\ HeapOK(new) /\ Closed(new, N) /\ N \subseteq Reach(new, {slot})
            /\ slot \in Links(N) /\ IsRef(slot)
        BY <1>1, <1>4 DEF StoredIn, Added
      <3>2. N \subseteq DOMAIN new
        OBVIOUS
      <3> HIDE DEF N
      <3> QED
        BY <3>1, <3>2, LinksWithin DEF Own
    <2>2. \A r \in N : NodeShows(new, r, places)
      BY <1>2 DEF Shows
    <2>3. \A r \in N : new[r] \in NodesWith(Links(DOMAIN new))
      BY <2>1 DEF HeapOK
    <2>4. ASSUME NEW r \in N, NEW i \in DOMAIN Parts(new[r]), IsRef(Parts(new[r])[i])
          PROVE  /\ i \in ContainersIn(places[r].tree) /\ Parts(new[r])[i].ref \in N
                 /\ places[Parts(new[r])[i].ref] = PartAt(places[r], i)
      <3>1. /\ DOMAIN Parts(new[r]) = DOMAIN Parts(places[r].tree)
            /\ IsContainer(places[r].tree)
            /\ ~IsContainer(Parts(places[r].tree)[i]) => Parts(new[r])[i] = Parts(places[r].tree)[i]
            /\ IsContainer(Parts(places[r].tree)[i]) =>
                /\ Parts(new[r])[i].ref \in DOMAIN places
                /\ places[Parts(new[r])[i].ref] = PartAt(places[r], i)
        BY <2>2 DEF NodeShows
      <3>2. ~IsRef(Parts(places[r].tree)[i])
        <4>1. places[r] \in TreePlaces
          BY <1>2 DEF Shows
        <4>2. PICK n \in Nat : places[r].tree \in Nested[n]
          BY <4>1 DEF TreePlaces
        <4>3. n # 0 /\ n - 1 \in Nat /\ Parts(places[r].tree)[i] \in Nested[n - 1]
          BY <3>1, <4>2, PartsNest
        <4> QED
          BY <4>3, TreeShape
      <3>3. IsContainer(Parts(places[r].tree)[i])
        BY <2>4, <3>1, <3>2
      <3> QED
        BY <1>2, <3>1, <3>3 DEF ContainersIn
    <2>5. Closed(new, G)
      <3> SUFFICES ASSUME NEW r \in G, NEW q \in RefsIn(Slots(new[r])) PROVE q \in G
        BY DEF Closed
      <3>1. PICK s \in Slots(new[r]) : IsRef(s) /\ q = s.ref
        BY DEF RefsIn
      <3>2. PICK i \in DOMAIN Parts(new[r]) : s = Parts(new[r])[i]
        BY DEF Slots, Range
      <3>3. q \in N /\ places[q] = PartAt(places[r], i) /\ i \in ContainersIn(places[r].tree)
        BY <2>4, <3>1, <3>2
      <3>4. PartAt(places[r], i) \in Orderly
        BY <3>3, OrderlyIs DEF Hereditary
      <3> QED
        BY <3>3, <3>4
    <2>6. slot \in Links(G)
      <3>1. slot.ref \in N /\ slot = Ref(slot.ref)
        BY <2>1, LinkOrScalar
      <3>2. places[slot.ref] \in Orderly
        BY <1>2, <1>4 DEF InOrder
      <3> QED
        BY <3>1, <3>2 DEF Links
    <2>7. N \subseteq G
      <3>1. G \in SUBSET DOMAIN new
        OBVIOUS
      <3> HIDE DEF G, N
      <3> QED
        BY <2>1, <2>5, <2>6, <3>1, OwnIs
    <2>8. ASSUME NEW r \in N, new[r].kind = "object" PROVE Ordered(new[r].fields, new[r].entry)
      <3>1. /\ places[r].tree.kind = "object" /\ new[r].entry = places[r].entry
            /\ DOMAIN Parts(new[r]) = DOMAIN Parts(places[r].tree)
            /\ \A i \in DOMAIN Parts(new[r]) : new[r].fields[i].key = places[r].tree.fields[i].key
        BY <2>2, <2>8 DEF NodeShows
      <3>2. DOMAIN Parts(new[r]) = DOMAIN new[r].fields
        BY <2>3, <2>8, NodeShape
      <3>3. DOMAIN Parts(places[r].tree) = DOMAIN places[r].tree.fields
        BY <3>1 DEF Parts
      <3>4. Ordered(places[r].tree.fields, places[r].entry)
        BY <2>7, <3>1, OrderlyIs DEF Hereditary
      <3> DEFINE f == new[r].fields
                 o == places[r].tree.fields
      <3>5. DOMAIN f = DOMAIN o
        BY <3>1, <3>2, <3>3
      <3>6. \A i \in DOMAIN f : f[i].key = o[i].key
        BY <3>1, <3>2
      <3>7. Ordered(o, new[r].entry)
        BY <3>1, <3>4
      <3> HIDE DEF f, o
      <3>8. Ordered(f, new[r].entry)
        BY <3>5, <3>6, <3>7, OrderedKeys
      <3> QED
        BY <3>8 DEF f
    <2>9. ASSUME NEW r \in N, NEW i \in DOMAIN Parts(new[r]), IsRef(Parts(new[r])[i])
          PROVE  new[Parts(new[r])[i].ref].entry = PartEntry(new[r], i, new[r].entry)
      <3>1. /\ Parts(new[r])[i].ref \in N
            /\ places[Parts(new[r])[i].ref] = PartAt(places[r], i)
        BY <2>4, <2>9
      <3>2. new[Parts(new[r])[i].ref].entry = PartEntry(places[r].tree, i, places[r].entry)
        BY <2>2, <3>1 DEF NodeShows, PartAt
      <3>3. /\ new[r].kind = places[r].tree.kind /\ new[r].entry = places[r].entry
            /\ new[r].kind = "object" => new[r].fields[i].key = places[r].tree.fields[i].key
        BY <2>2 DEF NodeShows
      <3>4. new[r].kind = "object" \/ new[r].kind = "array"
        BY <2>3, NodeShape
      <3> QED
        BY <3>2, <3>3, <3>4 DEF PartEntry
    <2> QED
      BY <2>8, <2>9 DEF new
  <1> QED
    BY <1>3, <1>4

-----------------------------------------------------------------------------
(* normalizeValueForSchema.                                                *)

\* One level of it.
Normalization(levels, nested) ==
  [entry \in Entries |->
     [value \in Trees |->
        IF entry = NoEntry THEN Normal(value)
        ELSE IF levels = 0 THEN Failure
        ELSE normalizeGoverned(value, Schema[entry], nested)]]

\* What the recursive definition of normalized says.
LEMMA NormalizedIs ==
  ASSUME NEW n \in Nat
  PROVE  normalized[n] = Normalization(n, normalized[n - 1])
  <1> DEFINE Begins(g, m) == /\ g[0] = Normalization(0, g[0 - 1])
                             /\ \A i \in 1..m : g[i] = Normalization(i, g[i - 1])
             T == {m \in Nat : \E g : Begins(g, m)}
             b == [m \in Nat |-> CHOOSE g : Begins(g, m)]
             f == [m \in Nat |-> b[m][m]]
  <1>0. \A x, y : Normalization(0, x) = Normalization(0, y)
    BY DEF Normalization
  <1>1. \A m \in Nat : m \in T
    <2>1. 0 \in T
      <3> DEFINE g == [i \in {0} |-> Normalization(0, Void)]
      <3>1. g[0] = Normalization(0, g[0 - 1])
        BY <1>0, Zenon
      <3>2. Begins(g, 0)
        BY <3>1
      <3> QED
        BY <3>2
    <2>2. ASSUME NEW m \in Nat, m \in T PROVE m + 1 \in T
      <3>1. PICK g : Begins(g, m)
        BY <2>2
      <3> DEFINE h == [i \in 0..m + 1 |-> IF i = m + 1 THEN Normalization(m + 1, g[m]) ELSE g[i]]
      <3>2. h[0] = Normalization(0, h[0 - 1])
        <4>1. h[0] = g[0]
          OBVIOUS
        <4> HIDE DEF h
        <4> QED
          BY <1>0, <3>1, <4>1, Zenon
      <3>3. ASSUME NEW i \in 1..m + 1 PROVE h[i] = Normalization(i, h[i - 1])
        <4>1. i - 1 \in 0..m + 1 /\ i - 1 # m + 1 /\ m + 1 - 1 = m
          OBVIOUS
        <4>2. h[i - 1] = g[i - 1]
          BY <4>1
        <4>3. CASE i = m + 1
          BY <4>1, <4>2, <4>3
        <4>4. CASE i # m + 1
          <5>1. i \in 1..m /\ h[i] = g[i]
            BY <4>4
          <5> QED
            BY <3>1, <4>2, <5>1
        <4> QED
          BY <4>3, <4>4
      <3> HIDE DEF h
      <3>4. Begins(h, m + 1)
        BY <3>2, <3>3
      <3> QED
        BY <3>4
    <2> HIDE DEF T
    <2> QED
      BY <2>1, <2>2, Induction
  <1>2. ASSUME NEW m \in Nat PROVE Begins(b[m], m)
    BY <1>1
  <1>3. ASSUME NEW m \in Nat, NEW k \in Nat, m <= k PROVE b[m][m] = b[k][m]
    <2> DEFINE U == {i \in Nat : i <= m => b[m][i] = b[k][i]}
    <2>1. 0 \in U
      BY <1>0, <1>2
    <2>2. ASSUME NEW i \in Nat, i \in U PROVE i + 1 \in U
      <3> SUFFICES ASSUME i + 1 <= m PROVE b[m][i + 1] = b[k][i + 1]
        OBVIOUS
      <3> HIDE DEF b
      <3>1. i + 1 \in 1..m /\ i + 1 \in 1..k /\ i + 1 - 1 = i
        BY <1>3
      <3>2. b[m][i + 1] = Normalization(i + 1, b[m][i]) /\ b[k][i + 1] = Normalization(i + 1, b[k][i])
        BY <1>2, <3>1
      <3> QED
        BY <2>2, <3>1, <3>2
    <2> HIDE DEF U
    <2>3. m \in U
      BY <2>1, <2>2, Induction
    <2> QED
      BY <2>3 DEF U
  <1> HIDE DEF b
  <1>4. ASSUME NEW m \in Nat
        PROVE  f[m] = Normalization(m, f[m - 1])
    <2>1. CASE m = 0
      BY <1>0, <1>2, <2>1
    <2>2. CASE m # 0
      <3>1. m - 1 \in Nat /\ m \in 1..m /\ m - 1 <= m
        BY <2>2
      <3>2. b[m - 1][m - 1] = b[m][m - 1]
        BY <1>3, <3>1
      <3> QED
        BY <1>2, <2>2, <3>1, <3>2
    <2> QED
      BY <2>1, <2>2
  <1>5. f = [m \in Nat |-> Normalization(m, f[m - 1])]
    BY <1>4
  <1> HIDE DEF f
  <1>6. normalized = [m \in Nat |-> Normalization(m, normalized[m - 1])]
    BY <1>5, Zenon DEF normalized, Normalization, Entries
  <1> QED
    BY <1>6

LEMMA NormalizedAt ==
  ASSUME NEW n \in Nat, NEW value \in Trees, NEW entry \in Entries
  PROVE  /\ normalized[0][entry][value] = IF entry = NoEntry THEN Normal(value) ELSE Failure
         /\ normalized[n + 1][entry][value] =
              IF entry = NoEntry THEN Normal(value)
              ELSE normalizeGoverned(value, Schema[entry], normalized[n])
  <1>1. n + 1 \in Nat /\ n + 1 # 0 /\ n + 1 - 1 = n
    OBVIOUS
  <1>2. normalized[n + 1] = Normalization(n + 1, normalized[n])
    BY <1>1, NormalizedIs
  <1>3. normalized[0] = Normalization(0, normalized[0 - 1])
    BY NormalizedIs
  <1> QED
    BY <1>1, <1>2, <1>3 DEF Normalization

\* A nested part of a tree is a tree.
LEMMA PartsAreTrees ==
  ASSUME NEW tree \in Trees, IsContainer(tree)
  PROVE  /\ Parts(tree) \in Seq(Trees)
         /\ tree.kind = "object" =>
              /\ tree.fields \in Seq(FieldsOf(STRING, Trees))
              /\ DOMAIN Parts(tree) = DOMAIN tree.fields
              /\ \A i \in DOMAIN tree.fields : Parts(tree)[i] = tree.fields[i].value
         /\ tree.kind = "array" => Parts(tree) = tree.items
  <1>1. MaxDepth \in Nat /\ tree \in Nested[MaxDepth]
    BY DepthAssumption DEF Trees
  <1>2. /\ MaxDepth # 0
        /\ Parts(tree) \in Seq(Nested[MaxDepth - 1])
        /\ tree.kind = "object" =>
             /\ tree.fields \in Seq(FieldsOf(STRING, Nested[MaxDepth - 1]))
             /\ DOMAIN Parts(tree) = DOMAIN tree.fields
    BY <1>1, TreeShape
  <1>3. MaxDepth - 1 \in Nat /\ MaxDepth - 1 + 1 = MaxDepth
    BY <1>1, <1>2
  <1>4. Nested[MaxDepth - 1] \subseteq Trees
    BY <1>3, NestedGrows DEF Trees
  <1>5. FieldsOf(STRING, Nested[MaxDepth - 1]) \subseteq FieldsOf(STRING, Trees)
    BY <1>4 DEF FieldsOf
  <1>6. tree.kind = "object" => Parts(tree) = [i \in DOMAIN tree.fields |-> tree.fields[i].value]
    BY DEF Parts
  <1> QED
    BY <1>2, <1>4, <1>5, <1>6 DEF Parts

LEMMA MaxIn ==
  ASSUME NEW n \in Nat, NEW T, T \subseteq 1..n, T # {}
  PROVE  Max(T) \in T
  <1> DEFINE U == {n - i : i \in T}
  <1>1. U \subseteq Nat /\ U # {}
    <2>1. PICK i \in T : TRUE
      OBVIOUS
    <2>2. n - i \in U
      BY <2>1
    <2>3. \A j \in 1..n : n - j \in Nat
      OBVIOUS
    <2> QED
      BY <2>2, <2>3
  <1>2. PICK m \in U : \A k \in U : m <= k
    <2> HIDE DEF U
    <2> QED
      BY <1>1, Least
  <1>3. PICK j \in T : m = n - j
    BY <1>2
  <1>4. \A i \in T : j >= i
    BY <1>2, <1>3
  <1> QED
    BY <1>4 DEF Max

\* Whatever the normalisation of a nested value is, it is in order.
InOrderBelow(nested) ==
  \A entry \in Entries, value \in Trees :
    nested[entry][value].ok /\ nested[entry][value].value \in Trees
      => InOrder(nested[entry][value].value, entry)

\* Where a child's field is found, and what becomes of it.
FoundAt(source, child) == SelectLastInSeq(source, LAMBDA f : f.key = Schema[child].name)

OutcomeFor(source, child, nested) ==
  IF FoundAt(source, child) > 0
    THEN nested[child][source[FoundAt(source, child)].value]
    ELSE IF ~IsVoid(Schema[child].default)
      THEN nested[child][Schema[child].default]
      ELSE IF Schema[child].required THEN Failure ELSE Normal(Void)

KnownFields(source, children, nested) ==
  [i \in DOMAIN children |->
     Field(Schema[children[i]].name, OutcomeFor(source, children[i], nested).value)]

UnknownPlaces(source, children) ==
  {n \in DOMAIN source : \A i \in DOMAIN children : Schema[children[i]].name # source[n].key}

Rejoined(source, children, nested) ==
  Together(KnownFields(source, children, nested), source, UnknownPlaces(source, children))

\* The trees, and the values of these fields.
FieldValues(fields) == Trees \cup {fields[i].value : i \in DOMAIN fields}

LEMMA NormalObjectIs ==
  ASSUME NEW fields, NEW children, NEW nested
  PROVE  LET source == nonVoidObjectFields(fields)
         IN  normalizeObjectForSchema(fields, children, nested) =
               IF \E i \in DOMAIN children : ~OutcomeFor(source, children[i], nested).ok
                 THEN Failure ELSE Normal(Object(Rejoined(source, children, nested)))
  <1> DEFINE source == nonVoidObjectFields(fields)
             Outcome(child) == OutcomeFor(source, child, nested)
             outcomes == [i \in DOMAIN children |-> Outcome(children[i])]
             known == [i \in DOMAIN children |->
                         Field(Schema[children[i]].name, outcomes[i].value)]
             t == nonVoidObjectFields(known) \o Those(source, UnknownPlaces(source, children))
  <1>1. normalizeObjectForSchema(fields, children, nested) =
          IF \E i \in DOMAIN children : ~outcomes[i].ok THEN Failure ELSE Normal(Object(t))
    BY DEF normalizeObjectForSchema, OutcomeFor, FoundAt, UnknownPlaces
  <1>2. \A i \in DOMAIN children : outcomes[i] = Outcome(children[i])
    OBVIOUS
  <1>3. known = KnownFields(source, children, nested)
    BY DEF KnownFields
  <1> HIDE DEF outcomes, known, source
  <1>4. t = Rejoined(source, children, nested)
    BY <1>3 DEF Rejoined, Together
  <1> HIDE DEF t, Outcome
  <1>5. (\E i \in DOMAIN children : ~outcomes[i].ok) <=> \E i \in DOMAIN children : ~Outcome(children[i]).ok
    BY <1>2
  <1> QED
    BY <1>1, <1>4, <1>5 DEF Outcome, source

LEMMA FoundAtIs ==
  ASSUME NEW F, NEW source \in Seq(F), NEW child
  PROVE  /\ FoundAt(source, child) \in 0..Len(source)
         /\ FoundAt(source, child) > 0 =>
              /\ FoundAt(source, child) \in DOMAIN source
              /\ source[FoundAt(source, child)].key = Schema[child].name
         /\ ~(FoundAt(source, child) > 0) =>
              \A i \in DOMAIN source : source[i].key # Schema[child].name
  <1> DEFINE I == {i \in 1..Len(source) : source[i].key = Schema[child].name}
             at == FoundAt(source, child)
  <1>1. at = IF I # {} THEN Max(I) ELSE 0
    BY DEF FoundAt, SelectLastInSeq
  <1>2. I # {} => Max(I) \in I
    <2>1. I \subseteq 1..Len(source) /\ Len(source) \in Nat
      OBVIOUS
    <2> HIDE DEF I
    <2> QED
      BY <2>1, MaxIn
  <1>3. Len(source) \in Nat /\ DOMAIN source = 1..Len(source)
    OBVIOUS
  <1> HIDE DEF at
  <1>4. CASE I # {}
    <2>1. at \in I
      BY <1>1, <1>2, <1>4
    <2>2. at \in 1..Len(source) /\ source[at].key = Schema[child].name
      BY <2>1
    <2>3. at > 0 /\ at \in 0..Len(source)
      BY <1>3, <2>2
    <2> QED
      BY <1>3, <2>2, <2>3 DEF at
  <1>5. CASE I = {}
    <2>1. at = 0 /\ 0 \in 0..Len(source)
      BY <1>1, <1>3, <1>5
    <2>2. \A i \in DOMAIN source : source[i].key # Schema[child].name
      BY <1>3, <1>5
    <2> QED
      BY <2>1, <2>2 DEF at
  <1> QED
    BY <1>4, <1>5

\* A known field holds what its value or its default normalises to, or is left out.
LEMMA OutcomeIs ==
  ASSUME NEW child \in DOMAIN Schema, NEW nested,
         NEW source \in Seq(FieldsOf(STRING, Trees)), OutcomeFor(source, child, nested).ok
  PROVE  \/ /\ ~(FoundAt(source, child) > 0)
            /\ IsVoid(Schema[child].default) /\ ~Schema[child].required
            /\ OutcomeFor(source, child, nested) = Normal(Void)
         \/ \E value \in Trees :
              /\ OutcomeFor(source, child, nested) = nested[child][value]
              /\ \/ value = Schema[child].default /\ ~IsVoid(value)
                 \/ \E i \in DOMAIN source : value = source[i].value
  <1> DEFINE at == FoundAt(source, child)
             outcome == OutcomeFor(source, child, nested)
  <1>1. outcome = IF at > 0 THEN nested[child][source[at].value]
                  ELSE IF ~IsVoid(Schema[child].default)
                    THEN nested[child][Schema[child].default]
                    ELSE IF Schema[child].required THEN Failure ELSE Normal(Void)
    BY DEF OutcomeFor
  <1>2. at > 0 => at \in DOMAIN source
    BY FoundAtIs
  <1>3. \A i \in DOMAIN source : source[i].value \in Trees
    <2>1. \A i \in DOMAIN source : source[i] \in FieldsOf(STRING, Trees)
      OBVIOUS
    <2> QED
      BY <2>1 DEF FieldsOf
  <1>4. Schema[child].default \in Trees /\ outcome.ok /\ ~Failure.ok
    BY SchemaAssumption DEF Failure
  <1> HIDE DEF at, outcome
  <1> DEFINE S == Schema[child]
  <1>7. outcome = IF at > 0 THEN nested[child][source[at].value]
                  ELSE IF ~IsVoid(S.default) THEN nested[child][S.default]
                  ELSE IF S.required THEN Failure ELSE Normal(Void)
    BY <1>1
  <1>8. S.default \in Trees
    BY <1>4
  <1> HIDE DEF S
  <1>5. CASE at > 0
    <2>1. outcome = nested[child][source[at].value] /\ source[at].value \in Trees /\ at \in DOMAIN source
      BY <1>2, <1>3, <1>5, <1>7
    <2> QED
      BY <2>1 DEF outcome
  <1>6. CASE ~(at > 0) /\ ~IsVoid(S.default)
    <2>1. outcome = nested[child][S.default]
      BY <1>6, <1>7
    <2> QED
      BY <1>6, <1>8, <2>1 DEF outcome, S
  <1>9. CASE ~(at > 0) /\ IsVoid(S.default)
    <2>1. outcome = IF S.required THEN Failure ELSE Normal(Void)
      BY <1>7, <1>9
    <2>2. ~S.required /\ outcome = Normal(Void)
      BY <1>4, <2>1, Zenon
    <2> QED
      BY <1>9, <2>2 DEF outcome, S, at
  <1> QED
    BY <1>5, <1>6, <1>9

\* The two parts that normalizeObjectForSchema puts together.
LEMMA ObjectParts ==
  ASSUME NEW entry \in DOMAIN Schema, NEW nested,
         NEW source \in Seq(FieldsOf(STRING, Trees))
  PROVE  LET children == Children(entry)
             known    == KnownFields(source, children, nested)
             unknown  == UnknownPlaces(source, children)
             V        == FieldValues(known)
         IN  /\ children = Schema[entry].children
             /\ known \in Seq(FieldsOf(STRING, V)) /\ source \in Seq(FieldsOf(STRING, V))
             /\ DOMAIN known = DOMAIN children
             /\ \A i \in DOMAIN known :
                  /\ known[i].key = NameAt(entry, i)
                  /\ known[i].value = OutcomeFor(source, children[i], nested).value
                  /\ ChildEntry(entry, known[i].key) = children[i]
                  /\ children[i] \in DOMAIN Schema
             /\ unknown \subseteq DOMAIN source
             /\ \A i \in unknown : ChildEntry(entry, source[i].key) = NoEntry
  <1> DEFINE children == Children(entry)
             known == KnownFields(source, children, nested)
             unknown == UnknownPlaces(source, children)
             V == FieldValues(known)
             Outcome(child) == OutcomeFor(source, child, nested)
  <1>1. entry \in Entries /\ entry # NoEntry /\ children = Schema[entry].children
    BY SchemaAssumption DEF Entries, Children
  <1>2. /\ children \in Seq(DOMAIN Schema) /\ Len(children) \in Nat /\ DOMAIN children = 1..Len(children)
        /\ \A i \in DOMAIN children :
             /\ children[i] \in DOMAIN Schema
             /\ NameAt(entry, i) \in STRING /\ Rank(entry, NameAt(entry, i)) = i
    <2>1. children \in Seq(DOMAIN Schema)
      BY <1>1, RankIs
    <2>2. \A i \in DOMAIN children : NameAt(entry, i) \in STRING /\ Rank(entry, NameAt(entry, i)) = i
      BY <1>1, RankIs
    <2> HIDE DEF children
    <2> QED
      BY <2>1, <2>2
  <1> HIDE DEF children
  <1>3. known = [i \in DOMAIN children |-> Field(NameAt(entry, i), Outcome(children[i]).value)]
    BY DEF KnownFields, NameAt, children
  <1> HIDE DEF known, Outcome
  <1>4. /\ DOMAIN known = DOMAIN children
        /\ \A i \in DOMAIN known : /\ known[i].key = NameAt(entry, i)
                                   /\ known[i].value = Outcome(children[i]).value
                                   /\ known[i] = Field(known[i].key, known[i].value)
    BY <1>3 DEF Field
  <1>5. known \in Seq(FieldsOf(STRING, V))
    <2>1. \A i \in DOMAIN known : known[i] \in FieldsOf(STRING, V)
      <3>1. \A k \in STRING, v \in V : Field(k, v) \in FieldsOf(STRING, V)
        BY DEF Field, FieldsOf
      <3>2. \A i \in DOMAIN known : known[i].key \in STRING /\ known[i].value \in V
        BY <1>2, <1>4 DEF FieldValues
      <3> HIDE DEF V
      <3> QED
        BY <1>4, <3>1, <3>2
    <2>2. known = [i \in 1..Len(children) |-> known[i]]
      BY <1>2, <1>3, <1>4
    <2> HIDE DEF V
    <2>3. known \in [1..Len(children) -> FieldsOf(STRING, V)]
      BY <1>2, <1>4, <2>1, <2>2
    <2> QED
      BY <1>2, <2>3, SequenceOf
  <1>6. source \in Seq(FieldsOf(STRING, V))
    <2>1. FieldsOf(STRING, Trees) \subseteq FieldsOf(STRING, V)
      BY DEF FieldsOf, FieldValues
    <2> HIDE DEF V
    <2> QED
      BY <2>1
  <1>7. ASSUME NEW i \in DOMAIN known PROVE ChildEntry(entry, known[i].key) = children[i]
    <2>1. Rank(entry, NameAt(entry, i)) = i /\ i # 0 /\ i \in DOMAIN children
      BY <1>2, <1>4
    <2>2. ChildEntry(entry, NameAt(entry, i)) = Children(entry)[i]
      BY <1>1, <2>1, RankIs
    <2> QED
      BY <1>4, <2>2 DEF children
  <1>8. unknown \subseteq DOMAIN source
    BY DEF UnknownPlaces
  <1>9. ASSUME NEW i \in unknown PROVE ChildEntry(entry, source[i].key) = NoEntry
    <2> DEFINE key == source[i].key
    <2>1. \A j \in DOMAIN Children(entry) : NameAt(entry, j) # key
      BY DEF UnknownPlaces, NameAt, children
    <2> HIDE DEF key
    <2>2. Rank(entry, key) = 0
      BY <1>1, <2>1, RankIs
    <2>3. ChildEntry(entry, key) = NoEntry
      BY <1>1, <2>2, RankIs
    <2> QED
      BY <2>3 DEF key
  <1> HIDE DEF unknown
  <1> QED
    BY <1>1, <1>2, <1>4, <1>5, <1>6, <1>7, <1>8, <1>9 DEF children, known, unknown, Outcome

LEMMA ObjectRejoined ==
  ASSUME NEW entry \in DOMAIN Schema, NEW nested,
         NEW source \in Seq(FieldsOf(STRING, Trees))
  PROVE  LET known   == KnownFields(source, Children(entry), nested)
             unknown == UnknownPlaces(source, Children(entry))
             t       == Rejoined(source, Children(entry), nested)
             V       == FieldValues(known)
         IN  /\ t \in Seq(FieldsOf(STRING, V)) /\ Ordered(t, entry)
             /\ \A k \in DOMAIN t :
                  \/ \E i \in DOMAIN known : t[k] = known[i] /\ ~IsVoid(known[i].value)
                  \/ \E i \in unknown : t[k] = source[i]
             /\ \A i \in DOMAIN known :
                  ~IsVoid(known[i].value) => \E k \in DOMAIN t : t[k] = known[i]
             /\ Distinct(source) => Distinct(t)
  <1> DEFINE known == KnownFields(source, Children(entry), nested)
             unknown == UnknownPlaces(source, Children(entry))
             t == Rejoined(source, Children(entry), nested)
             V == FieldValues(known)
  <1>1. /\ known \in Seq(FieldsOf(STRING, V)) /\ source \in Seq(FieldsOf(STRING, V))
        /\ DOMAIN known = DOMAIN Children(entry)
        /\ \A i \in DOMAIN known : known[i].key = NameAt(entry, i)
        /\ unknown \subseteq DOMAIN source
        /\ \A i \in unknown : ChildEntry(entry, source[i].key) = NoEntry
    BY ObjectParts
  <1>2. t = Together(known, source, unknown) /\ entry \in Entries
    BY DEF Rejoined, Entries
  <1> HIDE DEF known, unknown, t, V
  <1> DEFINE u == nonVoidObjectFields(known) \o Those(source, unknown)
  <1>3. /\ u \in Seq(FieldsOf(STRING, V)) /\ Ordered(u, entry)
        /\ \A k \in DOMAIN u :
             \/ \E i \in DOMAIN known : u[k] = known[i] /\ ~IsVoid(known[i].value)
             \/ \E i \in unknown : u[k] = source[i]
        /\ Distinct(source) => Distinct(u)
    BY <1>1, <1>2, KnownThenUnknown
  <1> HIDE DEF u
  <1>4. ASSUME NEW i \in DOMAIN known, ~IsVoid(known[i].value)
        PROVE  \E k \in DOMAIN t : t[k] = known[i]
    BY <1>1, <1>2, <1>4, KnownKept
  <1>5. t = u
    BY <1>2 DEF u, Together
  <1> QED
    BY <1>3, <1>4, <1>5 DEF t, known, unknown, V

LEMMA NormalObject ==
  ASSUME NEW entry \in DOMAIN Schema, NEW nested, InOrderBelow(nested),
         NEW fields \in Seq(FieldsOf(STRING, Trees)),
         normalizeObjectForSchema(fields, Schema[entry].children, nested).ok,
         normalizeObjectForSchema(fields, Schema[entry].children, nested).value \in Trees
  PROVE  InOrder(normalizeObjectForSchema(fields, Schema[entry].children, nested).value, entry)
  <1> DEFINE norm == normalizeObjectForSchema(fields, Schema[entry].children, nested)
             children == Children(entry)
             source == nonVoidObjectFields(fields)
             known == KnownFields(source, children, nested)
             unknown == UnknownPlaces(source, children)
             t == Rejoined(source, children, nested)
             tree == Object(t)
             V == FieldValues(known)
  <1>1. source \in Seq(FieldsOf(STRING, Trees))
    BY NonVoidIs
  <1> HIDE DEF source
  <1>2. /\ children = Schema[entry].children
        /\ DOMAIN known = DOMAIN children
        /\ \A i \in DOMAIN known :
             /\ known[i].value = OutcomeFor(source, children[i], nested).value
             /\ ChildEntry(entry, known[i].key) = children[i]
             /\ children[i] \in DOMAIN Schema
        /\ unknown \subseteq DOMAIN source
        /\ \A i \in unknown : ChildEntry(entry, source[i].key) = NoEntry
    BY <1>1, ObjectParts
  <1>3. norm.ok /\ norm.value \in Trees
    OBVIOUS
  <1>4. /\ \A i \in DOMAIN children : OutcomeFor(source, children[i], nested).ok
        /\ norm.value = tree
    <2>1. norm = IF \E i \in DOMAIN children : ~OutcomeFor(source, children[i], nested).ok
                   THEN Failure ELSE Normal(tree)
      BY <1>2, NormalObjectIs DEF source
    <2>2. ~Failure.ok /\ Normal(tree).value = tree
      BY DEF Failure, Normal
    <2> HIDE DEF norm, tree, children
    <2> QED
      BY <1>3, <2>1, <2>2
  <1>5. /\ t \in Seq(FieldsOf(STRING, V)) /\ Ordered(t, entry)
        /\ \A k \in DOMAIN t :
             \/ \E i \in DOMAIN known : t[k] = known[i] /\ ~IsVoid(known[i].value)
             \/ \E i \in unknown : t[k] = source[i]
    BY <1>1, ObjectRejoined
  <1> HIDE DEF t, known, unknown, V
  <1>6. /\ tree.kind = "object" /\ tree.fields = t /\ IsContainer(tree) /\ tree \in Trees
        /\ \E n \in Nat : tree \in Nested[n]
    BY <1>3, <1>4, DepthAssumption DEF Object, IsContainer, Trees
  <1> HIDE DEF tree, norm
  <1>7. ASSUME NEW k \in ContainersIn(tree)
         PROVE  InOrder(Parts(tree)[k], PartEntry(tree, k, entry))
    <2>1. /\ Parts(tree) \in Seq(Trees) /\ DOMAIN Parts(tree) = DOMAIN t
          /\ \A i \in DOMAIN t : Parts(tree)[i] = t[i].value
      BY <1>6, PartsAreTrees
    <2>2. /\ k \in DOMAIN t /\ IsContainer(Parts(tree)[k]) /\ Parts(tree)[k] = t[k].value
          /\ Parts(tree)[k] \in Trees
      BY <2>1 DEF ContainersIn
    <2>3. PartEntry(tree, k, entry) = ChildEntry(entry, t[k].key)
      BY <1>6 DEF PartEntry
    <2>4. CASE \E i \in DOMAIN known : t[k] = known[i] /\ ~IsVoid(known[i].value)
      <3>1. PICK i \in DOMAIN known : t[k] = known[i]
        BY <2>4
      <3> DEFINE child == children[i]
                 outcome == OutcomeFor(source, child, nested)
      <3>2. /\ t[k].value = outcome.value /\ ChildEntry(entry, t[k].key) = child
            /\ outcome.ok /\ child \in DOMAIN Schema
        BY <1>2, <1>4, <3>1
      <3>3. outcome # Normal(Void)
        <4>1. ~IsContainer(Normal(Void).value)
          BY DEF Normal, IsContainer, Void, Scalar
        <4> QED
          BY <2>2, <3>2, <4>1
      <3>4. PICK value \in Trees : outcome = nested[child][value]
        <4> HIDE DEF child
        <4> QED
          BY <1>1, <3>2, <3>3, OutcomeIs
      <3>5. child \in Entries
        BY <3>2 DEF Entries
      <3> HIDE DEF outcome, child
      <3> QED
        BY <2>2, <2>3, <3>2, <3>4, <3>5 DEF InOrderBelow
    <2>5. CASE \E i \in unknown : t[k] = source[i]
      <3>1. ChildEntry(entry, t[k].key) = NoEntry
        BY <1>2, <2>5
      <3>2. Parts(tree)[k] \in UNION {Nested[n] : n \in Nat}
        BY <2>2, DepthAssumption DEF Trees
      <3> QED
        BY <2>3, <3>1, <3>2, NoEntryInOrder
    <2> QED
      BY <1>5, <2>2, <2>4, <2>5
  <1>8. InOrder(tree, entry)
    <2>1. tree \in UNION {Nested[n] : n \in Nat} /\ entry \in Entries
      BY <1>6 DEF Entries
    <2> QED
      BY <1>5, <1>6, <1>7, <2>1, InOrderAround
  <1> QED
    BY <1>4, <1>8 DEF norm

LEMMA NormalArray ==
  ASSUME NEW entry \in DOMAIN Schema, NEW nested, InOrderBelow(nested),
         NEW items \in Seq(Trees),
         normalizeArrayForSchema(items, Schema[entry].items, nested).ok,
         normalizeArrayForSchema(items, Schema[entry].items, nested).value \in Trees
  PROVE  InOrder(normalizeArrayForSchema(items, Schema[entry].items, nested).value, entry)
  <1> DEFINE norm == normalizeArrayForSchema(items, Schema[entry].items, nested)
             source == Those(items, {i \in DOMAIN items : ~IsVoid(items[i])})
             below == Schema[entry].items
             outcomes == [i \in DOMAIN source |-> nested[below][source[i]]]
             tree == Array([i \in DOMAIN source |-> outcomes[i].value])
  <1> DEFINE failed == \E i \in DOMAIN source : ~outcomes[i].ok
  <1>1. norm = IF failed THEN Failure ELSE Normal(tree)
    BY DEF normalizeArrayForSchema
  <1>2. (~failed) /\ norm.value = tree /\ tree \in Trees
    <2>1. norm.ok /\ norm.value \in Trees
      OBVIOUS
    <2>2. ~Failure.ok /\ Normal(tree).value = tree
      BY DEF Failure, Normal
    <2> HIDE DEF norm, failed, tree
    <2> QED
      BY <1>1, <2>1, <2>2
  <1>3. entry \in Entries /\ below \in Entries /\ ItemEntry(entry) = below
    BY SchemaAssumption DEF Entries, ItemEntry
  <1>4. source \in Seq(Trees)
    <2> DEFINE places == {i \in DOMAIN items : ~IsVoid(items[i])}
    <2>1. places \subseteq DOMAIN items
      OBVIOUS
    <2> HIDE DEF places
    <2>2. Those(items, places) \in Seq(Trees)
      BY <2>1, ThoseIs
    <2> QED
      BY <2>2 DEF places
  <1>5. /\ tree.kind = "array" /\ IsContainer(tree)
        /\ \E n \in Nat : tree \in Nested[n]
        /\ Parts(tree) = [i \in DOMAIN source |-> outcomes[i].value]
    BY <1>2, DepthAssumption DEF Array, IsContainer, Trees, Parts
  <1>6. ASSUME NEW k \in ContainersIn(tree)
        PROVE  InOrder(Parts(tree)[k], PartEntry(tree, k, entry))
    <2>1. k \in DOMAIN source /\ Parts(tree)[k] = nested[below][source[k]].value
      BY <1>5 DEF ContainersIn
    <2>2. Parts(tree)[k] \in Trees
      <3>1. k \in DOMAIN Parts(tree)
        BY DEF ContainersIn
      <3> HIDE DEF tree
      <3>2. Parts(tree) \in Seq(Trees)
        BY <1>2, <1>5, PartsAreTrees
      <3> HIDE DEF source
      <3> QED
        BY <3>1, <3>2
    <2>3. nested[below][source[k]].ok /\ source[k] \in Trees
      <3>1. outcomes[k] = nested[below][source[k]] /\ outcomes[k].ok
        BY <1>2, <2>1
      <3> HIDE DEF source
      <3> QED
        BY <1>4, <2>1, <3>1
    <2>4. PartEntry(tree, k, entry) = below
      BY <1>3, <1>5 DEF PartEntry
    <2> HIDE DEF tree, source, below
    <2> QED
      BY <1>3, <2>1, <2>2, <2>3, <2>4 DEF InOrderBelow
  <1>7. InOrder(tree, entry)
    <2>1. tree \in UNION {Nested[n] : n \in Nat}
      BY <1>5
    <2> HIDE DEF tree
    <2> QED
      BY <1>3, <1>5, <1>6, <2>1, InOrderAround
  <1> QED
    BY <1>2, <1>7

LEMMA NormalInOrder ==
  ASSUME NEW value \in Trees, NEW entry \in Entries,
         normalizeValueForSchema(value, entry).ok,
         normalizeValueForSchema(value, entry).value \in Trees
  PROVE  InOrder(normalizeValueForSchema(value, entry).value, entry)
  <1> DEFINE T == {n \in Nat : InOrderBelow(normalized[n])}
  <1>1. ASSUME NEW v \in Trees PROVE InOrder(Normal(v).value, NoEntry)
    <2>1. Normal(v).value = v
      BY DEF Normal
    <2>2. v \in UNION {Nested[n] : n \in Nat}
      BY DepthAssumption DEF Trees
    <2> QED
      BY <2>1, <2>2, NoEntryInOrder
  <1>2. 0 \in T
    <2> SUFFICES ASSUME NEW e \in Entries, NEW v \in Trees, normalized[0][e][v].ok
                 PROVE  InOrder(normalized[0][e][v].value, e)
      BY DEF InOrderBelow
    <2>1. normalized[0][e][v] = IF e = NoEntry THEN Normal(v) ELSE Failure
      BY NormalizedAt
    <2>2. ~Failure.ok
      BY DEF Failure
    <2> QED
      BY <1>1, <2>1, <2>2
  <1>3. ASSUME NEW n \in Nat, n \in T PROVE n + 1 \in T
    <2> SUFFICES ASSUME NEW e \in Entries, NEW v \in Trees, normalized[n + 1][e][v].ok,
                        normalized[n + 1][e][v].value \in Trees
                 PROVE  InOrder(normalized[n + 1][e][v].value, e)
      BY DEF InOrderBelow
    <2> DEFINE nested == normalized[n]
               norm == normalizeGoverned(v, Schema[e], nested)
    <2>1. normalized[n + 1][e][v] = IF e = NoEntry THEN Normal(v) ELSE norm
      BY NormalizedAt
    <2>2. InOrderBelow(nested)
      BY <1>3
    <2> HIDE DEF nested
    <2>3. CASE e = NoEntry
      BY <1>1, <2>1, <2>3
    <2>4. CASE e # NoEntry
      <3>1. e \in DOMAIN Schema /\ normalized[n + 1][e][v] = norm
        BY <2>1, <2>4 DEF Entries
      <3> SUFFICES ASSUME norm.ok, norm.value \in Trees PROVE InOrder(norm.value, e)
        BY <3>1
      <3>2. ~Failure.ok /\ ~IsContainer(Normal(Null).value) /\ Normal(v).value = v
        BY DEF Failure, Normal, Null, Scalar, IsContainer
      <3>3. CASE v.kind = "object" /\ Schema[e].kind = "object"
        <4>1. norm = normalizeObjectForSchema(v.fields, Schema[e].children, nested)
          BY <3>3 DEF normalizeGoverned
        <4>2. v.fields \in Seq(FieldsOf(STRING, Trees))
          BY <3>3, PartsAreTrees DEF IsContainer
        <4> HIDE DEF norm
        <4> QED
          BY <2>2, <3>1, <4>1, <4>2, NormalObject
      <3>4. CASE v.kind = "array" /\ Schema[e].kind = "array"
        <4>1. norm = normalizeArrayForSchema(v.items, Schema[e].items, nested)
          BY <3>4 DEF normalizeGoverned
        <4>2. v.items \in Seq(Trees)
          BY <3>4, PartsAreTrees DEF IsContainer
        <4> HIDE DEF norm
        <4> QED
          BY <2>2, <3>1, <4>1, <4>2, NormalArray
      <3>5. CASE v.kind \in {"object", "array"} /\ v.kind # Schema[e].kind
        <4>1. norm = Failure
          BY <3>5 DEF normalizeGoverned
        <4> QED
          BY <3>2, <4>1
      <3>6. CASE v.kind \notin {"object", "array"}
        <4>1. norm = Failure \/ norm = Normal(Null) \/ norm = Normal(v)
          BY <3>6 DEF normalizeGoverned
        <4>2. ~IsContainer(v)
          BY <3>6 DEF IsContainer
        <4> QED
          BY <3>2, <4>1, <4>2 DEF InOrder
      <3> QED
        BY <3>3, <3>4, <3>5, <3>6
    <2> QED
      BY <2>3, <2>4
  <1> HIDE DEF T
  <1>4. \A n \in Nat : n \in T
    BY <1>2, <1>3, Induction
  <1>5. Cardinality(DOMAIN Schema) \in Nat
    BY SchemaAssumption, FS_CardinalityType
  <1>6. InOrderBelow(normalized[Cardinality(DOMAIN Schema)])
    BY <1>4, <1>5 DEF T
  <1> QED
    BY <1>6 DEF InOrderBelow, normalizeValueForSchema

-----------------------------------------------------------------------------
(* Normal forms are fixed points.                                          *)

\* Increasing places that fill an interval.
Filling(at, l, n, m) ==
  /\ at \in [1..l -> n + 1..n + m]
  /\ \A j, k \in 1..l : j < k => at[j] < at[k]
  /\ \A i \in n + 1..n + m : \E k \in 1..l : at[k] = i

\* Strictly increasing and onto an interval: one after the other.
LEMMA OneByOne ==
  ASSUME NEW l \in Nat, NEW n \in Nat, NEW m \in Nat, NEW at, Filling(at, l, n, m)
  PROVE  l = m /\ \A k \in 1..l : at[k] = n + k
  <1> /\ at \in [1..l -> n + 1..n + m]
      /\ \A j, k \in 1..l : j < k => at[j] < at[k]
      /\ \A i \in n + 1..n + m : \E k \in 1..l : at[k] = i
    BY DEF Filling
  <1> DEFINE T == {k \in Nat : \A j \in 1..l : j <= k => at[j] = n + j}
  <1>1. 0 \in T
    OBVIOUS
  <1>2. ASSUME NEW k \in Nat, k \in T PROVE k + 1 \in T
    <2>a. \A j \in 1..l : j <= k => at[j] = n + j
      BY <1>2
    <2>b. SUFFICES k + 1 \in 1..l => at[k + 1] = n + (k + 1)
      <3> SUFFICES ASSUME NEW j \in 1..l, j <= k + 1 PROVE at[j] = n + j
        OBVIOUS
      <3>1. j <= k \/ j = k + 1
        OBVIOUS
      <3> QED
        BY <2>a, <3>1
    <2> SUFFICES ASSUME k + 1 \in 1..l PROVE at[k + 1] = n + (k + 1)
      OBVIOUS
    <2>1. at[k + 1] \in n + 1..n + m
      OBVIOUS
    <2>2. at[k + 1] >= n + (k + 1)
      <3>1. CASE k = 0
        BY <2>1, <3>1
      <3>2. CASE k # 0
        <4>1. k \in 1..l /\ k < k + 1 /\ k <= k
          BY <3>2
        <4>2. at[k] = n + k /\ at[k] < at[k + 1]
          BY <1>2, <4>1
        <4> QED
          BY <2>1, <4>2
      <3> QED
        BY <3>1, <3>2
    <2>3. PICK j \in 1..l : at[j] = n + (k + 1)
      <3>1. n + (k + 1) \in n + 1..n + m
        BY <2>1, <2>2
      <3> QED
        BY <3>1
    <2>4. j >= k + 1
      <3>1. j <= k => at[j] = n + j
        BY <1>2
      <3> QED
        BY <2>3, <3>1
    <2>5. at[k + 1] <= at[j]
      <3>1. CASE j = k + 1
        BY <2>1, <3>1
      <3>2. CASE j # k + 1
        <4>1. k + 1 < j
          BY <2>4, <3>2
        <4>2. at[k + 1] < at[j] /\ at[j] \in n + 1..n + m
          BY <4>1
        <4> QED
          BY <2>1, <4>2
      <3> QED
        BY <3>1, <3>2
    <2> QED
      BY <2>1, <2>2, <2>3, <2>5
  <1>3. \A k \in Nat : k \in T
    <2> HIDE DEF T
    <2> QED
      BY <1>1, <1>2, Induction
  <1>4. \A k \in 1..l : at[k] = n + k
    <2>1. l \in T
      BY <1>3
    <2> QED
      BY <2>1
  <1>5. l <= m
    <2>1. CASE l = 0
      BY <2>1
    <2>2. CASE l # 0
      <3>1. l \in 1..l /\ at[l] \in n + 1..n + m
        BY <2>2
      <3> QED
        BY <1>4, <3>1
    <2> QED
      BY <2>1, <2>2
  <1>6. m <= l
    <2>1. CASE m = 0
      BY <2>1
    <2>2. CASE m # 0
      <3>1. n + m \in n + 1..n + m
        BY <2>2
      <3>2. PICK k \in 1..l : at[k] = n + m
        BY <3>1
      <3> QED
        BY <1>4, <3>2
    <2> QED
      BY <2>1, <2>2
  <1> QED
    BY <1>4, <1>5, <1>6

\* What an accepted outcome carries.
LEMMA NormalIs ==
  ASSUME NEW t
  PROVE  Normal(t).ok /\ Normal(t).value = t
  BY Zenon DEF Normal

LEMMA ThoseInterval ==
  ASSUME NEW F, NEW s \in Seq(F), NEW n \in Nat, NEW m \in Nat, Len(s) = n + m
  PROVE  LET t == Those(s, n + 1..n + m)
         IN  t \in Seq(F) /\ Len(t) = m /\ \A k \in 1..m : t[k] = s[n + k]
  <1> DEFINE places == n + 1..n + m
             t == Those(s, places)
  <1>1. places \subseteq DOMAIN s /\ places \subseteq 1..Len(s)
    OBVIOUS
  <1>2. t \in Seq(F) /\ Picked(s, places, Len(s), t)
    BY ThosePicked
  <1> HIDE DEF t
  <1>3. PICK at : PickedBy(s, places, Len(s), t, at)
    BY <1>2 DEF Picked
  <1> HIDE DEF places
  <1>4. /\ at \in [1..Len(t) -> places]
        /\ \A k \in 1..Len(t) : t[k] = s[at[k]]
        /\ \A j, k \in 1..Len(t) : j < k => at[j] < at[k]
        /\ \A i \in places : \E k \in 1..Len(t) : at[k] = i
    <2>1. /\ at \in [1..Len(t) -> 1..Len(s)]
          /\ \A k \in 1..Len(t) : at[k] \in places /\ t[k] = s[at[k]]
          /\ \A j, k \in 1..Len(t) : j < k => at[j] < at[k]
          /\ \A i \in 1..Len(s) : i \in places => \E k \in 1..Len(t) : at[k] = i
      BY <1>3 DEF PickedBy
    <2> QED
      BY <1>1, <2>1
  <1>5. Len(t) \in Nat
    BY <1>2
  <1>6. Len(t) = m /\ \A k \in 1..Len(t) : at[k] = n + k
    <2> DEFINE l == Len(t)
    <2>1. l \in Nat
      BY <1>5
    <2>2. Filling(at, l, n, m)
      BY <1>4 DEF places, Filling
    <2> HIDE DEF l
    <2>3. l = m /\ \A k \in 1..l : at[k] = n + k
      BY <2>1, <2>2, OneByOne
    <2> QED
      BY <2>3 DEF l
  <1> QED
    BY <1>2, <1>4, <1>6 DEF t, places

LEMMA SameSequence ==
  ASSUME NEW F, NEW s \in Seq(F), NEW t \in Seq(F), Len(s) = Len(t),
         \A i \in 1..Len(s) : s[i] = t[i]
  PROVE  s = t
  OBVIOUS

\* Nothing is left out where nothing is void.
LEMMA ThoseAll ==
  ASSUME NEW F, NEW s \in Seq(F) PROVE Those(s, DOMAIN s) = s
  <1> DEFINE t == Those(s, DOMAIN s)
             m == Len(s)
  <1>1. m \in Nat /\ m = 0 + m /\ DOMAIN s = 0 + 1..0 + m
    OBVIOUS
  <1>2. t \in Seq(F) /\ Len(t) = m /\ \A k \in 1..m : t[k] = s[0 + k]
    BY <1>1, ThoseInterval
  <1>3. \A k \in 1..m : t[k] = s[k]
    BY <1>2
  <1> HIDE DEF t
  <1> QED
    BY <1>2, <1>3, SameSequence DEF t

LEMMA NonVoidSame ==
  ASSUME NEW F, NEW fields \in Seq(F), \A i \in DOMAIN fields : ~IsVoid(fields[i].value)
  PROVE  nonVoidObjectFields(fields) = fields
  <1>1. {i \in DOMAIN fields : ~IsVoid(fields[i].value)} = DOMAIN fields
    OBVIOUS
  <1> QED
    BY <1>1, ThoseAll DEF nonVoidObjectFields

\* What is not void becomes nothing void, and is normal then.
StableBelow(nested) ==
  \A entry \in Entries, value \in Trees :
    nested[entry][value].ok =>
      /\ ~IsVoid(value) => ~IsVoid(nested[entry][value].value)
      /\ nested[entry][value].value \in Trees =>
           nested[entry][nested[entry][value].value] = Normal(nested[entry][value].value)

\* The known fields of an object normalised are those it has.
LEMMA StableFields ==
  ASSUME NEW entry \in DOMAIN Schema, NEW nested, StableBelow(nested),
         NEW source \in Seq(FieldsOf(STRING, Trees)),
         \A i \in DOMAIN source : ~IsVoid(source[i].value),
         \A i \in DOMAIN Children(entry) : OutcomeFor(source, Children(entry)[i], nested).ok,
         Rejoined(source, Children(entry), nested) \in Seq(FieldsOf(STRING, Trees)),
         NEW i \in DOMAIN Children(entry)
  PROVE  LET again == OutcomeFor(Rejoined(source, Children(entry), nested),
                                 Children(entry)[i], nested)
         IN  again.ok /\ again.value = OutcomeFor(source, Children(entry)[i], nested).value
  <1> DEFINE children == Children(entry)
             child == children[i]
             known == KnownFields(source, children, nested)
             unknown == UnknownPlaces(source, children)
             t == Rejoined(source, children, nested)
             outcome == OutcomeFor(source, child, nested)
             again == OutcomeFor(t, child, nested)
             k == FoundAt(t, child)
             default == Schema[child].default
  <1>1. /\ DOMAIN known = DOMAIN children
        /\ \A j \in DOMAIN known :
             /\ known[j].key = NameAt(entry, j)
             /\ known[j].value = OutcomeFor(source, children[j], nested).value
             /\ ChildEntry(entry, known[j].key) = children[j]
             /\ children[j] \in DOMAIN Schema
        /\ unknown \subseteq DOMAIN source
        /\ \A j \in unknown : ChildEntry(entry, source[j].key) = NoEntry
    BY ObjectParts
  <1>2. /\ \A n \in DOMAIN t :
             \/ \E j \in DOMAIN known : t[n] = known[j] /\ ~IsVoid(known[j].value)
             \/ \E j \in unknown : t[n] = source[j]
        /\ \A j \in DOMAIN known :
             ~IsVoid(known[j].value) => \E n \in DOMAIN t : t[n] = known[j]
    BY ObjectRejoined
  <1> HIDE DEF known, unknown, t
  <1>3. /\ child \in DOMAIN Schema /\ child \in Entries /\ child # NoEntry
        /\ known[i].key = Schema[child].name /\ known[i].value = outcome.value
        /\ ChildEntry(entry, Schema[child].name) = child /\ outcome.ok
    BY <1>1, SchemaAssumption DEF Entries, NameAt
  <1>4. again = IF k > 0 THEN nested[child][t[k].value]
                ELSE IF ~IsVoid(default) THEN nested[child][default]
                ELSE IF Schema[child].required THEN Failure ELSE Normal(Void)
    BY DEF OutcomeFor
  <1>5. /\ k > 0 => k \in DOMAIN t /\ t[k].key = Schema[child].name
        /\ ~(k > 0) => \A n \in DOMAIN t : t[n].key # Schema[child].name
    <2>1. t \in Seq(FieldsOf(STRING, Trees))
      BY DEF t
    <2> QED
      BY <2>1, FoundAtIs
  <1>6. \A n \in DOMAIN t : t[n].value \in Trees
    <2>1. \A n \in DOMAIN t : t[n] \in FieldsOf(STRING, Trees)
      BY DEF t
    <2> QED
      BY <2>1 DEF FieldsOf
  <1>7. \/ /\ IsVoid(default) /\ ~Schema[child].required /\ outcome = Normal(Void)
        \/ \E value \in Trees : outcome = nested[child][value] /\ ~IsVoid(value)
    <2>1. \/ /\ ~(FoundAt(source, child) > 0)
             /\ IsVoid(default) /\ ~Schema[child].required
             /\ outcome = Normal(Void)
          \/ \E value \in Trees :
               /\ outcome = nested[child][value]
               /\ \/ value = default /\ ~IsVoid(value)
                  \/ \E j \in DOMAIN source : value = source[j].value
      <3> HIDE DEF child
      <3> QED
        BY <1>3, OutcomeIs
    <2> HIDE DEF child, outcome, default
    <2> QED
      BY <2>1
  <1> HIDE DEF child, outcome, again, k, default
  <1>8. CASE k > 0
    <2>1. k \in DOMAIN t /\ t[k].key = Schema[child].name
      BY <1>5, <1>8
    <2>2. PICK j \in DOMAIN known : t[k] = known[j] /\ ~IsVoid(known[j].value)
      <3>1. ~ \E j \in unknown : t[k] = source[j]
        BY <1>1, <1>3, <2>1
      <3> QED
        BY <1>2, <2>1, <3>1
    <2>3. known[j].key = Schema[child].name
      BY <2>1, <2>2
    <2>4. j = i
      <3>1. NameAt(entry, j) = NameAt(entry, i) /\ j \in DOMAIN Children(entry)
        BY <1>1, <1>3, <2>3 DEF NameAt, child
      <3>2. entry \in Entries
        BY DEF Entries
      <3>3. Rank(entry, NameAt(entry, j)) = j /\ Rank(entry, NameAt(entry, i)) = i
        BY <3>1, <3>2, RankIs
      <3> QED
        BY <3>1, <3>3
    <2>5. t[k].value = outcome.value /\ ~IsVoid(outcome.value) /\ outcome.value \in Trees
      BY <1>3, <1>6, <2>1, <2>2, <2>4
    <2>6. PICK value \in Trees : outcome = nested[child][value]
      <3>1. IsVoid(Normal(Void).value)
        BY DEF Normal, IsVoid, Void, Scalar
      <3> QED
        BY <1>7, <2>5, <3>1
    <2>7. nested[child][outcome.value] = Normal(outcome.value)
      BY <1>3, <2>5, <2>6 DEF StableBelow
    <2>8. again = Normal(outcome.value)
      BY <1>4, <1>8, <2>5, <2>7
    <2> QED
      BY <2>8 DEF Normal, again, outcome, t, child
  <1>9. CASE ~(k > 0)
    <2>1. IsVoid(outcome.value)
      BY <1>1, <1>2, <1>3, <1>5, <1>9
    <2>2. ~ \E value \in Trees : outcome = nested[child][value] /\ ~IsVoid(value)
      BY <1>3, <2>1 DEF StableBelow
    <2>3. IsVoid(default) /\ ~Schema[child].required /\ outcome = Normal(Void)
      BY <1>7, <2>2
    <2>4. again = Normal(Void)
      <3>1. again = IF Schema[child].required THEN Failure ELSE Normal(Void)
        BY <1>4, <1>9, <2>3
      <3> QED
        BY <2>3, <3>1, Zenon
    <2> QED
      BY <2>3, <2>4 DEF Normal, again, outcome, t, child
  <1> QED
    BY <1>8, <1>9

\* The unknown fields are the last ones.
LEMMA StableUnknown ==
  ASSUME NEW entry \in DOMAIN Schema, NEW nested,
         NEW source \in Seq(FieldsOf(STRING, Trees)),
         Rejoined(source, Children(entry), nested) \in Seq(FieldsOf(STRING, Trees))
  PROVE  LET t == Rejoined(source, Children(entry), nested)
         IN  Those(t, UnknownPlaces(t, Children(entry)))
               = Those(source, UnknownPlaces(source, Children(entry)))
  <1> DEFINE children == Children(entry)
             known == KnownFields(source, children, nested)
             unknown == UnknownPlaces(source, children)
             t == Rejoined(source, children, nested)
             a == nonVoidObjectFields(known)
             b == Those(source, unknown)
             F == FieldsOf(STRING, FieldValues(known))
             l == Len(a)
             m == Len(b)
  <1>1. /\ known \in Seq(F) /\ source \in Seq(F) /\ DOMAIN known = DOMAIN children
        /\ \A j \in DOMAIN known : known[j].key = NameAt(entry, j)
        /\ unknown \subseteq DOMAIN source
    BY ObjectParts
  <1>2. t = Together(known, source, unknown)
    BY DEF Rejoined
  <1>12. \A j \in unknown : \A i \in DOMAIN children : NameAt(entry, i) # source[j].key
    BY DEF UnknownPlaces, NameAt
  <1>13. t = a \o b
    BY <1>2 DEF Together
  <1> HIDE DEF known, unknown, t, F
  <1>3. /\ a \in Seq(F)
        /\ \E p \in [DOMAIN a -> DOMAIN known] :
             /\ \A k \in DOMAIN a : a[k] = known[p[k]] /\ ~IsVoid(a[k].value)
             /\ \A j, k \in DOMAIN a : j < k => p[j] < p[k]
    BY <1>1, NonVoidIs
  <1>4. /\ b \in Seq(F)
        /\ \E q \in [DOMAIN b -> unknown] :
             /\ \A k \in DOMAIN b : b[k] = source[q[k]]
             /\ \A j, k \in DOMAIN b : j < k => q[j] < q[k]
    BY <1>1, ThoseIs
  <1> HIDE DEF a, b
  <1>5. /\ l \in Nat /\ m \in Nat /\ DOMAIN a = 1..l /\ DOMAIN b = 1..m
        /\ t \in Seq(F) /\ Len(t) = l + m /\ DOMAIN t = 1..l + m
        /\ \A k \in 1..l + m : t[k] = IF k <= l THEN a[k] ELSE b[k - l]
    <2>1. l \in Nat /\ m \in Nat /\ DOMAIN a = 1..l /\ DOMAIN b = 1..m
      BY <1>3, <1>4
    <2>2. /\ t \in Seq(F) /\ DOMAIN t = 1..l + m
          /\ \A k \in 1..l + m : t[k] = IF k <= l THEN a[k] ELSE b[k - l]
      BY <1>3, <1>4, <1>13, Joined
    <2>3. Len(t) = l + m
      <3>1. Len(t) \in Nat /\ DOMAIN t = 1..Len(t) /\ l + m \in Nat
        BY <2>1, <2>2
      <3> HIDE DEF l, m
      <3> QED
        BY <2>2, <3>1
    <2> QED
      BY <2>1, <2>2, <2>3
  <1> HIDE DEF l, m
  <1>6. ASSUME NEW k \in 1..l + m
        PROVE  k \in UnknownPlaces(t, children) <=> k \in l + 1..l + m
    <2>1. CASE k <= l
      <3>1. t[k] = a[k] /\ k \in DOMAIN a
        BY <1>5, <2>1
      <3>2. PICK j \in DOMAIN known : t[k] = known[j]
        BY <1>3, <3>1
      <3>3. j \in DOMAIN children /\ Schema[children[j]].name = t[k].key
        BY <1>1, <3>2 DEF NameAt
      <3>4. k \notin l + 1..l + m
        BY <1>5, <2>1
      <3> HIDE DEF children
      <3> QED
        BY <3>3, <3>4 DEF UnknownPlaces
    <2>2. CASE ~(k <= l)
      <3>1. t[k] = b[k - l] /\ k - l \in DOMAIN b /\ k \in l + 1..l + m /\ k \in DOMAIN t
        BY <1>5, <2>2
      <3>2. PICK j \in unknown : t[k] = source[j]
        BY <1>4, <3>1
      <3>3. \A i \in DOMAIN children : Schema[children[i]].name # t[k].key
        BY <1>12, <3>2 DEF NameAt
      <3> HIDE DEF children
      <3> QED
        BY <3>1, <3>3 DEF UnknownPlaces
    <2> QED
      BY <2>1, <2>2
  <1>7. UnknownPlaces(t, children) = l + 1..l + m
    <2>1. UnknownPlaces(t, children) \subseteq 1..l + m
      BY <1>5 DEF UnknownPlaces
    <2>2. l + 1..l + m \subseteq 1..l + m
      BY <1>5
    <2> QED
      BY <1>6, <2>1, <2>2
  <1> DEFINE c == Those(t, l + 1..l + m)
  <1>8. c \in Seq(F) /\ Len(c) = m /\ \A k \in 1..m : c[k] = t[l + k]
    BY <1>5, ThoseInterval
  <1> HIDE DEF c
  <1>9. \A k \in 1..m : c[k] = b[k]
    <2> SUFFICES ASSUME NEW k \in 1..m PROVE c[k] = b[k]
      OBVIOUS
    <2>1. l + k \in 1..l + m /\ ~(l + k <= l) /\ l + k - l = k
      BY <1>5
    <2> QED
      BY <1>5, <1>8, <2>1
  <1>10. Len(b) = m
    BY DEF m
  <1>11. c = b
    BY <1>4, <1>8, <1>9, <1>10, SameSequence
  <1> QED
    BY <1>7, <1>11 DEF c, b, t, unknown

LEMMA StableObject ==
  ASSUME NEW entry \in DOMAIN Schema, NEW nested, StableBelow(nested),
         NEW fields \in Seq(FieldsOf(STRING, Trees)),
         normalizeObjectForSchema(fields, Schema[entry].children, nested).ok,
         normalizeObjectForSchema(fields, Schema[entry].children, nested).value \in Trees
  PROVE  LET norm == normalizeObjectForSchema(fields, Schema[entry].children, nested)
         IN  /\ norm = Normal(norm.value) /\ norm.value.kind = "object"
             /\ normalizeObjectForSchema(norm.value.fields, Schema[entry].children, nested) = norm
  <1> DEFINE norm == normalizeObjectForSchema(fields, Schema[entry].children, nested)
             children == Children(entry)
             source == nonVoidObjectFields(fields)
             known == KnownFields(source, children, nested)
             unknown == UnknownPlaces(source, children)
             t == Rejoined(source, children, nested)
             tree == Object(t)
             Outcome(i) == OutcomeFor(source, children[i], nested)
             Again(i) == OutcomeFor(t, children[i], nested)
  <1>1. /\ source \in Seq(FieldsOf(STRING, Trees))
        /\ \A i \in DOMAIN source : ~IsVoid(source[i].value)
    BY NonVoidIs
  <1>2. children = Schema[entry].children
    BY SchemaAssumption DEF Children
  <1>3. norm = IF \E i \in DOMAIN children : ~Outcome(i).ok THEN Failure ELSE Normal(tree)
    BY <1>2, NormalObjectIs
  <1>4. norm.ok /\ norm.value \in Trees
    OBVIOUS
  <1>5. /\ \A i \in DOMAIN children : Outcome(i).ok
        /\ norm = Normal(tree) /\ norm.value = tree
    <2>1. ~Failure.ok /\ Normal(tree).value = tree
      BY DEF Failure, Normal
    <2> HIDE DEF norm, tree, children, Outcome
    <2> QED
      BY <1>3, <1>4, <2>1
  <1>6. tree.kind = "object" /\ tree.fields = t /\ IsContainer(tree)
    BY DEF Object, IsContainer
  <1>7. t \in Seq(FieldsOf(STRING, Trees))
    <2>1. tree.fields \in Seq(FieldsOf(STRING, Trees))
      <3> HIDE DEF norm, tree
      <3> QED
        BY <1>4, <1>5, <1>6, PartsAreTrees
    <2> QED
      BY <1>6, <2>1
  <1>8. \A k \in DOMAIN t : ~IsVoid(t[k].value)
    <2> HIDE DEF source
    <2>1. \A k \in DOMAIN t :
             \/ \E i \in DOMAIN known : t[k] = known[i] /\ ~IsVoid(known[i].value)
             \/ \E i \in unknown : t[k] = source[i]
      BY <1>1, ObjectRejoined
    <2>2. unknown \subseteq DOMAIN source
      BY DEF UnknownPlaces
    <2> HIDE DEF t, known, unknown
    <2> QED
      BY <1>1, <2>1, <2>2
  <1>9. nonVoidObjectFields(t) = t
    <2> DEFINE F == FieldsOf(STRING, Trees)
    <2>1. t \in Seq(F)
      BY <1>7
    <2> HIDE DEF t, F
    <2> QED
      BY <1>8, <2>1, NonVoidSame
  <1>10. \A i \in DOMAIN children : Again(i).ok /\ Again(i).value = Outcome(i).value
    <2> HIDE DEF source
    <2> QED
      BY <1>1, <1>5, <1>7, StableFields
  <1>11. KnownFields(t, children, nested) = known
    <2> HIDE DEF t, source, children
    <2> QED
      BY <1>10 DEF KnownFields
  <1>12. Those(t, UnknownPlaces(t, children)) = Those(source, unknown)
    <2> HIDE DEF source
    <2> QED
      BY <1>1, <1>7, StableUnknown
  <1>13. Rejoined(t, children, nested) = t
    <2>1. Rejoined(t, children, nested)
            = nonVoidObjectFields(known) \o Those(t, UnknownPlaces(t, children))
      <3> HIDE DEF t, known, children
      <3> QED
        BY <1>11 DEF Rejoined, Together
    <2>2. t = nonVoidObjectFields(known) \o Those(source, unknown)
      BY DEF Rejoined, Together
    <2> HIDE DEF t, known, children, source, unknown
    <2> QED
      BY <1>12, <2>1, <2>2
  <1>14. normalizeObjectForSchema(t, children, nested) = Normal(tree)
    <2>1. normalizeObjectForSchema(t, children, nested) =
            IF \E i \in DOMAIN children : ~OutcomeFor(nonVoidObjectFields(t), children[i], nested).ok
              THEN Failure ELSE Normal(Object(Rejoined(nonVoidObjectFields(t), children, nested)))
      <3> HIDE DEF t, children
      <3> QED
        BY NormalObjectIs
    <2> HIDE DEF t, children
    <2> QED
      BY <1>9, <1>10, <1>13, <2>1
  <1> HIDE DEF norm, tree, t, children
  <1> QED
    BY <1>2, <1>5, <1>6, <1>14 DEF norm

LEMMA StableArray ==
  ASSUME NEW entry \in DOMAIN Schema, NEW nested, StableBelow(nested),
         NEW items \in Seq(Trees),
         normalizeArrayForSchema(items, Schema[entry].items, nested).ok,
         normalizeArrayForSchema(items, Schema[entry].items, nested).value \in Trees
  PROVE  LET norm == normalizeArrayForSchema(items, Schema[entry].items, nested)
         IN  /\ norm = Normal(norm.value) /\ norm.value.kind = "array"
             /\ normalizeArrayForSchema(norm.value.items, Schema[entry].items, nested) = norm
  <1> DEFINE norm == normalizeArrayForSchema(items, Schema[entry].items, nested)
             NonVoids(s) == Those(s, {i \in DOMAIN s : ~IsVoid(s[i])})
             below == Schema[entry].items
             source == NonVoids(items)
             Outcomes(s) == [i \in DOMAIN s |-> nested[below][s[i]]]
             outcomes == Outcomes(source)
             new == [i \in DOMAIN source |-> outcomes[i].value]
             tree == Array(new)
  <1>1. norm = IF \E i \in DOMAIN source : ~outcomes[i].ok THEN Failure ELSE Normal(tree)
    BY DEF normalizeArrayForSchema
  <1>2. /\ \A i \in DOMAIN source : outcomes[i].ok
        /\ norm = Normal(tree) /\ norm.value = tree /\ tree \in Trees
    <2>1. norm.ok /\ norm.value \in Trees
      OBVIOUS
    <2>2. ~Failure.ok /\ Normal(tree).value = tree
      BY DEF Failure, Normal
    <2> DEFINE failed == \E i \in DOMAIN source : ~outcomes[i].ok
    <2> HIDE DEF norm, tree
    <2>3. norm = IF failed THEN Failure ELSE Normal(tree)
      BY <1>1
    <2> HIDE DEF failed
    <2>4. (~failed) /\ norm = Normal(tree)
      BY <2>1, <2>2, <2>3
    <2> QED
      BY <2>1, <2>2, <2>4 DEF failed
  <1>3. source \in Seq(Trees) /\ \A i \in DOMAIN source : ~IsVoid(source[i])
    <2> DEFINE places == {i \in DOMAIN items : ~IsVoid(items[i])}
               s == Those(items, places)
    <2>1. places \subseteq DOMAIN items /\ \A i \in places : ~IsVoid(items[i])
      OBVIOUS
    <2> HIDE DEF places
    <2>2. /\ s \in Seq(Trees)
          /\ \E at \in [DOMAIN s -> places] :
               /\ \A k \in DOMAIN s : s[k] = items[at[k]]
               /\ \A j, k \in DOMAIN s : j < k => at[j] < at[k]
               /\ \A i \in places : \E k \in DOMAIN s : at[k] = i
      BY <2>1, ThoseIs
    <2> HIDE DEF s
    <2>3. \A k \in DOMAIN s : ~IsVoid(s[k])
      BY <2>1, <2>2
    <2> QED
      BY <2>2, <2>3 DEF s, places
  <1> HIDE DEF source, norm
  <1>4. tree.kind = "array" /\ tree.items = new /\ IsContainer(tree) /\ Parts(tree) = new
    BY DEF Array, IsContainer, Parts
  <1>5. new \in Seq(Trees)
    <2> HIDE DEF tree, new
    <2> QED
      BY <1>2, <1>4, PartsAreTrees
  <1>6. below \in Entries
    BY SchemaAssumption DEF Entries
  <1>7. ASSUME NEW i \in DOMAIN source
        PROVE  ~IsVoid(new[i]) /\ nested[below][new[i]] = Normal(new[i])
    <2>1. new[i] = nested[below][source[i]].value /\ nested[below][source[i]].ok
      BY <1>2
    <2>2. source[i] \in Trees /\ ~IsVoid(source[i])
      BY <1>3
    <2>3. new[i] \in Trees
      <3>1. i \in DOMAIN new
        OBVIOUS
      <3> HIDE DEF new
      <3> QED
        BY <1>5, <3>1
    <2> HIDE DEF new, below
    <2> QED
      BY <1>6, <2>1, <2>2, <2>3 DEF StableBelow
  <1>8. DOMAIN new = DOMAIN source
    OBVIOUS
  <1> HIDE DEF new
  <1>9. NonVoids(new) = new
    <2>1. {i \in DOMAIN new : ~IsVoid(new[i])} = DOMAIN new
      BY <1>7, <1>8
    <2> QED
      BY <1>5, <2>1, ThoseAll
  <1> DEFINE again == Outcomes(new)
  <1>10. \A i \in DOMAIN new : again[i] = Normal(new[i])
    BY <1>7, <1>8
  <1>11. normalizeArrayForSchema(new, below, nested)
           = IF \E i \in DOMAIN new : ~again[i].ok THEN Failure
             ELSE Normal(Array([i \in DOMAIN new |-> again[i].value]))
    BY <1>9 DEF normalizeArrayForSchema
  <1> HIDE DEF again
  <1>12. ASSUME NEW i \in DOMAIN new PROVE again[i].ok /\ again[i].value = new[i]
    <2>1. again[i] = Normal(new[i])
      BY <1>10
    <2>2. Normal(new[i]).ok /\ Normal(new[i]).value = new[i]
      BY NormalIs
    <2> QED
      BY <2>1, <2>2
  <1>13. [i \in DOMAIN new |-> again[i].value] = new
    BY <1>5, <1>12
  <1>14. normalizeArrayForSchema(new, below, nested) = Normal(tree)
    BY <1>11, <1>12, <1>13
  <1> HIDE DEF tree
  <1> QED
    BY <1>2, <1>4, <1>14 DEF norm

\* Normalising a value for a schema once more changes nothing.
LEMMA NormalIsStable ==
  ASSUME NEW value \in Trees, NEW entry \in Entries,
         normalizeValueForSchema(value, entry).ok,
         normalizeValueForSchema(value, entry).value \in Trees
  PROVE  normalizeValueForSchema(normalizeValueForSchema(value, entry).value, entry)
           = Normal(normalizeValueForSchema(value, entry).value)
  <1> DEFINE T == {n \in Nat : StableBelow(normalized[n])}
             Stable(v, norm, again) ==
               norm.ok => /\ ~IsVoid(v) => ~IsVoid(norm.value)
                          /\ norm.value \in Trees => again = Normal(norm.value)
  <1>1. \A v : Normal(v).value = v /\ Normal(v).ok
    BY DEF Normal
  <1>2. ~Failure.ok
    BY DEF Failure
  <1>3. 0 \in T
    <2> SUFFICES ASSUME NEW e \in Entries, NEW v \in Trees
                 PROVE  Stable(v, normalized[0][e][v], normalized[0][e][normalized[0][e][v].value])
      BY DEF StableBelow
    <2>1. normalized[0][e][v] = IF e = NoEntry THEN Normal(v) ELSE Failure
      BY NormalizedAt
    <2>2. CASE e = NoEntry
      BY <1>1, <2>1, <2>2
    <2>3. CASE e # NoEntry
      BY <1>2, <2>1, <2>3
    <2> QED
      BY <2>2, <2>3
  <1>4. ASSUME NEW n \in Nat, n \in T PROVE n + 1 \in T
    <2> DEFINE nested == normalized[n]
               More(e, v) == normalized[n + 1][e][v]
    <2> SUFFICES ASSUME NEW e \in Entries, NEW v \in Trees
                 PROVE  Stable(v, More(e, v), More(e, More(e, v).value))
      BY DEF StableBelow
    <2> DEFINE Norm(x) == normalizeGoverned(x, Schema[e], nested)
               norm == Norm(v)
    <2>1. \A x \in Trees : More(e, x) = IF e = NoEntry THEN Normal(x) ELSE Norm(x)
      BY NormalizedAt
    <2>2. StableBelow(nested)
      BY <1>4
    <2> HIDE DEF nested, More
    <2>3. CASE e = NoEntry
      BY <1>1, <2>1, <2>3
    <2>4. CASE e # NoEntry
      <3>1. e \in DOMAIN Schema /\ More(e, v) = norm
        BY <2>1, <2>4 DEF Entries
      <3>2. \A x \in Trees : More(e, x) = Norm(x)
        BY <2>1, <2>4
      <3> SUFFICES ASSUME norm.ok
                   PROVE  /\ ~IsVoid(v) => ~IsVoid(norm.value)
                          /\ norm.value \in Trees => Norm(norm.value) = Normal(norm.value)
        BY <3>1, <3>2
      <3>3. CASE v.kind = "object" /\ Schema[e].kind = "object"
        <4>1. \A x : x.kind = "object" =>
                Norm(x) = normalizeObjectForSchema(x.fields, Schema[e].children, nested)
          BY <3>3 DEF normalizeGoverned
        <4>2. v.fields \in Seq(FieldsOf(STRING, Trees))
          BY <3>3, PartsAreTrees DEF IsContainer
        <4>3. norm = normalizeObjectForSchema(v.fields, Schema[e].children, nested)
          BY <3>3, <4>1
        <4> HIDE DEF norm, Norm
        <4>4. ~IsVoid(norm.value)
          <5>1. norm = Failure \/ \E x : norm = Normal(Object(x))
            BY <4>3, NormalObjectIs
          <5>2. PICK x : norm = Normal(Object(x))
            BY <1>2, <5>1
          <5> QED
            BY <1>1, <5>2 DEF Object, IsVoid
        <4>5. ASSUME norm.value \in Trees PROVE Norm(norm.value) = Normal(norm.value)
          <5>1. /\ norm = Normal(norm.value) /\ norm.value.kind = "object"
                /\ normalizeObjectForSchema(norm.value.fields, Schema[e].children, nested) = norm
            BY <2>2, <3>1, <4>2, <4>3, <4>5, StableObject
          <5> QED
            BY <4>1, <5>1
        <4> QED
          BY <4>4, <4>5
      <3>4. CASE v.kind = "array" /\ Schema[e].kind = "array"
        <4>1. \A x : x.kind = "array" =>
                Norm(x) = normalizeArrayForSchema(x.items, Schema[e].items, nested)
          BY <3>4 DEF normalizeGoverned
        <4>2. v.items \in Seq(Trees)
          BY <3>4, PartsAreTrees DEF IsContainer
        <4>3. norm = normalizeArrayForSchema(v.items, Schema[e].items, nested)
          BY <3>4, <4>1
        <4> HIDE DEF norm, Norm
        <4>4. ~IsVoid(norm.value)
          <5>1. norm = Failure \/ \E x : norm = Normal(Array(x))
            BY <4>3 DEF normalizeArrayForSchema
          <5>2. PICK x : norm = Normal(Array(x))
            BY <1>2, <5>1
          <5> QED
            BY <1>1, <5>2 DEF Array, IsVoid
        <4>5. ASSUME norm.value \in Trees PROVE Norm(norm.value) = Normal(norm.value)
          <5>1. /\ norm = Normal(norm.value) /\ norm.value.kind = "array"
                /\ normalizeArrayForSchema(norm.value.items, Schema[e].items, nested) = norm
            BY <2>2, <3>1, <4>2, <4>3, <4>5, StableArray
          <5> QED
            BY <4>1, <5>1
        <4> QED
          BY <4>4, <4>5
      <3>5. CASE v.kind \in {"object", "array"} /\ v.kind # Schema[e].kind
        <4>1. norm = Failure
          BY <3>5 DEF normalizeGoverned
        <4> QED
          BY <1>2, <4>1
      <3>6. CASE v.kind = "null"
        <4>1. \A x : x.kind = "null" => Norm(x) = norm
          BY <3>6 DEF normalizeGoverned
        <4>2. norm = Failure \/ norm = Normal(Null)
          BY <3>6 DEF normalizeGoverned
        <4>3. norm = Normal(Null) /\ norm.value = Null /\ Null.kind = "null" /\ ~IsVoid(Null)
          BY <1>1, <1>2, <4>2 DEF Null, Scalar, IsVoid
        <4> HIDE DEF norm, Norm
        <4> QED
          BY <4>1, <4>3
      <3>7. CASE v.kind \notin {"object", "array", "null"}
        <4>1. norm = Failure \/ norm = Normal(v)
          BY <3>7 DEF normalizeGoverned
        <4>2. norm = Normal(v) /\ norm.value = v
          BY <1>1, <1>2, <4>1
        <4> HIDE DEF Norm
        <4> QED
          BY <4>2
      <3> QED
        BY <3>3, <3>4, <3>5, <3>6, <3>7
    <2> QED
      BY <2>3, <2>4
  <1> HIDE DEF T
  <1>5. \A n \in Nat : n \in T
    BY <1>3, <1>4, Induction
  <1>6. Cardinality(DOMAIN Schema) \in Nat
    BY SchemaAssumption, FS_CardinalityType
  <1>7. StableBelow(normalized[Cardinality(DOMAIN Schema)])
    BY <1>5, <1>6 DEF T
  <1> QED
    BY <1>7 DEF StableBelow, normalizeValueForSchema

-----------------------------------------------------------------------------
(* Nodes whose known fields are in order, and whose governed parts carry   *)
(* the entry that governs them.                                            *)

OrderedNode(heap, r) == heap[r].kind = "object" => Ordered(heap[r].fields, heap[r].entry)

GovernedNode(heap, r) ==
  \A i \in DOMAIN Parts(heap[r]) :
    LET part  == Parts(heap[r])[i]
        entry == PartEntry(heap[r], i, heap[r].entry)
    IN  IsRef(part) /\ entry # NoEntry => heap[part.ref].entry = entry

\* What such nodes denote is in order.
LEMMA ViewInOrder ==
  ASSUME NEW heap, HeapOK(heap),
         \A r \in DOMAIN heap : OrderedNode(heap, r) /\ GovernedNode(heap, r),
         NEW slot \in Links(DOMAIN heap)
  PROVE  InOrder(View(heap, slot), EntryOf(heap, slot))
  <1>1. PICK view : /\ Viewing(heap, view)
                    /\ \A s : View(heap, s) = IF IsRef(s) THEN view[MaxDepth][s.ref] ELSE s
    BY ViewIs
  <1> DEFINE D == DOMAIN heap
             T == {n \in Nat : \A r \in D : InOrder(view[n][r], heap[r].entry)}
  <1>0. heap \in [D -> NodesWith(Links(D))]
    BY DEF HeapOK
  <1>2. 0 \in T
    <2>1. ~IsContainer(Void)
      BY DEF IsContainer, Void, Scalar
    <2> QED
      BY <1>1, <2>1 DEF Viewing, InOrder
  <1>3. ASSUME NEW n \in Nat, n \in T PROVE n + 1 \in T
    <2> SUFFICES ASSUME NEW r \in D PROVE InOrder(view[n + 1][r], heap[r].entry)
      OBVIOUS
    <2> DEFINE node == heap[r]
               slots == Parts(node)
               tree == view[n + 1][r]
    <2>1. tree = TreeAt(heap, view[n], r)
      BY <1>1 DEF Viewing
    <2>2. view[n] \in [D -> Nested[n]] /\ tree \in Nested[n + 1]
      <3>1. n + 1 \in Nat
        OBVIOUS
      <3>2. view[n] \in [D -> Nested[n]] /\ view[n + 1] \in [D -> Nested[n + 1]]
        BY <1>1, <3>1 DEF Viewing
      <3> QED
        BY <3>2
    <2>3. /\ node \in NodesWith(Links(D)) /\ slots \in Seq(Links(D)) /\ node.entry \in Entries
          /\ node.kind = "object" \/ node.kind = "array"
          /\ node.kind = "object" => DOMAIN slots = DOMAIN node.fields
      BY <1>0, NodeShape
    <2> DEFINE Part(s) == IF IsRef(s) THEN view[n][s.ref] ELSE s
    <2>4. tree = TreeOf(node, [i \in DOMAIN slots |-> Part(slots[i])])
      BY <2>1 DEF TreeAt
    <2> HIDE DEF node, slots, tree, D
    <2>5. /\ tree.kind = node.kind /\ DOMAIN Parts(tree) = DOMAIN slots
          /\ \A i \in DOMAIN slots : Parts(tree)[i] = Part(slots[i])
          /\ node.kind = "object" =>
               /\ DOMAIN tree.fields = DOMAIN slots
               /\ \A i \in DOMAIN slots : tree.fields[i].key = node.fields[i].key
      <3>1. CASE node.kind = "array"
        BY <2>4, <3>1 DEF TreeOf, Array, Parts
      <3>2. CASE node.kind = "object"
        BY <2>4, <3>2 DEF TreeOf, Object, Field, Parts
      <3> QED
        BY <2>3, <3>1, <3>2
    <2>6. tree.kind = "object" => Ordered(tree.fields, node.entry)
      <3> SUFFICES ASSUME tree.kind = "object" PROVE Ordered(tree.fields, node.entry)
        OBVIOUS
      <3> DEFINE f == tree.fields
                 o == node.fields
      <3>1. Ordered(o, node.entry)
        BY <2>5 DEF OrderedNode, node, D
      <3>2. DOMAIN f = DOMAIN o /\ \A i \in DOMAIN f : f[i].key = o[i].key
        BY <2>3, <2>5
      <3> HIDE DEF f, o
      <3>3. Ordered(f, node.entry)
        BY <3>1, <3>2, OrderedKeys
      <3> QED
        BY <3>3 DEF f
    <2>7. ASSUME NEW i \in ContainersIn(tree)
          PROVE  InOrder(Parts(tree)[i], PartEntry(tree, i, node.entry))
      <3>1. /\ i \in DOMAIN slots /\ Parts(tree)[i] = Part(slots[i])
            /\ IsContainer(Parts(tree)[i]) /\ slots[i] \in Links(D)
        BY <2>3, <2>5 DEF ContainersIn
      <3>2. IsRef(slots[i])
        BY <3>1, LinkOrScalar, ScalarKind
      <3>3. slots[i].ref \in D
        BY <3>1, <3>2, LinkOrScalar
      <3>4. PartEntry(tree, i, node.entry) = PartEntry(node, i, node.entry)
        BY <2>3, <2>5, <3>1 DEF PartEntry
      <3> DEFINE q == slots[i].ref
                 e == PartEntry(node, i, node.entry)
      <3>5. Parts(tree)[i] = view[n][q] /\ view[n][q] \in Nested[n]
        BY <2>2, <3>1, <3>2, <3>3
      <3>6. InOrder(view[n][q], heap[q].entry)
        BY <1>3, <3>3 DEF D
      <3>7. e # NoEntry => heap[q].entry = e
        BY <3>1, <3>2 DEF GovernedNode, node, slots, D
      <3>8. CASE e # NoEntry
        BY <3>4, <3>5, <3>6, <3>7, <3>8
      <3>9. CASE e = NoEntry
        <4>1. view[n][q] \in UNION {Nested[m] : m \in Nat}
          BY <3>5
        <4> HIDE DEF q
        <4>2. InOrder(view[n][q], NoEntry)
          BY <4>1, NoEntryInOrder
        <4> QED
          BY <3>4, <3>5, <3>9, <4>2
      <3> QED
        BY <3>8, <3>9
    <2>8. tree \in UNION {Nested[m] : m \in Nat}
      BY <2>2
    <2>9. InOrder(tree, node.entry)
      BY <2>3, <2>6, <2>7, <2>8, InOrderAround
    <2> QED
      BY <2>9 DEF tree, node
  <1> HIDE DEF T
  <1>4. \A n \in Nat : n \in T
    BY <1>2, <1>3, Induction
  <1>5. \A r \in D : InOrder(view[MaxDepth][r], heap[r].entry)
    BY <1>4, DepthAssumption DEF T
  <1>6. CASE IsRef(slot)
    <2>1. slot.ref \in D
      BY <1>6, LinkOrScalar, Zenon
    <2> QED
      BY <1>1, <1>5, <1>6, <2>1 DEF EntryOf
  <1>7. CASE ~IsRef(slot)
    <2>1. slot \in ScalarValues
      BY <1>7, LinkOrScalar, Zenon
    <2> QED
      BY <1>1, <1>7, <2>1, ScalarKind DEF InOrder
  <1> QED
    BY <1>6, <1>7

-----------------------------------------------------------------------------
(* Nodes that are in no cycle.                                             *)

\* Sets that grow as long as they can fill a finite set in as many steps as it
\* has elements.
LEMMA Saturates ==
  ASSUME NEW D, IsFiniteSet(D), NEW G,
         \A n \in Nat : G[n] \subseteq D /\ G[n] \subseteq G[n + 1],
         \A n \in Nat : G[n] # D => G[n + 1] # G[n],
         NEW m \in Nat, Cardinality(D) <= m
  PROVE  G[m] = D
  <1> DEFINE T == {n \in Nat : n <= Cardinality(G[n]) \/ G[n] = D}
  <1>1. Cardinality(D) \in Nat
    BY FS_CardinalityType
  <1>2. \A n \in Nat : IsFiniteSet(G[n]) /\ Cardinality(G[n]) \in Nat
    BY FS_Subset, FS_CardinalityType
  <1>3. 0 \in T
    BY <1>2
  <1>4. ASSUME NEW n \in Nat, n \in T PROVE n + 1 \in T
    <2>1. CASE G[n] = D
      <3>1. n + 1 \in Nat /\ G[n + 1] = D
        <4>1. n + 1 \in Nat /\ G[n] \subseteq G[n + 1]
          OBVIOUS
        <4> QED
          BY <2>1, <4>1
      <3> QED
        BY <3>1
    <2>2. CASE G[n] # D
      <3>1. n + 1 \in Nat /\ n <= Cardinality(G[n])
        BY <1>4, <2>2
      <3>2. IsFiniteSet(G[n + 1]) /\ G[n] \in SUBSET G[n + 1] /\ G[n + 1] # G[n]
        BY <1>2, <2>2, <3>1
      <3>3. /\ Cardinality(G[n]) <= Cardinality(G[n + 1])
            /\ Cardinality(G[n + 1]) # Cardinality(G[n])
        BY <3>2, FS_Subset
      <3>4. n + 1 <= Cardinality(G[n + 1])
        BY <1>2, <3>1, <3>3
      <3> QED
        BY <3>1, <3>4
    <2> QED
      BY <2>1, <2>2
  <1> HIDE DEF T
  <1>5. m \in T
    BY <1>3, <1>4, Induction
  <1>6. CASE G[m] = D
    BY <1>6
  <1>7. CASE m <= Cardinality(G[m])
    <2>1. G[m] \in SUBSET D /\ Cardinality(G[m]) <= Cardinality(D)
      BY FS_Subset
    <2>2. Cardinality(G[m]) = Cardinality(D)
      BY <1>1, <1>2, <1>7, <2>1
    <2> QED
      BY <2>1, <2>2, FS_Subset
  <1> QED
    BY <1>5, <1>6, <1>7 DEF T

\* Among any nodes there is one that refers to none of them.
Grounded(h) ==
  \A nodes \in SUBSET DOMAIN h :
    nodes # {} => \E r \in nodes : RefsIn(Slots(h[r])) \cap nodes = {}

\* Nodes may go, and references too.
LEMMA FewerGrounded ==
  ASSUME NEW h, Grounded(h), NEW new, DOMAIN new \subseteq DOMAIN h,
         \A r \in DOMAIN new : RefsIn(Slots(new[r])) \subseteq RefsIn(Slots(h[r]))
  PROVE  Grounded(new)
  BY DEF Grounded

\* A node gains what does not lead back to it.
LEMMA EditGrounded ==
  ASSUME NEW h, HeapOK(h), Grounded(h), NEW r \in DOMAIN h,
         NEW slot \in Links(DOMAIN h), r \notin Own(h, slot),
         NEW new, DOMAIN new = DOMAIN h, \A q \in DOMAIN h : q # r => new[q] = h[q],
         RefsIn(Slots(new[r])) \subseteq RefsIn(Slots(h[r])) \cup RefsIn({slot})
  PROVE  Grounded(new)
  <1> DEFINE R == Own(h, slot)
  <1>1. R \subseteq DOMAIN h /\ Closed(h, R) /\ slot \in Links(R)
    BY OwnIs
  <1>2. RefsIn({slot}) \subseteq R
    <2> HIDE DEF R
    <2> QED
      BY <1>1, LinkOrScalar
  <1> HIDE DEF R
  <1> SUFFICES ASSUME NEW S \in SUBSET DOMAIN h, S # {}
               PROVE  \E q \in S : RefsIn(Slots(new[q])) \cap S = {}
    BY DEF Grounded
  <1>3. CASE S \cap R # {}
    <2>1. PICK q \in S \cap R : RefsIn(Slots(h[q])) \cap (S \cap R) = {}
      <3>1. S \cap R \in SUBSET DOMAIN h
        OBVIOUS
      <3> QED
        BY <1>3, <3>1 DEF Grounded
    <2>2. q # r
      BY DEF R
    <2>3. RefsIn(Slots(h[q])) \subseteq R /\ new[q] = h[q]
      BY <1>1, <2>2 DEF Closed
    <2> QED
      BY <2>1, <2>3
  <1>4. CASE S \cap R = {}
    <2>1. PICK q \in S : RefsIn(Slots(h[q])) \cap S = {}
      BY DEF Grounded
    <2>2. RefsIn(Slots(new[q])) \subseteq RefsIn(Slots(h[q])) \cup R
      BY <1>2
    <2> QED
      BY <1>4, <2>1, <2>2
  <1> QED
    BY <1>3, <1>4

\* A part of a new node that is itself a node shows what stands in the tree.
LEMMA PartShown ==
  ASSUME NEW new, NEW places, Shows(new, places), NEW r \in DOMAIN places,
         NEW i \in DOMAIN Parts(new[r]), IsRef(Parts(new[r])[i])
  PROVE  LET q == Parts(new[r])[i].ref
         IN  /\ i \in ContainersIn(places[r].tree) /\ q \in DOMAIN places
             /\ places[q] = PartAt(places[r], i)
  <1>1. places[r] \in TreePlaces /\ NodeShows(new, r, places)
    BY DEF Shows
  <1>2. /\ DOMAIN Parts(new[r]) = DOMAIN Parts(places[r].tree)
        /\ IsContainer(places[r].tree)
        /\ ~IsContainer(Parts(places[r].tree)[i]) => Parts(new[r])[i] = Parts(places[r].tree)[i]
        /\ IsContainer(Parts(places[r].tree)[i]) =>
            /\ Parts(new[r])[i].ref \in DOMAIN places
            /\ places[Parts(new[r])[i].ref] = PartAt(places[r], i)
    BY <1>1 DEF NodeShows
  <1>3. ~IsRef(Parts(places[r].tree)[i])
    <2>1. PICK n \in Nat : places[r].tree \in Nested[n]
      BY <1>1 DEF TreePlaces
    <2>2. n # 0 /\ n - 1 \in Nat /\ Parts(places[r].tree)[i] \in Nested[n - 1]
      BY <1>2, <2>1, PartsNest
    <2> QED
      BY <2>2, TreeShape
  <1>4. IsContainer(Parts(places[r].tree)[i])
    BY <1>2, <1>3
  <1> QED
    BY <1>2, <1>4 DEF ContainersIn

\* A tree is stored without a cycle.
LEMMA StoredGrounded ==
  ASSUME NEW h, HeapOK(h), Grounded(h), NEW tree \in Trees,
         NEW attached \in BOOLEAN, NEW entry \in Entries
  PROVE  Grounded(Store(h, tree, attached, entry).heap)
  <1> DEFINE new == Store(h, tree, attached, entry).heap
             slot == Store(h, tree, attached, entry).slot
             N == DOMAIN new \ DOMAIN h
  <1>1. StoredIn(h, new, slot, tree, attached, entry)
    BY Stored
  <1>2. PICK places : DOMAIN places = N /\ Shows(new, places)
    BY StoredShows
  <1> HIDE DEF new, slot
  <1>3. /\ DOMAIN h \subseteq DOMAIN new /\ \A r \in DOMAIN h : new[r] = h[r]
        /\ Closed(new, N) /\ Closed(h, DOMAIN h)
    BY <1>1, HeapClosed DEF StoredIn, Added
  <1> SUFFICES ASSUME NEW S \in SUBSET DOMAIN new, S # {}
               PROVE  \E q \in S : RefsIn(Slots(new[q])) \cap S = {}
    BY DEF Grounded, new
  <1>4. CASE S \cap DOMAIN h # {}
    <2>1. PICK q \in S \cap DOMAIN h : RefsIn(Slots(h[q])) \cap (S \cap DOMAIN h) = {}
      <3>1. S \cap DOMAIN h \in SUBSET DOMAIN h
        OBVIOUS
      <3> QED
        BY <1>4, <3>1 DEF Grounded
    <2>2. RefsIn(Slots(h[q])) \subseteq DOMAIN h /\ new[q] = h[q]
      BY <1>3 DEF Closed
    <2> QED
      BY <2>1, <2>2
  <1>5. CASE S \cap DOMAIN h = {}
    <2>1. S \subseteq N
      BY <1>5
    <2> DEFINE T == {n \in Nat : \E r \in S : places[r].tree \in Nested[n]}
    <2>2. T # {}
      <3>1. PICK r \in S : TRUE
        OBVIOUS
      <3>2. places[r] \in TreePlaces
        BY <1>2, <2>1, <3>1 DEF Shows
      <3> QED
        BY <3>2 DEF TreePlaces
    <2>3. PICK m \in T : \A n \in T : m <= n
      BY <2>2, Least
    <2>4. PICK r \in S : places[r].tree \in Nested[m]
      OBVIOUS
    <2>5. ASSUME NEW q \in RefsIn(Slots(new[r])) PROVE q \notin S
      <3>1. PICK i \in DOMAIN Parts(new[r]) : IsRef(Parts(new[r])[i]) /\ Parts(new[r])[i].ref = q
        BY DEF RefsIn, Slots, Range
      <3>2. /\ i \in ContainersIn(places[r].tree) /\ q \in DOMAIN places
            /\ places[q] = PartAt(places[r], i)
        BY <1>2, <2>1, <3>1, PartShown
      <3>3. IsContainer(places[r].tree)
        BY <1>2, <2>1 DEF Shows, NodeShows
      <3>4. m # 0 /\ m - 1 \in Nat /\ Parts(places[r].tree)[i] \in Nested[m - 1]
        BY <2>4, <3>2, <3>3, PartsNest
      <3>5. places[q].tree \in Nested[m - 1]
        BY <3>2, <3>4 DEF PartAt
      <3>6. CASE q \in S
        <4>1. m - 1 \in T
          BY <3>4, <3>5, <3>6
        <4>2. m <= m - 1
          BY <2>3, <4>1
        <4> QED
          BY <3>4, <4>2
      <3> QED
        BY <3>6
    <2> QED
      BY <2>5
  <1> QED
    BY <1>4, <1>5

-----------------------------------------------------------------------------
(* Values without hidden parts: no part is Void, and no key occurs twice.  *)

NeatTop(tree) == ~IsVoid(tree) /\ (tree.kind = "object" => Distinct(tree.fields))

NeatBelow(trees) ==
  \A tree \in trees :
    /\ NeatTop(tree)
    /\ IsContainer(tree) => \A i \in DOMAIN Parts(tree) : Parts(tree)[i] \in trees

AllTrees == UNION {Nested[n] : n \in Nat}

Neat == UNION {trees \in SUBSET AllTrees : NeatBelow(trees)}

LEMMA NeatIs == Neat \subseteq AllTrees /\ NeatBelow(Neat)
  <1>1. ASSUME NEW tree \in Neat
        PROVE  /\ tree \in AllTrees /\ NeatTop(tree)
               /\ IsContainer(tree) => \A i \in DOMAIN Parts(tree) : Parts(tree)[i] \in Neat
    <2>1. PICK trees \in SUBSET AllTrees : NeatBelow(trees) /\ tree \in trees
      BY DEF Neat
    <2>2. trees \subseteq Neat
      BY <2>1 DEF Neat
    <2>3. /\ NeatTop(tree)
          /\ IsContainer(tree) => \A i \in DOMAIN Parts(tree) : Parts(tree)[i] \in trees
      BY <2>1 DEF NeatBelow
    <2> QED
      BY <2>1, <2>2, <2>3
  <1>2. Neat \subseteq AllTrees
    BY <1>1
  <1>3. NeatBelow(Neat)
    BY <1>1 DEF NeatBelow
  <1> QED
    BY <1>2, <1>3

\* A value is neat when its own fields are and all its parts are.
LEMMA NeatAround ==
  ASSUME NEW tree \in AllTrees, NeatTop(tree),
         IsContainer(tree) => \A i \in DOMAIN Parts(tree) : Parts(tree)[i] \in Neat
  PROVE  tree \in Neat
  <1> DEFINE T == Neat \cup {tree}
  <1>1. Neat \subseteq AllTrees /\ NeatBelow(Neat)
    BY NeatIs
  <1>2. T \in SUBSET AllTrees
    BY <1>1
  <1>3. ASSUME NEW t \in T
        PROVE  /\ NeatTop(t)
               /\ IsContainer(t) => \A i \in DOMAIN Parts(t) : Parts(t)[i] \in T
    <2>1. CASE t = tree
      BY <2>1
    <2>2. CASE t \in Neat
      BY <1>1, <2>2 DEF NeatBelow
    <2> QED
      BY <2>1, <2>2
  <1>4. NeatBelow(T)
    BY <1>3 DEF NeatBelow
  <1>5. tree \in T
    OBVIOUS
  <1> HIDE DEF T
  <1> QED
    BY <1>2, <1>4, <1>5 DEF Neat

\* NoHiddenSlots, for one node.
NeatNode(h, r) ==
  /\ Void \notin Slots(h[r])
  /\ h[r].kind = "object" => Distinct(h[r].fields)

LEMMA VoidIs == \A scalar \in ScalarValues : IsVoid(scalar) <=> scalar = Void
  <1>1. Void.kind = "void" /\ Null.kind = "null"
    BY DEF Void, Null, Scalar
  <1>2. \A s \in [kind : {"boolean", "number", "string"}, text : STRING] : s.kind # "void"
    OBVIOUS
  <1> QED
    BY <1>1, <1>2, Zenon DEF ScalarValues, IsVoid

\* The tree at a node is neat when those its parts refer to are.
LEMMA NeatTreeAt ==
  ASSUME NEW h, HeapOK(h), NEW n \in Nat, NEW trees \in [DOMAIN h -> Nested[n]],
         NEW r \in DOMAIN h, NeatNode(h, r)
  PROVE  TreeAt(h, trees, r) \in Neat <=> \A q \in RefsIn(Slots(h[r])) : trees[q] \in Neat
  <1> DEFINE tree == TreeAt(h, trees, r)
             node == h[r]
  <1>1. /\ tree \in Nested[n + 1] /\ IsContainer(tree) /\ tree.kind = node.kind
        /\ DOMAIN Parts(tree) = DOMAIN Parts(node)
        /\ \A i \in DOMAIN Parts(node) :
             /\ Parts(node)[i] \in Links(DOMAIN h)
             /\ IsRef(Parts(node)[i]) => Parts(tree)[i] = trees[Parts(node)[i].ref]
             /\ ~IsRef(Parts(node)[i]) => Parts(tree)[i] = Parts(node)[i]
             /\ node.kind = "object" => tree.fields[i].key = node.fields[i].key
    BY TreeAtIs
  <1>2. node \in NodesWith(Links(DOMAIN h))
    BY DEF HeapOK
  <1>3. \A q : q \in RefsIn(Slots(node)) <=>
               \E i \in DOMAIN Parts(node) : IsRef(Parts(node)[i]) /\ Parts(node)[i].ref = q
    BY DEF RefsIn, Slots, Range
  <1> HIDE DEF tree
  <1>4. ASSUME NEW i \in DOMAIN Parts(node), ~IsRef(Parts(node)[i])
        PROVE  Parts(tree)[i] \in Neat
    <2>1. Parts(node)[i] \in ScalarValues
      BY <1>1, <1>4, LinkOrScalar
    <2>2. Parts(node)[i] # Void
      <3>1. Parts(node)[i] \in Slots(node)
        BY DEF Slots, Range
      <3> QED
        BY <3>1 DEF NeatNode
    <2>3. ~IsContainer(Parts(node)[i]) /\ ~IsVoid(Parts(node)[i])
      BY <2>1, <2>2, ScalarKind, VoidIs
    <2>4. Parts(node)[i] \in AllTrees
      BY <2>1, ScalarsNest DEF AllTrees
    <2>5. NeatTop(Parts(node)[i])
      BY <2>3 DEF NeatTop, IsContainer
    <2>6. Parts(node)[i] \in Neat
      BY <2>3, <2>4, <2>5, NeatAround
    <2> QED
      BY <1>1, <1>4, <2>6
  <1>5. NeatTop(tree)
    <2>1. ~IsVoid(tree)
      BY <1>1 DEF IsVoid, IsContainer
    <2>2. CASE tree.kind = "object"
      <3>1. Distinct(node.fields)
        BY <1>1, <2>2 DEF NeatNode
      <3>2. DOMAIN Parts(node) = DOMAIN node.fields
        <4>1. node.kind = "object"
          BY <1>1, <2>2
        <4> HIDE DEF node
        <4> QED
          BY <4>1 DEF Parts
      <3>3. DOMAIN Parts(tree) = DOMAIN tree.fields
        BY <2>2 DEF Parts
      <3> DEFINE f == tree.fields
                 g == node.fields
      <3>4. DOMAIN f = DOMAIN g /\ \A i \in DOMAIN f : f[i].key = g[i].key
        BY <1>1, <2>2, <3>2, <3>3
      <3>5. Distinct(g)
        BY <3>1
      <3> HIDE DEF f, g
      <3>6. Distinct(f)
        BY <3>4, <3>5 DEF Distinct
      <3> QED
        BY <2>1, <3>6 DEF NeatTop, f
    <2> QED
      BY <2>1, <2>2 DEF NeatTop
  <1>6. tree \in AllTrees
    BY <1>1 DEF AllTrees
  <1>7. ASSUME \A q \in RefsIn(Slots(node)) : trees[q] \in Neat PROVE tree \in Neat
    <2>1. ASSUME NEW i \in DOMAIN Parts(tree) PROVE Parts(tree)[i] \in Neat
      BY <1>1, <1>3, <1>4, <1>7
    <2> QED
      BY <1>5, <1>6, <2>1, NeatAround
  <1>8. ASSUME tree \in Neat, NEW q \in RefsIn(Slots(node)) PROVE trees[q] \in Neat
    <2>1. PICK i \in DOMAIN Parts(node) : IsRef(Parts(node)[i]) /\ Parts(node)[i].ref = q
      BY <1>3
    <2>2. Parts(tree)[i] \in Neat
      BY <1>1, <1>8, <2>1, NeatIs DEF NeatBelow
    <2> QED
      BY <1>1, <2>1, <2>2
  <1> QED
    BY <1>7, <1>8 DEF tree

\* What a client sees of neat nodes is neat.
LEMMA NeatView ==
  ASSUME NEW h, HeapOK(h), Grounded(h), \A r \in DOMAIN h : NeatNode(h, r),
         Cardinality(DOMAIN h) <= MaxDepth,
         NEW slot \in Links(DOMAIN h), ~IsVoid(slot)
  PROVE  View(h, slot) \in Neat
  <1> DEFINE D == DOMAIN h
  <1>1. PICK view : /\ Viewing(h, view)
                    /\ \A s : View(h, s) = IF IsRef(s) THEN view[MaxDepth][s.ref] ELSE s
    BY ViewIs
  <1>2. /\ view[0] = [r \in D |-> Void]
        /\ \A n \in Nat : /\ view[n] \in [D -> Nested[n]]
                          /\ view[n + 1] = [r \in D |-> TreeAt(h, view[n], r)]
    BY <1>1 DEF Viewing
  <1> DEFINE G == [n \in Nat |-> {r \in D : view[n][r] \in Neat}]
  <1>3. G[0] = {}
    <2>1. \A r \in D : view[0][r] = Void
      BY <1>2
    <2>2. Void \notin Neat
      BY NeatIs, VoidLinks DEF NeatBelow, NeatTop
    <2> QED
      BY <2>1, <2>2
  <1>4. ASSUME NEW n \in Nat, NEW r \in D
        PROVE  r \in G[n + 1] <=> RefsIn(Slots(h[r])) \subseteq G[n]
    <2>1. view[n + 1][r] = TreeAt(h, view[n], r)
      BY <1>2
    <2>2. TreeAt(h, view[n], r) \in Neat <=> \A q \in RefsIn(Slots(h[r])) : view[n][q] \in Neat
      BY <1>2, NeatTreeAt
    <2>3. RefsIn(Slots(h[r])) \subseteq D
      BY HeapClosed DEF Closed
    <2> QED
      BY <2>1, <2>2, <2>3
  <1>5. \A n \in Nat : G[n] \subseteq D
    OBVIOUS
  <1> HIDE DEF G
  <1>6. \A n \in Nat : G[n] \subseteq G[n + 1]
    <2> DEFINE T == {n \in Nat : G[n] \subseteq G[n + 1]}
    <2>1. 0 \in T
      BY <1>3
    <2>2. ASSUME NEW n \in Nat, n \in T PROVE n + 1 \in T
      <3>1. n + 1 \in Nat /\ G[n] \subseteq G[n + 1] /\ G[n + 1] \subseteq D
        BY <1>5, <2>2
      <3>2. \A r \in D : r \in G[n + 1] => r \in G[n + 1 + 1]
        BY <1>4, <3>1
      <3> QED
        BY <3>1, <3>2
    <2> HIDE DEF T
    <2>3. \A n \in Nat : n \in T
      BY <2>1, <2>2, Induction
    <2> QED
      BY <2>3 DEF T
  <1>7. ASSUME NEW n \in Nat, G[n] # D PROVE G[n + 1] # G[n]
    <2>1. D \ G[n] \in SUBSET DOMAIN h /\ D \ G[n] # {}
      BY <1>5, <1>7
    <2>2. PICK r \in D \ G[n] : RefsIn(Slots(h[r])) \cap (D \ G[n]) = {}
      BY <2>1 DEF Grounded
    <2>3. RefsIn(Slots(h[r])) \subseteq D
      BY HeapClosed DEF Closed
    <2>4. RefsIn(Slots(h[r])) \subseteq G[n]
      BY <2>2, <2>3
    <2>5. r \in G[n + 1]
      BY <1>4, <2>4
    <2> QED
      BY <2>2, <2>5
  <1>8. G[MaxDepth] = D
    <2>1. IsFiniteSet(D) /\ Cardinality(D) <= MaxDepth
      BY DEF HeapOK
    <2> HIDE DEF D
    <2> QED
      BY <1>5, <1>6, <1>7, <2>1, DepthAssumption, Saturates
  <1>9. CASE IsRef(slot)
    <2>1. slot.ref \in D
      <3> HIDE DEF D
      <3>1. slot \in Links(D)
        BY DEF D
      <3> QED
        BY <1>9, <3>1, LinkOrScalar
    <2>2. slot.ref \in G[MaxDepth]
      BY <1>8, <2>1
    <2> QED
      BY <1>1, <1>9, <2>2, DepthAssumption DEF G
  <1>10. CASE ~IsRef(slot)
    <2>1. slot \in ScalarValues
      BY <1>10, LinkOrScalar
    <2>2. slot \in AllTrees /\ ~IsContainer(slot)
      BY <2>1, ScalarsNest, ScalarKind DEF AllTrees
    <2>3. NeatTop(slot)
      BY <2>2 DEF NeatTop, IsContainer
    <2>4. View(h, slot) = slot
      BY <1>1, <1>10
    <2> QED
      BY <2>2, <2>3, <2>4, NeatAround
  <1> QED
    BY <1>9, <1>10

-----------------------------------------------------------------------------
(* Storing and normalising neat values.                                    *)

\* The nodes of a neat tree are neat.
LEMMA StoredNeat ==
  ASSUME NEW h, HeapOK(h), NEW tree \in Trees, tree \in Neat,
         NEW attached \in BOOLEAN, NEW entry \in Entries
  PROVE  LET new == Store(h, tree, attached, entry).heap
         IN  \A r \in DOMAIN new \ DOMAIN h : NeatNode(new, r)
  <1> DEFINE new == Store(h, tree, attached, entry).heap
             slot == Store(h, tree, attached, entry).slot
             N == DOMAIN new \ DOMAIN h
  <1>1. StoredIn(h, new, slot, tree, attached, entry)
    BY Stored
  <1>2. PICK places : /\ DOMAIN places = N /\ Shows(new, places)
                      /\ IsContainer(tree) => places[slot.ref] = [tree |-> tree, entry |-> entry]
    BY StoredShows
  <1> HIDE DEF new, slot
  <1>3. CASE ~IsContainer(tree)
    <2>1. new = h
      BY <1>1, <1>3 DEF StoredIn
    <2> QED
      BY <2>1 DEF new
  <1>4. CASE IsContainer(tree)
    <2> DEFINE G == {r \in N : places[r].tree \in Neat}
    <2>1. /\ HeapOK(new) /\ Closed(new, N) /\ N \subseteq Own(new, slot)
          /\ slot \in Links(N) /\ IsRef(slot) /\ slot \in Links(DOMAIN new)
      <3>1. /\ HeapOK(new) /\ Closed(new, N) /\ N \subseteq Reach(new, {slot})
            /\ slot \in Links(N) /\ IsRef(slot)
        BY <1>1, <1>4 DEF StoredIn, Added
      <3>2. N \subseteq DOMAIN new
        OBVIOUS
      <3> HIDE DEF N
      <3> QED
        BY <3>1, <3>2, LinksWithin DEF Own
    <2>2. \A r \in N : NodeShows(new, r, places)
      BY <1>2 DEF Shows
    <2>3. Closed(new, G)
      <3> SUFFICES ASSUME NEW r \in G, NEW q \in RefsIn(Slots(new[r])) PROVE q \in G
        BY DEF Closed
      <3>1. PICK i \in DOMAIN Parts(new[r]) : IsRef(Parts(new[r])[i]) /\ Parts(new[r])[i].ref = q
        BY DEF RefsIn, Slots, Range
      <3>2. /\ q \in N /\ places[q] = PartAt(places[r], i) /\ i \in ContainersIn(places[r].tree)
        BY <1>2, <3>1, PartShown
      <3>3. i \in DOMAIN Parts(places[r].tree) /\ places[q].tree = Parts(places[r].tree)[i]
        BY <3>2 DEF ContainersIn, PartAt
      <3>4. IsContainer(places[r].tree)
        BY <2>2 DEF NodeShows
      <3>5. places[q].tree \in Neat
        BY <3>3, <3>4, NeatIs DEF NeatBelow
      <3> QED
        BY <3>2, <3>5
    <2>4. slot \in Links(G)
      <3>1. slot.ref \in N /\ slot = Ref(slot.ref)
        BY <2>1, LinkOrScalar
      <3>2. places[slot.ref].tree = tree
        BY <1>2, <1>4
      <3> QED
        BY <3>1, <3>2 DEF Links
    <2>5. N \subseteq G
      <3>1. G \in SUBSET DOMAIN new
        OBVIOUS
      <3> HIDE DEF G, N
      <3> QED
        BY <2>1, <2>3, <2>4, <3>1, OwnIs
    <2>6. ASSUME NEW r \in N PROVE NeatNode(new, r)
      <3> DEFINE shown == places[r].tree
                 node == new[r]
      <3>1. /\ NodeShows(new, r, places) /\ shown \in Neat /\ new[r] \in NodesWith(Links(DOMAIN new))
        BY <2>1, <2>2, <2>5 DEF HeapOK
      <3>2. /\ node.kind = shown.kind /\ IsContainer(shown)
            /\ DOMAIN Parts(node) = DOMAIN Parts(shown)
            /\ \A i \in DOMAIN Parts(node) :
                 /\ node.kind = "object" => node.fields[i].key = shown.fields[i].key
                 /\ ~IsContainer(Parts(shown)[i]) => Parts(node)[i] = Parts(shown)[i]
                 /\ IsContainer(Parts(shown)[i]) => IsRef(Parts(node)[i])
        BY <3>1 DEF NodeShows
      <3>3. /\ NeatTop(shown)
            /\ \A i \in DOMAIN Parts(shown) : Parts(shown)[i] \in Neat
        BY <3>1, <3>2, NeatIs DEF NeatBelow
      <3> HIDE DEF shown
      <3>4. ASSUME NEW i \in DOMAIN Parts(node) PROVE Parts(node)[i] # Void
        <4>1. ~IsVoid(Parts(shown)[i])
          BY <3>2, <3>3, NeatIs DEF NeatBelow, NeatTop
        <4> QED
          BY <3>2, <4>1, VoidLinks
      <3>5. Void \notin Slots(node)
        BY <3>4 DEF Slots, Range
      <3>6. ASSUME node.kind = "object" PROVE Distinct(node.fields)
        <4>1. DOMAIN Parts(node) = DOMAIN node.fields /\ DOMAIN Parts(shown) = DOMAIN shown.fields
          <5> HIDE DEF node
          <5> QED
            BY <3>2, <3>6 DEF Parts
        <4> DEFINE f == node.fields
                   g == shown.fields
        <4>2. DOMAIN f = DOMAIN g /\ \A i \in DOMAIN f : f[i].key = g[i].key
          BY <3>2, <3>6, <4>1
        <4>3. Distinct(g)
          BY <3>2, <3>3, <3>6 DEF NeatTop
        <4> HIDE DEF f, g
        <4>4. Distinct(f)
          BY <4>2, <4>3 DEF Distinct
        <4> QED
          BY <4>4 DEF f
      <3> QED
        BY <3>5, <3>6 DEF NeatNode
    <2> QED
      BY <2>6 DEF new
  <1> QED
    BY <1>3, <1>4

\* Defaults are neat.
LEMMA DefaultsNeat ==
  ASSUME NEW e \in DOMAIN Schema, ~IsVoid(Schema[e].default)
  PROVE  Schema[e].default \in Neat
  <1> DEFINE default == Schema[e].default
             layout == Layout(default, NoEntry)
             Scalars0 == {t \in AllTrees : ~IsContainer(t) /\ ~IsVoid(t)}
             T == Scalars0 \cup {layout[path].tree : path \in DOMAIN layout}
  <1>1. default \in Trees /\ default \in AllTrees
    BY SchemaAssumption, DepthAssumption DEF Trees, AllTrees
  <1>2. ASSUME NEW t \in Scalars0 PROVE NeatTop(t)
    BY DEF NeatTop, IsContainer
  <1>3. CASE ~IsContainer(default)
    BY <1>1, <1>2, <1>3, NeatAround
  <1>4. CASE IsContainer(default)
    <2>1. /\ <<>> \in DOMAIN layout /\ layout[<<>>] = [tree |-> default, entry |-> NoEntry]
          /\ \A path \in DOMAIN layout :
               /\ \E n \in Nat : PlaceOK(layout[path], NoEntry, n)
               /\ \A i \in ContainersIn(layout[path].tree) :
                    /\ Append(path, i) \in DOMAIN layout
                    /\ layout[Append(path, i)] = PartAt(layout[path], i)
      BY <1>1, <1>4, EntriesBelow, LayoutComplete
    <2>2. \A path \in DOMAIN layout :
            /\ \A i \in DOMAIN Parts(layout[path].tree) : ~IsVoid(Parts(layout[path].tree)[i])
            /\ layout[path].tree.kind = "object" => Distinct(layout[path].tree.fields)
      BY <1>4, DefaultsAssumption DEF Distinct
    <2> HIDE DEF layout, default
    <2>3. ASSUME NEW path \in DOMAIN layout
          PROVE  LET t == layout[path].tree
                 IN  /\ t \in AllTrees /\ NeatTop(t)
                     /\ \A i \in DOMAIN Parts(t) : Parts(t)[i] \in T
      <3> DEFINE t == layout[path].tree
      <3>1. PICK n \in Nat : PlaceOK(layout[path], NoEntry, n)
        BY <2>1
      <3>2. t \in Nested[n] /\ IsContainer(t)
        BY <3>1 DEF PlaceOK
      <3>3. n # 0 /\ n - 1 \in Nat /\ \A i \in DOMAIN Parts(t) : Parts(t)[i] \in Nested[n - 1]
        BY <3>2, PartsNest
      <3>4. NeatTop(t)
        BY <2>2, <3>2 DEF NeatTop, IsVoid, IsContainer
      <3>5. ASSUME NEW i \in DOMAIN Parts(t) PROVE Parts(t)[i] \in T
        <4>1. CASE IsContainer(Parts(t)[i])
          <5>1. i \in ContainersIn(t)
            BY <4>1 DEF ContainersIn
          <5>2. Append(path, i) \in DOMAIN layout /\ layout[Append(path, i)] = PartAt(layout[path], i)
            BY <2>1, <5>1
          <5>3. PartAt(layout[path], i).tree = Parts(t)[i]
            BY DEF PartAt
          <5> QED
            BY <5>2, <5>3
        <4>2. CASE ~IsContainer(Parts(t)[i])
          <5>1. Parts(t)[i] \in AllTrees /\ ~IsVoid(Parts(t)[i])
            BY <2>2, <3>3 DEF AllTrees
          <5> QED
            BY <4>2, <5>1
        <4> QED
          BY <4>1, <4>2
      <3> QED
        BY <3>2, <3>4, <3>5 DEF AllTrees
    <2>4. T \in SUBSET AllTrees
      BY <2>3
    <2>5. NeatBelow(T)
      BY <1>2, <2>3 DEF NeatBelow
    <2>6. default \in T
      BY <2>1
    <2> HIDE DEF T
    <2> QED
      BY <2>4, <2>5, <2>6 DEF Neat, default
  <1> QED
    BY <1>3, <1>4

\* normalizeValueForSchema keeps a neat value neat.
KeepsNeat(nested) ==
  \A entry \in Entries, value \in Trees :
    value \in Neat /\ nested[entry][value].ok /\ nested[entry][value].value \in Trees
      => nested[entry][value].value \in Neat

LEMMA NeatObject ==
  ASSUME NEW entry \in DOMAIN Schema, NEW nested, KeepsNeat(nested),
         NEW fields \in Seq(FieldsOf(STRING, Trees)),
         Distinct(fields), \A i \in DOMAIN fields : fields[i].value \in Neat,
         normalizeObjectForSchema(fields, Schema[entry].children, nested).ok,
         normalizeObjectForSchema(fields, Schema[entry].children, nested).value \in Trees
  PROVE  normalizeObjectForSchema(fields, Schema[entry].children, nested).value \in Neat
  <1> DEFINE norm == normalizeObjectForSchema(fields, Schema[entry].children, nested)
             children == Children(entry)
             source == nonVoidObjectFields(fields)
             known == KnownFields(source, children, nested)
             unknown == UnknownPlaces(source, children)
             t == Rejoined(source, children, nested)
             tree == Object(t)
             V == FieldValues(known)
  <1>0. source = fields
    <2>1. \A i \in DOMAIN fields : ~IsVoid(fields[i].value)
      BY NeatIs DEF NeatBelow, NeatTop
    <2> QED
      BY <2>1, NonVoidSame
  <1>1. /\ source \in Seq(FieldsOf(STRING, Trees)) /\ Distinct(source)
        /\ \A i \in DOMAIN source : source[i].value \in Neat
    BY <1>0
  <1> HIDE DEF source
  <1>2. /\ children = Schema[entry].children
        /\ DOMAIN known = DOMAIN children
        /\ \A i \in DOMAIN known :
             /\ known[i].value = OutcomeFor(source, children[i], nested).value
             /\ children[i] \in DOMAIN Schema
        /\ unknown \subseteq DOMAIN source
    BY <1>1, ObjectParts
  <1>3. norm.ok /\ norm.value \in Trees
    OBVIOUS
  <1>4. /\ \A i \in DOMAIN children : OutcomeFor(source, children[i], nested).ok
        /\ norm.value = tree
    <2>1. norm = IF \E i \in DOMAIN children : ~OutcomeFor(source, children[i], nested).ok
                   THEN Failure ELSE Normal(tree)
      BY <1>2, NormalObjectIs DEF source
    <2>2. ~Failure.ok /\ Normal(tree).value = tree
      BY DEF Failure, Normal
    <2> HIDE DEF norm, tree, children
    <2> QED
      BY <1>3, <2>1, <2>2
  <1>5. /\ Distinct(t)
        /\ \A k \in DOMAIN t :
             \/ \E i \in DOMAIN known : t[k] = known[i] /\ ~IsVoid(known[i].value)
             \/ \E i \in unknown : t[k] = source[i]
    BY <1>1, ObjectRejoined
  <1> HIDE DEF t, known, unknown, V
  <1>6. /\ tree.kind = "object" /\ tree.fields = t /\ IsContainer(tree) /\ tree \in Trees
        /\ \E n \in Nat : tree \in Nested[n]
    BY <1>3, <1>4, DepthAssumption DEF Object, IsContainer, Trees
  <1> HIDE DEF tree, norm
  <1>7. ASSUME NEW k \in DOMAIN Parts(tree) PROVE Parts(tree)[k] \in Neat
    <2>1. /\ Parts(tree) \in Seq(Trees) /\ DOMAIN Parts(tree) = DOMAIN t
          /\ \A i \in DOMAIN t : Parts(tree)[i] = t[i].value
      BY <1>6, PartsAreTrees
    <2>2. /\ k \in DOMAIN t /\ Parts(tree)[k] = t[k].value
          /\ Parts(tree)[k] \in Trees
      BY <2>1
    <2>4. CASE \E i \in DOMAIN known : t[k] = known[i] /\ ~IsVoid(known[i].value)
      <3>1. PICK i \in DOMAIN known : t[k] = known[i] /\ ~IsVoid(known[i].value)
        BY <2>4
      <3> DEFINE child == children[i]
                 outcome == OutcomeFor(source, child, nested)
      <3>2. t[k].value = outcome.value /\ outcome.ok /\ child \in DOMAIN Schema
        BY <1>2, <1>4, <3>1
      <3>3. outcome # Normal(Void)
        <4>1. IsVoid(Normal(Void).value)
          BY VoidLinks, NormalIs
        <4> QED
          BY <3>1, <3>2, <4>1
      <3>4. PICK value \in Trees :
              /\ outcome = nested[child][value]
              /\ \/ value = Schema[child].default /\ ~IsVoid(value)
                 \/ \E j \in DOMAIN source : value = source[j].value
        <4> HIDE DEF child
        <4> QED
          BY <1>1, <3>2, <3>3, OutcomeIs
      <3>5. child \in Entries /\ value \in Neat
        BY <1>1, <3>2, <3>4, DefaultsNeat DEF Entries
      <3> HIDE DEF outcome, child
      <3> QED
        BY <2>2, <3>2, <3>4, <3>5 DEF KeepsNeat
    <2>5. CASE \E i \in unknown : t[k] = source[i]
      BY <1>1, <1>2, <2>2, <2>5
    <2> QED
      BY <1>5, <2>2, <2>4, <2>5
  <1>8. tree \in Neat
    <2>1. tree \in AllTrees /\ NeatTop(tree)
      BY <1>5, <1>6 DEF AllTrees, NeatTop, IsVoid
    <2> QED
      BY <1>7, <2>1, NeatAround
  <1> QED
    BY <1>4, <1>8 DEF norm

LEMMA NeatArray ==
  ASSUME NEW entry \in DOMAIN Schema, NEW nested, KeepsNeat(nested),
         NEW items \in Seq(Trees), \A i \in DOMAIN items : items[i] \in Neat,
         normalizeArrayForSchema(items, Schema[entry].items, nested).ok,
         normalizeArrayForSchema(items, Schema[entry].items, nested).value \in Trees
  PROVE  normalizeArrayForSchema(items, Schema[entry].items, nested).value \in Neat
  <1> DEFINE norm == normalizeArrayForSchema(items, Schema[entry].items, nested)
             source == Those(items, {i \in DOMAIN items : ~IsVoid(items[i])})
             below == Schema[entry].items
             outcomes == [i \in DOMAIN source |-> nested[below][source[i]]]
             tree == Array([i \in DOMAIN source |-> outcomes[i].value])
  <1> DEFINE failed == \E i \in DOMAIN source : ~outcomes[i].ok
  <1>1. norm = IF failed THEN Failure ELSE Normal(tree)
    BY DEF normalizeArrayForSchema
  <1>2. (~failed) /\ norm.value = tree /\ tree \in Trees
    <2>1. norm.ok /\ norm.value \in Trees
      OBVIOUS
    <2>2. ~Failure.ok /\ Normal(tree).value = tree
      BY DEF Failure, Normal
    <2> HIDE DEF norm, failed, tree
    <2> QED
      BY <1>1, <2>1, <2>2
  <1>3. below \in Entries
    BY SchemaAssumption DEF Entries
  <1>4. source = items
    <2>1. \A i \in DOMAIN items : ~IsVoid(items[i])
      BY NeatIs DEF NeatBelow, NeatTop
    <2>2. {i \in DOMAIN items : ~IsVoid(items[i])} = DOMAIN items
      BY <2>1
    <2> QED
      BY <2>2, ThoseAll
  <1>5. /\ tree.kind = "array" /\ IsContainer(tree) /\ tree \in AllTrees
        /\ Parts(tree) = [i \in DOMAIN source |-> outcomes[i].value]
    BY <1>2, DepthAssumption DEF Array, IsContainer, Trees, Parts, AllTrees
  <1>6. ASSUME NEW k \in DOMAIN Parts(tree) PROVE Parts(tree)[k] \in Neat
    <2>1. k \in DOMAIN source /\ Parts(tree)[k] = nested[below][source[k]].value
      BY <1>5
    <2>2. Parts(tree)[k] \in Trees
      <3> HIDE DEF tree
      <3>2. Parts(tree) \in Seq(Trees)
        BY <1>2, <1>5, PartsAreTrees
      <3> HIDE DEF source
      <3> QED
        BY <3>2
    <2>3. nested[below][source[k]].ok /\ source[k] \in Trees /\ source[k] \in Neat
      <3>1. outcomes[k] = nested[below][source[k]] /\ outcomes[k].ok
        BY <1>2, <2>1
      <3> HIDE DEF source
      <3> QED
        BY <1>4, <2>1, <3>1
    <2> HIDE DEF tree, source, below
    <2> QED
      BY <1>3, <2>1, <2>2, <2>3 DEF KeepsNeat
  <1>7. tree \in Neat
    <2> HIDE DEF tree
    <2>1. NeatTop(tree)
      BY <1>5 DEF NeatTop, IsVoid
    <2> QED
      BY <1>5, <1>6, <2>1, NeatAround
  <1> QED
    BY <1>2, <1>7

LEMMA NormalNeat ==
  ASSUME NEW value \in Trees, value \in Neat, NEW entry \in Entries,
         normalizeValueForSchema(value, entry).ok,
         normalizeValueForSchema(value, entry).value \in Trees
  PROVE  normalizeValueForSchema(value, entry).value \in Neat
  <1> DEFINE T == {n \in Nat : KeepsNeat(normalized[n])}
  <1>1. \A v : Normal(v).value = v
    BY DEF Normal
  <1>2. 0 \in T
    <2> SUFFICES ASSUME NEW e \in Entries, NEW v \in Trees, v \in Neat, normalized[0][e][v].ok
                 PROVE  normalized[0][e][v].value \in Neat
      BY DEF KeepsNeat
    <2>1. normalized[0][e][v] = IF e = NoEntry THEN Normal(v) ELSE Failure
      BY NormalizedAt
    <2>2. ~Failure.ok
      BY DEF Failure
    <2> QED
      BY <1>1, <2>1, <2>2
  <1>3. ASSUME NEW n \in Nat, n \in T PROVE n + 1 \in T
    <2> SUFFICES ASSUME NEW e \in Entries, NEW v \in Trees, v \in Neat, normalized[n + 1][e][v].ok,
                        normalized[n + 1][e][v].value \in Trees
                 PROVE  normalized[n + 1][e][v].value \in Neat
      BY DEF KeepsNeat
    <2> DEFINE nested == normalized[n]
               norm == normalizeGoverned(v, Schema[e], nested)
    <2>1. normalized[n + 1][e][v] = IF e = NoEntry THEN Normal(v) ELSE norm
      BY NormalizedAt
    <2>2. KeepsNeat(nested)
      BY <1>3
    <2> HIDE DEF nested
    <2>3. CASE e = NoEntry
      BY <1>1, <2>1, <2>3
    <2>4. CASE e # NoEntry
      <3>1. e \in DOMAIN Schema /\ normalized[n + 1][e][v] = norm
        BY <2>1, <2>4 DEF Entries
      <3> SUFFICES ASSUME norm.ok, norm.value \in Trees PROVE norm.value \in Neat
        BY <3>1
      <3>2. ~Failure.ok
        BY DEF Failure
      <3>3. CASE v.kind = "object" /\ Schema[e].kind = "object"
        <4>1. norm = normalizeObjectForSchema(v.fields, Schema[e].children, nested)
          BY <3>3 DEF normalizeGoverned
        <4>2. /\ v.fields \in Seq(FieldsOf(STRING, Trees)) /\ DOMAIN Parts(v) = DOMAIN v.fields
              /\ \A i \in DOMAIN v.fields : Parts(v)[i] = v.fields[i].value
          BY <3>3, PartsAreTrees DEF IsContainer
        <4>3. Distinct(v.fields) /\ \A i \in DOMAIN v.fields : v.fields[i].value \in Neat
          BY <3>3, <4>2, NeatIs DEF NeatBelow, NeatTop, IsContainer
        <4> HIDE DEF norm
        <4> QED
          BY <2>2, <3>1, <4>1, <4>2, <4>3, NeatObject
      <3>4. CASE v.kind = "array" /\ Schema[e].kind = "array"
        <4>1. norm = normalizeArrayForSchema(v.items, Schema[e].items, nested)
          BY <3>4 DEF normalizeGoverned
        <4>2. v.items \in Seq(Trees) /\ Parts(v) = v.items
          BY <3>4, PartsAreTrees DEF IsContainer
        <4>3. \A i \in DOMAIN v.items : v.items[i] \in Neat
          BY <3>4, <4>2, NeatIs DEF NeatBelow, IsContainer
        <4> HIDE DEF norm
        <4> QED
          BY <2>2, <3>1, <4>1, <4>2, <4>3, NeatArray
      <3>5. CASE v.kind \in {"object", "array"} /\ v.kind # Schema[e].kind
        <4>1. norm = Failure
          BY <3>5 DEF normalizeGoverned
        <4> QED
          BY <3>2, <4>1
      <3>6. CASE v.kind \notin {"object", "array"}
        <4>1. norm = Failure \/ norm = Normal(Null) \/ norm = Normal(v)
          BY <3>6 DEF normalizeGoverned
        <4>2. Null \in Neat
          <5>1. Null \in ScalarValues /\ ~IsContainer(Null) /\ ~IsVoid(Null) /\ Null.kind # "object"
            BY DEF ScalarValues, Null, Scalar, IsContainer, IsVoid
          <5>2. Null \in AllTrees /\ NeatTop(Null)
            BY <5>1, ScalarsNest DEF AllTrees, NeatTop
          <5> QED
            BY <5>1, <5>2, NeatAround
        <4> QED
          BY <1>1, <3>2, <4>1, <4>2
      <3> QED
        BY <3>3, <3>4, <3>5, <3>6
    <2> QED
      BY <2>3, <2>4
  <1> HIDE DEF T
  <1>4. \A n \in Nat : n \in T
    BY <1>2, <1>3, Induction
  <1>5. Cardinality(DOMAIN Schema) \in Nat
    BY SchemaAssumption, FS_CardinalityType
  <1>6. KeepsNeat(normalized[Cardinality(DOMAIN Schema)])
    BY <1>4, <1>5 DEF T
  <1> QED
    BY <1>6 DEF KeepsNeat, normalizeValueForSchema

-----------------------------------------------------------------------------
(* What is computed level by level settles.                                *)

\* Among any elements there is one that looks to none of them.
Founded(D, Below) ==
  \A T \in SUBSET D : T # {} => \E x \in T : Below[x] \cap T = {}

\* What f says of x at the next level is settled by what it says of those below x.
LevelByLevel(f, D, Below) ==
  \A n, m \in Nat : \A x \in D :
    (\A y \in D : y \in Below[x] => f[n][y] = f[m][y]) => f[n + 1][x] = f[m + 1][x]

LEMMA Settles ==
  ASSUME NEW D, IsFiniteSet(D), NEW Below, Founded(D, Below),
         NEW f, LevelByLevel(f, D, Below),
         NEW n \in Nat, Cardinality(D) <= n, NEW x \in D
  PROVE  f[n + 1][x] = f[n][x]
  <1> DEFINE G == [k \in Nat |-> {y \in D : \A m \in Nat : m >= k => f[m][y] = f[k][y]}]
  <1>1. ASSUME NEW k \in Nat PROVE G[k] \subseteq D /\ G[k] \subseteq G[k + 1]
    <2>1. k + 1 \in Nat
      OBVIOUS
    <2>2. ASSUME NEW y \in G[k], NEW m \in Nat, m >= k + 1 PROVE f[m][y] = f[k + 1][y]
      <3>1. m >= k /\ k + 1 >= k
        BY <2>2
      <3>2. f[m][y] = f[k][y] /\ f[k + 1][y] = f[k][y]
        BY <2>1, <3>1
      <3> QED
        BY <3>2
    <2> QED
      BY <2>1, <2>2
  <1>2. ASSUME NEW k \in Nat, G[k] # D PROVE G[k + 1] # G[k]
    <2>1. D \ G[k] \in SUBSET D /\ D \ G[k] # {}
      BY <1>1, <1>2
    <2>2. PICK y \in D \ G[k] : Below[y] \cap (D \ G[k]) = {}
      BY <2>1 DEF Founded
    <2>3. \A z \in D : z \in Below[y] => z \in G[k]
      BY <2>2
    <2>4. ASSUME NEW m \in Nat, m >= k + 1 PROVE f[m][y] = f[k + 1][y]
      <3>1. m - 1 \in Nat /\ m - 1 >= k /\ m = (m - 1) + 1
        BY <2>4
      <3>2. \A z \in D : z \in Below[y] => f[m - 1][z] = f[k][z]
        BY <2>3, <3>1
      <3>3. f[(m - 1) + 1][y] = f[k + 1][y]
        BY <2>2, <3>1, <3>2 DEF LevelByLevel
      <3> QED
        BY <3>1, <3>3
    <2>5. k + 1 \in Nat
      OBVIOUS
    <2>6. y \in G[k + 1]
      BY <2>2, <2>4, <2>5
    <2> QED
      BY <2>2, <2>6
  <1>3. x \in G[n]
    <2> HIDE DEF G
    <2>1. G[n] = D
      BY <1>1, <1>2, Saturates
    <2> QED
      BY <2>1
  <1>4. n + 1 \in Nat /\ n + 1 >= n
    OBVIOUS
  <1> QED
    BY <1>3, <1>4

-----------------------------------------------------------------------------
(* A schema is not endless.                                                *)

\* Normalising looks to the entries inside, and to nothing else.
LEMMA NormalLooksDown ==
  ASSUME NEW value, NEW e, NEW nested, NEW other,
         \A c \in Range(e.children) : nested[c] = other[c], nested[e.items] = other[e.items]
  PROVE  normalizeGoverned(value, e, nested) = normalizeGoverned(value, e, other)
  <1>1. normalizeArrayForSchema(value.items, e.items, nested)
          = normalizeArrayForSchema(value.items, e.items, other)
    BY DEF normalizeArrayForSchema
  <1>2. normalizeObjectForSchema(value.fields, e.children, nested)
          = normalizeObjectForSchema(value.fields, e.children, other)
    <2> DEFINE source == nonVoidObjectFields(value.fields)
               children == e.children
    <2> HIDE DEF source
    <2>1. \A i \in DOMAIN children : nested[children[i]] = other[children[i]]
      BY DEF Range
    <2>2. \A i \in DOMAIN children :
            OutcomeFor(source, children[i], nested) = OutcomeFor(source, children[i], other)
      BY <2>1 DEF OutcomeFor
    <2>3. KnownFields(source, children, nested) = KnownFields(source, children, other)
      BY <2>2 DEF KnownFields
    <2>4. Rejoined(source, children, nested) = Rejoined(source, children, other)
      BY <2>3 DEF Rejoined
    <2>5. (\E i \in DOMAIN children : ~OutcomeFor(source, children[i], nested).ok)
            <=> (\E i \in DOMAIN children : ~OutcomeFor(source, children[i], other).ok)
      BY <2>2
    <2>6. normalizeObjectForSchema(value.fields, children, nested) =
            IF \E i \in DOMAIN children : ~OutcomeFor(source, children[i], nested).ok
              THEN Failure ELSE Normal(Object(Rejoined(source, children, nested)))
      BY NormalObjectIs DEF source
    <2>7. normalizeObjectForSchema(value.fields, children, other) =
            IF \E i \in DOMAIN children : ~OutcomeFor(source, children[i], other).ok
              THEN Failure ELSE Normal(Object(Rejoined(source, children, other)))
      BY NormalObjectIs DEF source
    <2> HIDE DEF children
    <2>8. normalizeObjectForSchema(value.fields, children, nested)
            = normalizeObjectForSchema(value.fields, children, other)
      BY <2>4, <2>5, <2>6, <2>7
    <2> QED
      BY <2>8 DEF children
  <1> QED
    BY <1>1, <1>2 DEF normalizeGoverned

\* The entry of a value, or of none.
LEMMA NormalUnfolds ==
  ASSUME NEW value \in Trees, NEW entry \in DOMAIN Schema
  PROVE  normalizeValueForSchema(value, entry)
           = normalizeGoverned(value, Schema[entry], normalized[Cardinality(DOMAIN Schema)])
  <1> DEFINE D == DOMAIN Schema
             Below == [e \in D |-> EntriesIn(e)]
             C == Cardinality(D)
  <1>1. IsFiniteSet(D) /\ C \in Nat /\ NoEntry \notin D
    BY SchemaAssumption, FS_CardinalityType
  <1>2. Founded(D, Below)
    <2>1. ASSUME NEW T \in SUBSET D, T # {} PROVE \E x \in T : Below[x] \cap T = {}
      <3>1. PICK x \in T : EntriesIn(x) \cap T = {}
        BY <2>1, LevelsAssumption
      <3> QED
        BY <3>1
    <2> HIDE DEF Below
    <2> QED
      BY <2>1 DEF Founded
  <1>3. ASSUME NEW n \in Nat, NEW e \in D
        PROVE  normalized[n + 1][e] = [v \in Trees |-> normalizeGoverned(v, Schema[e], normalized[n])]
    <2>1. n + 1 \in Nat /\ n + 1 # 0 /\ (n + 1) - 1 = n
      OBVIOUS
    <2>2. normalized[n + 1] = Normalization(n + 1, normalized[n])
      BY <2>1, NormalizedIs
    <2>3. e \in Entries /\ e # NoEntry
      BY <1>1 DEF Entries
    <2> QED
      BY <2>1, <2>2, <2>3 DEF Normalization
  <1>4. \A n, m \in Nat : normalized[n][NoEntry] = normalized[m][NoEntry]
    <2>1. ASSUME NEW n \in Nat PROVE normalized[n][NoEntry] = [v \in Trees |-> Normal(v)]
      <3>1. normalized[n] = Normalization(n, normalized[n - 1]) /\ NoEntry \in Entries
        BY NormalizedIs DEF Entries
      <3> QED
        BY <3>1 DEF Normalization
    <2> QED
      BY <2>1
  <1>5. LevelByLevel(normalized, D, Below)
    <2>1. ASSUME NEW n \in Nat, NEW m \in Nat, NEW e \in D,
                 \A y \in D : y \in Below[e] => normalized[n][y] = normalized[m][y]
          PROVE  normalized[n + 1][e] = normalized[m + 1][e]
      <3>1. /\ \A c \in Range(Schema[e].children) : normalized[n][c] = normalized[m][c]
            /\ normalized[n][Schema[e].items] = normalized[m][Schema[e].items]
        <4>1. /\ Schema[e].children \in Seq(D) /\ Schema[e].items \in D \cup {NoEntry}
          BY SchemaAssumption
        <4>2. Range(Schema[e].children) \subseteq D
          BY <4>1 DEF Range
        <4> QED
          BY <1>4, <2>1, <4>1, <4>2 DEF EntriesIn
      <3> DEFINE from == normalized[n]
                 to == normalized[m]
                 E == Schema[e]
      <3>2. \A v \in Trees : normalizeGoverned(v, E, from) = normalizeGoverned(v, E, to)
        <4> HIDE DEF from, to, E
        <4>1. \A c \in Range(E.children) : from[c] = to[c]
          BY <3>1 DEF from, to, E
        <4>2. from[E.items] = to[E.items]
          BY <3>1 DEF from, to, E
        <4> QED
          BY <4>1, <4>2, NormalLooksDown
      <3>3. /\ normalized[n + 1][e] = [v \in Trees |-> normalizeGoverned(v, E, from)]
            /\ normalized[m + 1][e] = [v \in Trees |-> normalizeGoverned(v, E, to)]
        BY <1>3
      <3> HIDE DEF from, to, E
      <3> QED
        BY <3>2, <3>3
    <2> HIDE DEF Below, D
    <2> QED
      BY <2>1, Zenon DEF LevelByLevel
  <1>6. normalized[C + 1][entry] = normalized[C][entry]
    <2> HIDE DEF Below
    <2>1. C <= C /\ Cardinality(D) <= C
      BY <1>1
    <2> QED
      BY <1>1, <1>2, <1>5, <2>1, Settles
  <1>7. normalized[C + 1][entry][value] = normalizeGoverned(value, Schema[entry], normalized[C])
    BY <1>1, <1>3
  <1> QED
    BY <1>6, <1>7 DEF normalizeValueForSchema

-----------------------------------------------------------------------------
(* What the schema asks of a value, node by node.                          *)

Accepted(value, entry) == normalizeValueForSchema(value, entry).ok

\* A child's field may be missing: it is optional, or its default will do.
MayMiss(child) ==
  IF IsVoid(Schema[child].default) THEN ~Schema[child].required
  ELSE Accepted(Schema[child].default, child)

HasChild(fields, entry, i) ==
  NameAt(entry, i) \in KeysOf(fields) \/ MayMiss(Children(entry)[i])

\* What an entry asks of a container itself, be it a tree or a node.
Fits(c, entry) ==
  /\ c.kind = Schema[entry].kind
  /\ c.kind = "object" => \A i \in DOMAIN Children(entry) : HasChild(c.fields, entry, i)

LEMMA NoEntryAccepts ==
  ASSUME NEW value \in Trees PROVE Accepted(value, NoEntry)
  <1>1. Cardinality(DOMAIN Schema) \in Nat
    BY SchemaAssumption, FS_CardinalityType
  <1>2. normalized[Cardinality(DOMAIN Schema)][NoEntry][value] = Normal(value)
    <2>1. normalized[Cardinality(DOMAIN Schema)]
            = Normalization(Cardinality(DOMAIN Schema), normalized[Cardinality(DOMAIN Schema) - 1])
      BY <1>1, NormalizedIs
    <2> QED
      BY <2>1 DEF Normalization, Entries
  <1> QED
    BY <1>2, NormalIs DEF Accepted, normalizeValueForSchema

\* What is nested is normalised to be accepted.
Accepting(nested) == \A value, entry : Accepted(value, entry) <=> nested[entry][value].ok

LEMMA FailureIs == ~Failure.ok
  BY Zenon DEF Failure

\* A child's outcome: its field is accepted, or may be missing.
LEMMA OutcomeAccepted ==
  ASSUME NEW entry \in DOMAIN Schema, NEW nested, Accepting(nested),
         NEW fields \in Seq(FieldsOf(STRING, Trees)), Distinct(fields),
         NEW i \in DOMAIN Children(entry)
  PROVE  OutcomeFor(fields, Children(entry)[i], nested).ok <=>
           /\ HasChild(fields, entry, i)
           /\ \A k \in DOMAIN fields : fields[k].key = NameAt(entry, i) =>
                Accepted(fields[k].value, Children(entry)[i])
  <1> DEFINE child == Children(entry)[i]
             found == FoundAt(fields, child)
  <1>1. NameAt(entry, i) = Schema[child].name
    BY DEF NameAt
  <1>2. CASE found > 0
    <2>1. found \in DOMAIN fields /\ fields[found].key = NameAt(entry, i)
      <3> DEFINE F == FieldsOf(STRING, Trees)
      <3> HIDE DEF F, child
      <3>1. fields \in Seq(F)
        BY DEF F
      <3> QED
        BY <1>1, <1>2, <3>1, FoundAtIs
    <2>2. OutcomeFor(fields, child, nested) = nested[child][fields[found].value]
      BY <1>2 DEF OutcomeFor
    <2>3. OutcomeFor(fields, child, nested).ok <=> Accepted(fields[found].value, child)
      <3> HIDE DEF child, found
      <3> QED
        BY <2>2, Zenon DEF Accepting
    <2>4. NameAt(entry, i) \in KeysOf(fields)
      BY <2>1 DEF KeysOf
    <2>5. \A k \in DOMAIN fields : fields[k].key = NameAt(entry, i) => k = found
      BY <2>1 DEF Distinct
    <2> HIDE DEF found
    <2> QED
      BY <2>1, <2>3, <2>4, <2>5, Zenon DEF HasChild
  <1>3. CASE ~(found > 0)
    <2>1. \A k \in DOMAIN fields : fields[k].key # NameAt(entry, i)
      <3> DEFINE F == FieldsOf(STRING, Trees)
      <3> HIDE DEF F, child
      <3>1. fields \in Seq(F)
        BY DEF F
      <3> QED
        BY <1>1, <1>3, <3>1, FoundAtIs
    <2>2. NameAt(entry, i) \notin KeysOf(fields)
      BY <2>1 DEF KeysOf
    <2>3. OutcomeFor(fields, child, nested).ok <=> MayMiss(child)
      <3>1. CASE IsVoid(Schema[child].default)
        <4>1. OutcomeFor(fields, child, nested)
                = IF Schema[child].required THEN Failure ELSE Normal(Void)
          BY <1>3, <3>1 DEF OutcomeFor
        <4>2. MayMiss(child) <=> ~Schema[child].required
          BY <3>1 DEF MayMiss
        <4> HIDE DEF child
        <4>3. CASE Schema[child].required
          <5>1. OutcomeFor(fields, child, nested) = Failure
            BY <4>1, <4>3
          <5> QED
            BY <4>2, <4>3, <5>1, FailureIs, Zenon
        <4>4. CASE ~Schema[child].required
          <5>1. OutcomeFor(fields, child, nested) = Normal(Void)
            BY <4>1, <4>4
          <5> QED
            BY <4>2, <4>4, <5>1, NormalIs, Zenon
        <4> QED
          BY <4>3, <4>4, Zenon
      <3>2. CASE ~IsVoid(Schema[child].default)
        <4>1. OutcomeFor(fields, child, nested) = nested[child][Schema[child].default]
          BY <1>3, <3>2 DEF OutcomeFor
        <4>2. MayMiss(child) <=> Accepted(Schema[child].default, child)
          BY <3>2 DEF MayMiss
        <4> HIDE DEF child
        <4> QED
          BY <4>1, <4>2, Zenon DEF Accepting
      <3> QED
        BY <3>1, <3>2
    <2> QED
      BY <2>1, <2>2, <2>3, Zenon DEF HasChild
  <1> QED
    BY <1>2, <1>3

\* The same for the fields of an object and for the items of an array.
LEMMA FieldsAccepted ==
  ASSUME NEW entry \in DOMAIN Schema, NEW nested, Accepting(nested),
         NEW fields \in Seq(FieldsOf(STRING, Trees)), Distinct(fields),
         \A k \in DOMAIN fields : ~IsVoid(fields[k].value)
  PROVE  normalizeObjectForSchema(fields, Schema[entry].children, nested).ok <=>
           /\ \A i \in DOMAIN Children(entry) : HasChild(fields, entry, i)
           /\ \A k \in DOMAIN fields : Accepted(fields[k].value, ChildEntry(entry, fields[k].key))
  <1> DEFINE children == Schema[entry].children
             norm == normalizeObjectForSchema(fields, children, nested)
             failed == \E i \in DOMAIN children : ~OutcomeFor(fields, children[i], nested).ok
             t == Object(Rejoined(fields, children, nested))
  <1>1. children = Children(entry) /\ entry # NoEntry /\ entry \in Entries
    BY SchemaAssumption DEF Children, Entries
  <1>2. nonVoidObjectFields(fields) = fields
    <2> DEFINE F == FieldsOf(STRING, Trees)
    <2> HIDE DEF F
    <2>1. fields \in Seq(F)
      BY DEF F
    <2> QED
      BY <2>1, NonVoidSame
  <1>3. norm = IF failed THEN Failure ELSE Normal(t)
    BY <1>2, NormalObjectIs
  <1>4. norm.ok <=> ~failed
    <2> HIDE DEF norm, failed, t
    <2>1. CASE failed
      <3>1. norm = Failure
        BY <1>3, <2>1
      <3> QED
        BY <2>1, <3>1, FailureIs, Zenon
    <2>2. CASE ~failed
      <3>1. norm = Normal(t)
        BY <1>3, <2>2
      <3> QED
        BY <2>2, <3>1, NormalIs, Zenon
    <2> QED
      BY <2>1, <2>2
  <1>5. ~failed <=> \A i \in DOMAIN Children(entry) :
                      /\ HasChild(fields, entry, i)
                      /\ \A k \in DOMAIN fields : fields[k].key = NameAt(entry, i) =>
                           Accepted(fields[k].value, Children(entry)[i])
    <2>1. \A i \in DOMAIN Children(entry) :
            OutcomeFor(fields, Children(entry)[i], nested).ok <=>
              /\ HasChild(fields, entry, i)
              /\ \A k \in DOMAIN fields : fields[k].key = NameAt(entry, i) =>
                   Accepted(fields[k].value, Children(entry)[i])
      BY OutcomeAccepted
    <2> QED
      BY <1>1, <2>1, Zenon
  <1> DEFINE All(k) == \A i \in DOMAIN Children(entry) : fields[k].key = NameAt(entry, i) =>
                         Accepted(fields[k].value, Children(entry)[i])
  <1>6. ASSUME NEW k \in DOMAIN fields
        PROVE  All(k) <=> Accepted(fields[k].value, ChildEntry(entry, fields[k].key))
    <2> DEFINE key == fields[k].key
               value == fields[k].value
    <2>1. value \in Trees
      <3>1. fields[k] \in FieldsOf(STRING, Trees)
        OBVIOUS
      <3> QED
        BY <3>1 DEF FieldsOf
    <2>2. /\ \A i \in DOMAIN Children(entry) :
               NameAt(entry, i) \in STRING /\ Rank(entry, NameAt(entry, i)) = i
          /\ Rank(entry, key) = 0 <=> ChildEntry(entry, key) = NoEntry
          /\ Rank(entry, key) # 0 =>
               /\ Rank(entry, key) \in DOMAIN Children(entry)
               /\ NameAt(entry, Rank(entry, key)) = key
               /\ ChildEntry(entry, key) = Children(entry)[Rank(entry, key)]
          /\ 0 \notin DOMAIN Children(entry)
      BY <1>1, RankIs
    <2>3. CASE Rank(entry, key) = 0
      <3>1. Accepted(value, ChildEntry(entry, key))
        BY <2>1, <2>2, <2>3, NoEntryAccepts
      <3>2. \A i \in DOMAIN Children(entry) : NameAt(entry, i) # key
        BY <2>2, <2>3
      <3> QED
        BY <3>1, <3>2, Zenon
    <2>4. CASE Rank(entry, key) # 0
      <3>1. \A i \in DOMAIN Children(entry) : NameAt(entry, i) = key <=> i = Rank(entry, key)
        BY <2>2, <2>4
      <3> QED
        BY <2>2, <2>4, <3>1, Zenon
    <2> QED
      BY <2>3, <2>4
  <1> QED
    BY <1>4, <1>5, <1>6, Zenon

LEMMA ItemsAccepted ==
  ASSUME NEW entry \in DOMAIN Schema, NEW nested, Accepting(nested),
         NEW items \in Seq(Trees), \A k \in DOMAIN items : ~IsVoid(items[k])
  PROVE  normalizeArrayForSchema(items, Schema[entry].items, nested).ok <=>
           \A k \in DOMAIN items : Accepted(items[k], Schema[entry].items)
  <1> DEFINE below == Schema[entry].items
             norm == normalizeArrayForSchema(items, below, nested)
             source == Those(items, {i \in DOMAIN items : ~IsVoid(items[i])})
             outcomes == [i \in DOMAIN source |-> nested[below][source[i]]]
             failed == \E i \in DOMAIN source : ~outcomes[i].ok
             t == Array([i \in DOMAIN source |-> outcomes[i].value])
  <1>1. norm = IF failed THEN Failure ELSE Normal(t)
    BY DEF normalizeArrayForSchema
  <1>2. source = items
    <2>1. {i \in DOMAIN items : ~IsVoid(items[i])} = DOMAIN items
      OBVIOUS
    <2> QED
      BY <2>1, ThoseAll
  <1>3. norm.ok <=> ~failed
    <2> HIDE DEF norm, failed, t
    <2>1. CASE failed
      <3>1. norm = Failure
        BY <1>1, <2>1
      <3> QED
        BY <2>1, <3>1, FailureIs, Zenon
    <2>2. CASE ~failed
      <3>1. norm = Normal(t)
        BY <1>1, <2>2
      <3> QED
        BY <2>2, <3>1, NormalIs, Zenon
    <2> QED
      BY <2>1, <2>2
  <1>4. \A i \in DOMAIN items : outcomes[i] = nested[below][items[i]]
    BY <1>2
  <1>5. failed <=> \E i \in DOMAIN items : ~nested[below][items[i]].ok
    <2> HIDE DEF outcomes, source
    <2> QED
      BY <1>2, <1>4
  <1> HIDE DEF below, norm, failed
  <1>6. norm.ok <=> \A k \in DOMAIN items : Accepted(items[k], below)
    BY <1>3, <1>5, Zenon DEF Accepting
  <1> QED
    BY <1>6 DEF below, norm

\* A container is accepted when it fits its entry and its parts are accepted.
LEMMA AcceptedIs ==
  ASSUME NEW tree \in Trees, IsContainer(tree), tree \in Neat, NEW entry \in DOMAIN Schema
  PROVE  Accepted(tree, entry) <=>
           /\ Fits(tree, entry)
           /\ \A i \in DOMAIN Parts(tree) : Accepted(Parts(tree)[i], PartEntry(tree, i, entry))
  <1> DEFINE nested == normalized[Cardinality(DOMAIN Schema)]
             norm == normalizeGoverned(tree, Schema[entry], nested)
  <1>1. Accepted(tree, entry) <=> norm.ok
    BY NormalUnfolds DEF Accepted
  <1>2. Accepting(nested)
    BY DEF Accepting, Accepted, normalizeValueForSchema
  <1>3. tree.kind \in {"object", "array"} /\ tree.kind # "null" /\ entry # NoEntry
    BY SchemaAssumption DEF IsContainer
  <1>4. \A i \in DOMAIN Parts(tree) : Parts(tree)[i] \in Neat /\ ~IsVoid(Parts(tree)[i])
    BY NeatIs DEF NeatBelow, NeatTop
  <1> HIDE DEF nested
  <1>5. CASE tree.kind # Schema[entry].kind
    <2>1. norm = Failure
      BY <1>3, <1>5 DEF normalizeGoverned
    <2>2. ~norm.ok
      BY <2>1, FailureIs
    <2> QED
      BY <1>1, <1>5, <2>2, Zenon DEF Fits
  <1>6. CASE tree.kind = Schema[entry].kind /\ tree.kind = "object"
    <2>1. norm = normalizeObjectForSchema(tree.fields, Schema[entry].children, nested)
      BY <1>3, <1>6 DEF normalizeGoverned
    <2>2. /\ tree.fields \in Seq(FieldsOf(STRING, Trees))
          /\ DOMAIN Parts(tree) = DOMAIN tree.fields
          /\ \A i \in DOMAIN tree.fields : Parts(tree)[i] = tree.fields[i].value
      BY <1>6, PartsAreTrees
    <2>3. Distinct(tree.fields) /\ \A i \in DOMAIN tree.fields : ~IsVoid(tree.fields[i].value)
      BY <1>4, <1>6, <2>2, NeatIs DEF NeatBelow, NeatTop
    <2>4. norm.ok <=>
            /\ \A i \in DOMAIN Children(entry) : HasChild(tree.fields, entry, i)
            /\ \A k \in DOMAIN tree.fields :
                 Accepted(tree.fields[k].value, ChildEntry(entry, tree.fields[k].key))
      BY <1>2, <2>1, <2>2, <2>3, FieldsAccepted
    <2>5. \A i \in DOMAIN tree.fields :
            PartEntry(tree, i, entry) = ChildEntry(entry, tree.fields[i].key)
      BY <1>6 DEF PartEntry
    <2> HIDE DEF norm
    <2> QED
      BY <1>1, <1>6, <2>2, <2>4, <2>5, Zenon DEF Fits
  <1>7. CASE tree.kind = Schema[entry].kind /\ tree.kind = "array"
    <2>1. norm = normalizeArrayForSchema(tree.items, Schema[entry].items, nested)
      BY <1>3, <1>7 DEF normalizeGoverned
    <2>2. Parts(tree) = tree.items /\ tree.items \in Seq(Trees)
      BY <1>7, PartsAreTrees
    <2>3. \A i \in DOMAIN tree.items : ~IsVoid(tree.items[i])
      BY <1>4, <2>2
    <2>4. norm.ok <=> \A k \in DOMAIN tree.items : Accepted(tree.items[k], Schema[entry].items)
      BY <1>2, <2>1, <2>2, <2>3, ItemsAccepted
    <2>5. \A i \in DOMAIN Parts(tree) : PartEntry(tree, i, entry) = Schema[entry].items
      BY <1>3, <1>7 DEF PartEntry, ItemEntry
    <2>6. tree.kind # "object"
      BY <1>7, Zenon
    <2> HIDE DEF norm
    <2> QED
      BY <1>1, <1>7, <2>2, <2>4, <2>5, <2>6, Zenon DEF Fits
  <1> QED
    BY <1>3, <1>5, <1>6, <1>7

-----------------------------------------------------------------------------
(* The nodes of governed values.                                           *)

\* What a slot denotes is its node, with what the parts denote.
LEMMA ViewUnfolds ==
  ASSUME NEW h, HeapOK(h), Grounded(h), Cardinality(DOMAIN h) <= MaxDepth, NEW r \in DOMAIN h
  PROVE  /\ [q \in DOMAIN h |-> View(h, Ref(q))] \in [DOMAIN h -> Trees]
         /\ View(h, Ref(r)) = TreeAt(h, [q \in DOMAIN h |-> View(h, Ref(q))], r)
  <1> DEFINE D == DOMAIN h
             Below == [q \in D |-> RefsIn(Slots(h[q]))]
             seen == [q \in D |-> View(h, Ref(q))]
  <1>1. PICK view : /\ Viewing(h, view)
                    /\ \A s : View(h, s) = IF IsRef(s) THEN view[MaxDepth][s.ref] ELSE s
    BY ViewIs
  <1>2. \A n \in Nat : /\ view[n] \in [D -> Nested[n]]
                       /\ view[n + 1] = [q \in D |-> TreeAt(h, view[n], q)]
    BY <1>1 DEF Viewing
  <1>3. \A q \in D : View(h, Ref(q)) = view[MaxDepth][q]
    BY <1>1, RefIs
  <1>4. seen = view[MaxDepth] /\ view[MaxDepth] \in [D -> Trees]
    BY <1>2, <1>3, DepthAssumption DEF Trees
  <1>5. Founded(D, Below)
    <2>1. ASSUME NEW T \in SUBSET D, T # {} PROVE \E x \in T : Below[x] \cap T = {}
      <3>1. PICK x \in T : RefsIn(Slots(h[x])) \cap T = {}
        BY <2>1 DEF Grounded
      <3> QED
        BY <3>1
    <2> HIDE DEF Below
    <2> QED
      BY <2>1 DEF Founded
  <1>6. LevelByLevel(view, D, Below)
    <2>1. ASSUME NEW n \in Nat, NEW m \in Nat, NEW q \in D,
                 \A y \in D : y \in Below[q] => view[n][y] = view[m][y]
          PROVE  view[n + 1][q] = view[m + 1][q]
      <3>1. view[n + 1][q] = TreeAt(h, view[n], q) /\ view[m + 1][q] = TreeAt(h, view[m], q)
        BY <1>2
      <3>2. \A i \in DOMAIN Parts(h[q]) :
              IsRef(Parts(h[q])[i]) => view[n][Parts(h[q])[i].ref] = view[m][Parts(h[q])[i].ref]
        <4> SUFFICES ASSUME NEW i \in DOMAIN Parts(h[q]), IsRef(Parts(h[q])[i])
                     PROVE  view[n][Parts(h[q])[i].ref] = view[m][Parts(h[q])[i].ref]
          OBVIOUS
        <4>1. Parts(h[q])[i].ref \in RefsIn(Slots(h[q]))
          BY DEF RefsIn, Slots, Range
        <4>2. RefsIn(Slots(h[q])) \subseteq D
          BY HeapClosed DEF Closed
        <4> QED
          BY <2>1, <4>1, <4>2
      <3> DEFINE slots == Parts(h[q])
                 Shown(trees) == [i \in DOMAIN slots |->
                                    IF IsRef(slots[i]) THEN trees[slots[i].ref] ELSE slots[i]]
      <3>3. Shown(view[n]) = Shown(view[m])
        <4> HIDE DEF slots
        <4>1. \A i \in DOMAIN slots : IsRef(slots[i]) => view[n][slots[i].ref] = view[m][slots[i].ref]
          BY <3>2 DEF slots
        <4> QED
          BY <4>1
      <3>4. \A trees : TreeAt(h, trees, q) = TreeOf(h[q], Shown(trees))
        BY DEF TreeAt
      <3> HIDE DEF Shown
      <3> QED
        BY <3>1, <3>3, <3>4
    <2> HIDE DEF Below, D
    <2> QED
      BY <2>1, Zenon DEF LevelByLevel
  <1>7. view[MaxDepth + 1][r] = view[MaxDepth][r]
    <2> HIDE DEF Below
    <2>1. IsFiniteSet(D) /\ Cardinality(D) <= MaxDepth /\ r \in D
      BY DEF HeapOK
    <2> HIDE DEF D
    <2> QED
      BY <1>5, <1>6, <2>1, DepthAssumption, Settles
  <1>8. view[MaxDepth + 1][r] = TreeAt(h, view[MaxDepth], r)
    BY <1>2, DepthAssumption
  <1> HIDE DEF seen
  <1>9. View(h, Ref(r)) = TreeAt(h, seen, r)
    BY <1>3, <1>4, <1>7, <1>8
  <1> QED
    BY <1>4, <1>9 DEF seen

\* A governed node fits its entry, and the parts in it that are no nodes are
\* accepted there.
ValidNode(h, r) ==
  h[r].entry # NoEntry =>
    /\ Fits(h[r], h[r].entry)
    /\ \A i \in DOMAIN Parts(h[r]) :
         ~IsRef(Parts(h[r])[i]) => Accepted(Parts(h[r])[i], PartEntry(h[r], i, h[r].entry))

LEMMA SameFit ==
  ASSUME NEW c, NEW d, c.kind = d.kind,
         c.kind = "object" => DOMAIN c.fields = DOMAIN d.fields
                                /\ \A i \in DOMAIN c.fields : c.fields[i].key = d.fields[i].key,
         NEW entry
  PROVE  Fits(c, entry) <=> Fits(d, entry)
  <1>1. CASE c.kind = "object"
    <2>1. KeysOf(c.fields) = KeysOf(d.fields)
      BY <1>1 DEF KeysOf
    <2> QED
      BY <1>1, <2>1, Zenon DEF Fits, HasChild
  <1>2. CASE c.kind # "object"
    BY <1>2, Zenon DEF Fits
  <1> QED
    BY <1>1, <1>2

\* AlwaysValid, from what each node is and each mutator checks.
LEMMA ValidView ==
  ASSUME NEW h, HeapOK(h), Grounded(h), Cardinality(DOMAIN h) <= MaxDepth,
         \A r \in DOMAIN h : GovernedNode(h, r) /\ NeatNode(h, r) /\ ValidNode(h, r),
         NEW r \in DOMAIN h, h[r].entry # NoEntry
  PROVE  Accepted(View(h, Ref(r)), h[r].entry)
  <1> DEFINE seen == [q \in DOMAIN h |-> View(h, Ref(q))]
             Bad == {q \in DOMAIN h : h[q].entry # NoEntry /\ ~Accepted(seen[q], h[q].entry)}
  <1>1. ASSUME NEW q \in DOMAIN h, h[q].entry # NoEntry, RefsIn(Slots(h[q])) \cap Bad = {}
        PROVE  Accepted(seen[q], h[q].entry)
    <2> DEFINE tree == seen[q]
               node == h[q]
               entry == h[q].entry
    <2>1. /\ seen \in [DOMAIN h -> Nested[MaxDepth]] /\ tree = TreeAt(h, seen, q)
          /\ tree \in Trees
      BY ViewUnfolds DEF Trees
    <2> HIDE DEF seen
    <2>2. /\ IsContainer(tree) /\ tree.kind = node.kind
          /\ DOMAIN Parts(tree) = DOMAIN Parts(node)
          /\ \A i \in DOMAIN Parts(node) :
               /\ Parts(node)[i] \in Links(DOMAIN h)
               /\ IsRef(Parts(node)[i]) => Parts(tree)[i] = seen[Parts(node)[i].ref]
               /\ ~IsRef(Parts(node)[i]) => Parts(tree)[i] = Parts(node)[i]
               /\ node.kind = "object" => tree.fields[i].key = node.fields[i].key
      BY <2>1, DepthAssumption, TreeAtIs
    <2>3. tree \in Neat
      <3>1. Ref(q) \in Links(DOMAIN h) /\ ~IsVoid(Ref(q))
        BY DEF Links, IsVoid, Ref
      <3>2. View(h, Ref(q)) \in Neat
        BY <3>1, NeatView
      <3> QED
        BY <3>2 DEF seen
    <2>4. node \in NodesWith(Links(DOMAIN h)) /\ entry \in DOMAIN Schema
      <3>1. node \in NodesWith(Links(DOMAIN h))
        BY DEF HeapOK
      <3>2. entry \in Entries
        BY <3>1, NodeShape
      <3> QED
        BY <1>1, <3>1, <3>2 DEF Entries
    <2>5. node.kind = "object" => DOMAIN node.fields = DOMAIN Parts(node)
                                    /\ DOMAIN tree.fields = DOMAIN Parts(tree)
      <3>1. node.kind = "object" => DOMAIN node.fields = DOMAIN Parts(node)
        BY <2>4, NodeShape
      <3>2. tree.kind = "object" => DOMAIN tree.fields = DOMAIN Parts(tree)
        BY <2>1, <2>2, PartsAreTrees
      <3> QED
        BY <2>2, <3>1, <3>2
    <2> HIDE DEF tree, node, entry
    <2>6. Fits(tree, entry)
      <3>1. Fits(node, entry)
        BY <1>1 DEF ValidNode, node, entry
      <3>2. tree.kind = "object" => DOMAIN tree.fields = DOMAIN node.fields
                                      /\ \A i \in DOMAIN tree.fields : tree.fields[i].key = node.fields[i].key
        BY <2>2, <2>5
      <3> QED
        BY <2>2, <3>1, <3>2, SameFit
    <2>7. ASSUME NEW i \in DOMAIN Parts(tree)
          PROVE  Accepted(Parts(tree)[i], PartEntry(tree, i, entry))
      <3>1. i \in DOMAIN Parts(node) /\ Parts(tree)[i] \in Trees
        BY <2>1, <2>2, PartsAreTrees
      <3>2. PartEntry(tree, i, entry) = PartEntry(node, i, entry)
        <4>1. CASE node.kind = "array"
          BY <2>2, <4>1 DEF PartEntry
        <4>2. CASE node.kind # "array"
          <5>1. node.kind = "object"
            BY <2>4, <4>2, NodeShape
          <5> QED
            BY <2>2, <3>1, <4>2, <5>1 DEF PartEntry
        <4> QED
          BY <4>1, <4>2
      <3>3. CASE PartEntry(node, i, entry) = NoEntry
        BY <3>1, <3>2, <3>3, NoEntryAccepts
      <3>4. CASE ~IsRef(Parts(node)[i])
        <4>1. Accepted(Parts(node)[i], PartEntry(node, i, entry))
          BY <1>1, <3>1, <3>4 DEF ValidNode, node, entry
        <4> QED
          BY <2>2, <3>1, <3>2, <3>4, <4>1
      <3>5. CASE IsRef(Parts(node)[i]) /\ PartEntry(node, i, entry) # NoEntry
        <4> DEFINE p == Parts(node)[i].ref
        <4>1. p \in RefsIn(Slots(h[q])) /\ p \in DOMAIN h
          <5>1. p \in RefsIn(Slots(h[q]))
            BY <3>1, <3>5 DEF RefsIn, Slots, Range, node
          <5> QED
            BY <5>1, HeapClosed DEF Closed
        <4>2. h[p].entry = PartEntry(node, i, entry)
          BY <3>1, <3>5 DEF GovernedNode, node, entry
        <4>3. Accepted(seen[p], h[p].entry)
          BY <1>1, <3>5, <4>1, <4>2
        <4> QED
          BY <2>2, <3>1, <3>2, <3>5, <4>2, <4>3
      <3> QED
        BY <3>3, <3>4, <3>5
    <2>8. Accepted(tree, entry)
      BY <2>1, <2>2, <2>3, <2>4, <2>6, <2>7, AcceptedIs
    <2> QED
      BY <2>8 DEF tree, entry
  <1>2. Bad = {}
    <2> SUFFICES ASSUME Bad # {} PROVE FALSE
      OBVIOUS
    <2>1. Bad \in SUBSET DOMAIN h
      OBVIOUS
    <2> HIDE DEF seen
    <2>2. PICK q \in Bad : RefsIn(Slots(h[q])) \cap Bad = {}
      BY <2>1 DEF Grounded
    <2>3. q \in DOMAIN h /\ h[q].entry # NoEntry /\ ~Accepted(seen[q], h[q].entry)
      BY <2>2
    <2> QED
      BY <1>1, <2>2, <2>3
  <1>3. Accepted(seen[r], h[r].entry)
    BY <1>2
  <1> QED
    BY <1>3

\* The nodes of an accepted tree are valid.
LEMMA StoredValid ==
  ASSUME NEW h, HeapOK(h), NEW tree \in Trees, IsContainer(tree) => tree \in Neat,
         NEW attached \in BOOLEAN, NEW entry \in Entries, Accepted(tree, entry)
  PROVE  LET new == Store(h, tree, attached, entry).heap
         IN  \A r \in DOMAIN new \ DOMAIN h : ValidNode(new, r)
  <1> DEFINE new == Store(h, tree, attached, entry).heap
             slot == Store(h, tree, attached, entry).slot
             N == DOMAIN new \ DOMAIN h
  <1>1. StoredIn(h, new, slot, tree, attached, entry)
    BY Stored
  <1>2. PICK places : /\ DOMAIN places = N /\ Shows(new, places)
                      /\ IsContainer(tree) => places[slot.ref] = [tree |-> tree, entry |-> entry]
    BY StoredShows
  <1> HIDE DEF new, slot
  <1>3. CASE ~IsContainer(tree)
    <2>1. new = h
      BY <1>1, <1>3 DEF StoredIn
    <2> QED
      BY <2>1 DEF new
  <1>4. CASE IsContainer(tree)
    <2> DEFINE Good(p) == p.tree \in Neat /\ p.tree \in Trees /\ Accepted(p.tree, p.entry)
               G == {r \in N : Good(places[r])}
    <2>1. /\ HeapOK(new) /\ Closed(new, N) /\ N \subseteq Own(new, slot)
          /\ slot \in Links(N) /\ IsRef(slot) /\ slot \in Links(DOMAIN new)
      <3>1. /\ HeapOK(new) /\ Closed(new, N) /\ N \subseteq Reach(new, {slot})
            /\ slot \in Links(N) /\ IsRef(slot)
        BY <1>1, <1>4 DEF StoredIn, Added
      <3>2. N \subseteq DOMAIN new
        OBVIOUS
      <3> HIDE DEF N
      <3> QED
        BY <3>1, <3>2, LinksWithin DEF Own
    <2>2. \A r \in N : NodeShows(new, r, places) /\ IsContainer(places[r].tree) /\ places[r] \in TreePlaces
      BY <1>2 DEF Shows, NodeShows
    <2>3. Closed(new, G)
      <3> SUFFICES ASSUME NEW r \in G, NEW q \in RefsIn(Slots(new[r])) PROVE q \in G
        BY DEF Closed
      <3> DEFINE p == places[r]
      <3>1. PICK i \in DOMAIN Parts(new[r]) : IsRef(Parts(new[r])[i]) /\ Parts(new[r])[i].ref = q
        BY DEF RefsIn, Slots, Range
      <3>2. /\ q \in N /\ places[q] = PartAt(p, i) /\ i \in ContainersIn(p.tree)
        BY <1>2, <3>1, PartShown
      <3>3. Good(p) /\ IsContainer(p.tree) /\ p.entry \in Entries
        BY <2>2 DEF TreePlaces
      <3> HIDE DEF p
      <3>4. /\ i \in DOMAIN Parts(p.tree) /\ places[q].tree = Parts(p.tree)[i]
            /\ places[q].entry = PartEntry(p.tree, i, p.entry)
        BY <3>2 DEF ContainersIn, PartAt
      <3>5. places[q].tree \in Neat
        BY <3>3, <3>4, NeatIs DEF NeatBelow
      <3>6. places[q].tree \in Trees
        BY <3>3, <3>4, PartsAreTrees
      <3>7. Accepted(places[q].tree, places[q].entry)
        <4>1. CASE p.entry = NoEntry
          <5>1. places[q].entry = NoEntry
            BY <3>4, <4>1, EntriesBelow DEF PartEntry
          <5> QED
            BY <3>6, <5>1, NoEntryAccepts
        <4>2. CASE p.entry # NoEntry
          <5>1. p.entry \in DOMAIN Schema
            BY <3>3, <4>2 DEF Entries
          <5> QED
            BY <3>3, <3>4, <5>1, AcceptedIs
        <4> QED
          BY <4>1, <4>2
      <3> QED
        BY <3>2, <3>5, <3>6, <3>7
    <2>4. slot \in Links(G)
      <3>1. slot.ref \in N /\ slot = Ref(slot.ref)
        BY <2>1, LinkOrScalar
      <3>2. Good(places[slot.ref])
        BY <1>2, <1>4
      <3> QED
        BY <3>1, <3>2 DEF Links
    <2>5. N \subseteq G
      <3>1. G \in SUBSET DOMAIN new
        OBVIOUS
      <3> HIDE DEF G, N
      <3> QED
        BY <2>1, <2>3, <2>4, <3>1, OwnIs
    <2>6. ASSUME NEW r \in N, new[r].entry # NoEntry PROVE ValidNode(new, r)
      <3> DEFINE p == places[r]
                 node == new[r]
      <3>1. Good(p) /\ NodeShows(new, r, places) /\ IsContainer(p.tree) /\ p.entry \in Entries
        BY <2>2, <2>5 DEF TreePlaces
      <3>2. node \in NodesWith(Links(DOMAIN new))
        BY <2>1 DEF HeapOK
      <3>3. /\ node.kind = p.tree.kind /\ node.entry = p.entry
            /\ DOMAIN Parts(node) = DOMAIN Parts(p.tree)
            /\ \A i \in DOMAIN Parts(node) :
                 /\ node.kind = "object" => node.fields[i].key = p.tree.fields[i].key
                 /\ ~IsRef(Parts(node)[i]) => Parts(node)[i] = Parts(p.tree)[i]
        BY <3>1 DEF NodeShows
      <3>4. /\ node.kind = "object" => DOMAIN node.fields = DOMAIN Parts(node)
            /\ node.kind = "object" \/ node.kind = "array"
        BY <3>2, NodeShape
      <3>5. p.tree.kind = "object" => DOMAIN p.tree.fields = DOMAIN Parts(p.tree)
        BY <3>1, PartsAreTrees
      <3> HIDE DEF p, node
      <3>6. p.entry \in DOMAIN Schema
        BY <2>6, <3>1, <3>3 DEF Entries, node
      <3>7. /\ Fits(p.tree, p.entry)
            /\ \A i \in DOMAIN Parts(p.tree) : Accepted(Parts(p.tree)[i], PartEntry(p.tree, i, p.entry))
        BY <3>1, <3>6, AcceptedIs
      <3>8. Fits(node, p.entry)
        <4>1. node.kind = "object" => DOMAIN node.fields = DOMAIN p.tree.fields
                /\ \A i \in DOMAIN node.fields : node.fields[i].key = p.tree.fields[i].key
          BY <3>3, <3>4, <3>5
        <4> QED
          BY <3>3, <3>7, <4>1, SameFit
      <3>9. \A i \in DOMAIN Parts(node) : PartEntry(node, i, p.entry) = PartEntry(p.tree, i, p.entry)
        BY <3>3, <3>4 DEF PartEntry
      <3> QED
        BY <3>3, <3>7, <3>8, <3>9 DEF ValidNode, node
    <2>7. \A r \in N : ValidNode(new, r)
      BY <2>6 DEF ValidNode
    <2> QED
      BY <2>7 DEF new
  <1> QED
    BY <1>3, <1>4

-----------------------------------------------------------------------------
(* reorderObjectFieldsBySchema keeps every key.                            *)

LEMMA UnknownKept ==
  ASSUME NEW F, NEW known \in Seq(F), NEW source \in Seq(F),
         NEW unknown, unknown \subseteq DOMAIN source, NEW i \in unknown
  PROVE  \E k \in DOMAIN Together(known, source, unknown) :
           Together(known, source, unknown)[k] = source[i]
  <1> DEFINE a == nonVoidObjectFields(known)
             b == Those(source, unknown)
             t == Together(known, source, unknown)
  <1>1. a \in Seq(F)
    BY NonVoidIs
  <1>2. b \in Seq(F) /\ \E k \in DOMAIN b : b[k] = source[i]
    <2> HIDE DEF b
    <2>1. b \in Seq(F) /\ Picked(source, unknown, Len(source), b)
      BY ThosePicked DEF b
    <2>2. PICK at : PickedBy(source, unknown, Len(source), b, at)
      BY <2>1 DEF Picked
    <2>3. i \in 1..Len(source)
      OBVIOUS
    <2>4. PICK k \in 1..Len(b) : at[k] = i /\ b[k] = source[at[k]]
      BY <2>2, <2>3 DEF PickedBy
    <2> QED
      BY <2>1, <2>4
  <1>3. t = a \o b
    BY DEF Together
  <1> HIDE DEF a, b, t
  <1>4. PICK k \in DOMAIN b : b[k] = source[i]
    BY <1>2
  <1>5. /\ Len(a) \in Nat /\ Len(b) \in Nat /\ DOMAIN b = 1..Len(b)
        /\ DOMAIN t = 1..Len(a) + Len(b)
        /\ \A m \in 1..Len(a) + Len(b) : t[m] = IF m <= Len(a) THEN a[m] ELSE b[m - Len(a)]
    BY <1>1, <1>2, <1>3, Joined
  <1>6. Len(a) + k \in DOMAIN t /\ t[Len(a) + k] = b[k]
    BY <1>5
  <1> QED
    BY <1>4, <1>6 DEF t

LEMMA ReorderKeepsKeys ==
  ASSUME NEW V, Void \in V, NEW fields \in Seq(FieldsOf(STRING, V)), Distinct(fields),
         \A i \in DOMAIN fields : ~IsVoid(fields[i].value), NEW entry \in Entries
  PROVE  KeysOf(fields) \subseteq KeysOf(reorderObjectFieldsBySchema(fields, entry))
  <1> DEFINE t == reorderObjectFieldsBySchema(fields, entry)
             cs == Children(entry)
             F == FieldsOf(STRING, V)
             ordered == [i \in DOMAIN cs |-> Field(NameAt(entry, i), GetField(fields, NameAt(entry, i)))]
             unknown == {i \in DOMAIN fields : ~Known(entry, fields[i].key)}
  <1>1. CASE entry = NoEntry \/ Schema[entry].kind # "object"
    BY <1>1 DEF reorderObjectFieldsBySchema
  <1>2. CASE ~(entry = NoEntry \/ Schema[entry].kind # "object")
    <2>1. nonVoidObjectFields(fields) = fields
      <3>1. fields \in Seq(F)
        OBVIOUS
      <3> HIDE DEF F
      <3> QED
        BY <3>1, NonVoidSame
    <2>2. t = Together(ordered, fields, unknown)
      BY <1>2, <2>1, Zenon DEF reorderObjectFieldsBySchema, NameAt, Together
    <2> HIDE DEF t
    <2>3. cs \in Seq(DOMAIN Schema) /\ Len(cs) \in Nat /\ DOMAIN cs = 1..Len(cs)
      BY RankIs
    <2>4. ASSUME NEW i \in DOMAIN cs PROVE ordered[i] \in F
      <3>1. NameAt(entry, i) \in STRING
        BY RankIs
      <3>2. GetField(fields, NameAt(entry, i)) \in V
        BY GetFieldIn
      <3> QED
        BY <3>1, <3>2 DEF Field, FieldsOf
    <2>5. ordered \in Seq(F) /\ DOMAIN ordered = DOMAIN cs /\ fields \in Seq(F)
      <3>1. ordered \in [1..Len(cs) -> F]
        BY <2>3, <2>4
      <3>2. fields \in Seq(F)
        OBVIOUS
      <3> HIDE DEF ordered, F, cs
      <3> QED
        BY <2>3, <3>1, <3>2, SequenceOf
    <2>6. \A i \in DOMAIN ordered : /\ ordered[i].key = NameAt(entry, i)
                                    /\ ordered[i].value = GetField(fields, NameAt(entry, i))
      BY DEF Field
    <2>7. unknown \subseteq DOMAIN fields
      OBVIOUS
    <2>8. \A n \in DOMAIN fields : GetField(fields, fields[n].key) = fields[n].value
      BY GetFieldOf
    <2>9. ASSUME NEW n \in DOMAIN fields PROVE \E k \in DOMAIN t : t[k].key = fields[n].key
      <3> DEFINE key == fields[n].key
      <3>1. CASE Known(entry, key)
        <4>1. Rank(entry, key) \in DOMAIN cs /\ NameAt(entry, Rank(entry, key)) = key
          BY <3>1, RankIs DEF Known
        <4> DEFINE i == Rank(entry, key)
        <4>2. i \in DOMAIN ordered /\ ordered[i].key = key /\ ~IsVoid(ordered[i].value)
          BY <2>5, <2>6, <2>8, <4>1
        <4> HIDE DEF i, ordered, unknown, F
        <4>3. \E k \in DOMAIN t : t[k] = ordered[i]
          BY <2>2, <2>5, <2>7, <4>2, KnownKept
        <4> QED
          BY <4>2, <4>3
      <3>2. CASE ~Known(entry, key)
        <4>1. n \in unknown
          BY <3>2
        <4> HIDE DEF ordered, unknown, F
        <4>2. \E k \in DOMAIN t : t[k] = fields[n]
          BY <2>2, <2>5, <2>7, <4>1, UnknownKept
        <4> QED
          BY <4>2
      <3> QED
        BY <3>1, <3>2
    <2>10. KeysOf(fields) \subseteq KeysOf(t)
      BY <2>9 DEF KeysOf
    <2> QED
      BY <2>10 DEF t
  <1> QED
    BY <1>1, <1>2
=============================================================================
