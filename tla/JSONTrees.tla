------------------------------ MODULE JSONTrees ------------------------------
(***************************************************************************)
(* JSON values as immutable trees, compared as the patch operations test   *)
(* and diff compare them (patch_equal.go).  A number keeps its text and is *)
(* compared through NumberValue.                                           *)
(***************************************************************************)
EXTENDS JSONValues

CONSTANTS
  NumberValue,  \* [number text -> the number it denotes]
  MaxDepth      \* bound: containers around a scalar

ASSUME DepthAssumption == MaxDepth \in Nat

ScalarValues ==
  {Void, Null} \cup [kind : {"boolean", "number", "string"}, text : STRING]

\* The containers with parts taken from `values`.
ObjectsOf(values) == [kind : {"object"}, fields : Seq(FieldsOf(STRING, values))]
ArraysOf(values)  == [kind : {"array"}, items : Seq(values)]

\* The values with at most so many containers around a scalar.
Nested[depth \in Nat] ==
  IF depth = 0 THEN ScalarValues
  ELSE ScalarValues \cup ObjectsOf(Nested[depth - 1]) \cup ArraysOf(Nested[depth - 1])

Trees == Nested[MaxDepth]

\* A depth that a tree does not exceed.
Depth(tree) == CHOOSE depth \in 0..MaxDepth : tree \in Nested[depth]

\* Numbers by value, objects without regard to the order of their fields;
\* `nested` compares the parts.
equalAround(a, b, nested) ==
  /\ a.kind = b.kind
  /\ CASE a.kind = "object" ->
            LET left  == nonVoidObjectFields(a.fields)
                right == nonVoidObjectFields(b.fields)
            IN  /\ Len(left) = Len(right)
                /\ \A i \in DOMAIN left :
                     LET other == SelectLastInSeq(right,
                                        LAMBDA f : f.key = left[i].key)
                     IN  /\ other > 0
                         /\ nested[left[i].value][right[other].value]
       [] a.kind = "array" ->
            /\ Len(a.items) = Len(b.items)
            /\ \A i \in DOMAIN a.items : nested[a.items[i]][b.items[i]]
       [] a.kind = "number" -> NumberValue[a.text] = NumberValue[b.text]
       [] OTHER             -> a.text = b.text

\* Of values with so many containers around a scalar.
equal[depth \in 0..MaxDepth] ==
  [a \in Trees |-> [b \in Trees |->
     equalAround(a, b, IF depth = 0 THEN <<>> ELSE equal[depth - 1])]]

valuesEqual(a, b) == equal[MaxDepth][a][b]
=============================================================================
