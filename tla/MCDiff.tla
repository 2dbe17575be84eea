------------------------------- MODULE MCDiff -------------------------------
(***************************************************************************)
(* All pairs of documents from a set that has absent, added, changed,      *)
(* removed and reordered fields, arrays that grow and shrink, nested       *)
(* values, numbers spelled in two ways, and values of different kinds in   *)
(* one place.  The schema gives "a" a default and knows nothing of the     *)
(* other names, in whose pointers characters are escaped; it meets what    *)
(* NodeHeap assumes of a schema.                                           *)
(***************************************************************************)
EXTENDS Diff, NodeHeap

MCSchema ==
  [root |-> [EntryRecord("object") EXCEPT !.children = <<"c", "a">>],
   a    |-> [EntryRecord("number") EXCEPT !.name = "a", !.accepts = {"1", "1.0", "2"},
                                          !.default = Num("1")],
   c    |-> [EntryRecord("object") EXCEPT !.name = "c", !.children = <<"a">>]]

MCNumberValue == ("1" :> 1) @@ ("1.0" :> 1) @@ ("2" :> 2)

Leaves  == {Num("1"), Num("1.0"), Num("2"), Null}
Inner   == Leaves \cup {Object(<<>>), Object(<<Field("a", Num("2"))>>)}
Arrays  == {Array(<<>>)} \cup {Array(<<v>>) : v \in Inner}
             \cup {Array(<<v, w>>) : v \in {Num("1"), Num("2")}, w \in Leaves}
Objects == {Object(<<>>)}
             \cup {Object(<<Field(k, v)>>) : k \in {"a", "c"}, v \in Inner}
             \cup {Object(<<Field("~1", v), Field(k, w)>>) :
                     k \in {"a", "c"}, v \in {Array(<<>>), Array(<<Num("1")>>), Num("2")},
                     w \in {Num("1"), Num("2"), Object(<<>>)}}
             \cup {Object(<<Field("a", v), Field("c", Object(<<Field("/", w)>>))>>) :
                     v \in {Num("1"), Num("2")}, w \in {Null, Array(<<Num("2")>>)}}
MCTrees == Leaves \cup Arrays \cup Objects \cup {Void}
MCSortedKeys == <<"/", "a", "c", "~1">>

MCSpelling == [t \in {"a", "c", "/", "0", "1", "2", "3"} |-> <<t>>] @@ ("~1" :> <<"~", "1">>)
=============================================================================
