------------------------------- MODULE MCPatch -------------------------------
(***************************************************************************)
(* Patches on a document with a nested object inside an array, on a root   *)
(* array and on a scalar.  The schema knows "a", an array of anything, and *)
(* "b", a number with a default; the tokens "0" and "-" also occur as      *)
(* plain field names of objects.                                           *)
(***************************************************************************)
EXTENDS PatchRefinement, HeapViews

MCSchema ==
  [root |-> [EntryRecord("object") EXCEPT !.children = <<"a", "b">>],
   a    |-> [EntryRecord("array") EXCEPT !.name = "a", !.required = TRUE],
   b    |-> [EntryRecord("number") EXCEPT !.name = "b", !.required = TRUE,
                                          !.accepts = {"1", "1.0"},
                                          !.default = Num("1")]]

MCNumberValue == ("1" :> 1) @@ ("1.0" :> 1) @@ ("2" :> 2)
MCScalars     == {Num("1.0"), Num("2")}
MCArgument    == Object(<<Field("0", Num("1"))>>)
MCTrees       ==
  {Object(<<Field("b", Num("1")), Field("a", Array(<<Num("1"), Object(<<>>)>>))>>),
   Object(<<Field("a", Array(<<>>)), Field("0", Array(<<Num("2")>>))>>),
   Array(<<Num("2"), Num("1")>>),
   Num("2")}
MCPointers    == {<<>>, <<"a">>, <<"b">>, <<"0">>, <<"a", "-">>, <<"a", "0">>,
                  <<"a", "0", "b">>, <<"a", "1", "b">>}

CanonicalView ==
  <<Canonical(heap, <<doc, argument, patchValue, working>>), cfg, status, applied>>
=============================================================================
