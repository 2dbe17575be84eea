---- MODULE MCDocuments ----
(***************************************************************************)
(* A document of one required number and a nullable array of records, each *)
(* with a number that has a default.  The two keys serve at both levels:   *)
(* "list" in a record is a field the schema does not know.                 *)
(***************************************************************************)
EXTENDS Documents, HeapViews

MCSchema ==
  [root |-> [EntryRecord("object") EXCEPT !.children = <<"id", "list">>],
   id   |-> [EntryRecord("number") EXCEPT !.name = "id", !.required = TRUE,
                                          !.accepts = {"1", "2"}],
   list |-> [EntryRecord("array") EXCEPT !.name = "list", !.nullable = TRUE,
                                         !.items = "item"],
   item |-> [EntryRecord("object") EXCEPT !.children = <<"n">>],
   n    |-> [EntryRecord("number") EXCEPT !.name = "id", !.accepts = {"1"},
                                          !.default = Num("1")]]

MCNumberValue == ("1" :> 1) @@ ("2" :> 2)
MCScalars     == {Num("1")}

ASSUME ValidDefaults == OptionalDefaults

\* The two variables are interchangeable, the names of the nodes too.
CanonicalView ==
  {Canonical(heap, [i \in DOMAIN hs |-> hand[hs[i]]]) : hs \in SetToSeqs(Handles)}
====
