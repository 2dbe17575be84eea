------------------------------- MODULE MCStruct -------------------------------
(***************************************************************************)
(* Two variables of                                                        *)
(*   type Movie struct {                                                   *)
(*       Name  string      `json:"name"`                                   *)
(*       Lead  *Person     `json:"lead"`                                   *)
(*       Cast  []Person    `json:"cast,omitempty"`                         *)
(*       Owner string      `json:"-"`                                      *)
(*       Any   interface{} `json:"any,omitempty"`                          *)
(*       Main  Person      `json:"main"`                                   *)
(*       Map   map[...]... `json:"map,omitempty"`                          *)
(*       count int                                                         *)
(*   }                                                                     *)
(*   type Person struct {                                                  *)
(*       Age int8  `json:"age,omitempty"`;  Born Date `json:"born"` }      *)
(* where Date is a TextUnmarshaler; ints have 3 and 4 bits for 8 and 64.   *)
(***************************************************************************)
EXTENDS StructJSON

GoField(go, tag, type) ==
  [go |-> go, exported |-> TRUE, tag |-> tag, omitempty |-> FALSE, type |-> type]
OmitEmpty(f) == [f EXCEPT !.omitempty = TRUE]

MCGoType ==
  [Movie  |-> [kind |-> "struct", fields |-> <<
                 GoField("Name", "name", "string"),
                 GoField("Lead", "lead", "*Person"),
                 OmitEmpty(GoField("Cast", "cast", "[]Person")),
                 GoField("Owner", "-", "string"),
                 OmitEmpty(GoField("Any", "any", "interface")),
                 GoField("Main", "main", "Person"),
                 OmitEmpty(GoField("Map", "map", "map")),
                 [GoField("count", "count", "int8") EXCEPT !.exported = FALSE]>>],
   Person |-> [kind |-> "struct", fields |-> <<
                 OmitEmpty(GoField("Age", "age", "int8")), GoField("Born", "born", "Date")>>]]
  @@ ("*Person" :> [kind |-> "pointer", elem |-> "Person"])
  @@ ("[]Person" :> [kind |-> "slice", elem |-> "Person"])
  @@ ("string" :> [kind |-> "string"])
  @@ ("int8" :> [kind |-> "int", range |-> [min |-> -4, max |-> 3]])
  @@ ("Date" :> [kind |-> "text", texts |-> {"", "1"}])
  @@ ("interface" :> [kind |-> "interface"])
  @@ ("map" :> [kind |-> "map"])

MCInt64  == [min |-> -8, max |-> 7]
MCUint64 == [min |-> 0, max |-> 15]

Parts(negative, digits, fraction, exponent) ==
  [negative |-> negative, digits |-> digits, fraction |-> fraction, exponent |-> exponent]
MCNumberText ==
  [n \in {ToString(k) : k \in -4..5} |->
     LET k == CHOOSE k \in -4..5 : ToString(k) = n
     IN  Parts(k < 0, IF k < 0 THEN -k ELSE k, 0, 0)]
  @@ ("1.0" :> Parts(FALSE, 10, 1, 0)) @@ ("0.3E1" :> Parts(FALSE, 3, 1, 1))
  @@ ("1.5" :> Parts(FALSE, 15, 1, 0)) @@ ("1E1" :> Parts(FALSE, 1, 0, 1))
  @@ ("-1.7E1" :> Parts(TRUE, 17, 1, 1))
\* In tenths.
MCNumberValue ==
  [n \in {ToString(k) : k \in -4..5} |-> 10 * (CHOOSE k \in -4..5 : ToString(k) = n)]
  @@ ("1.0" :> 10) @@ ("0.3E1" :> 30) @@ ("1.5" :> 15) @@ ("1E1" :> 100) @@ ("-1.7E1" :> -170)

One(key, value)    == Object(<<Field(key, value)>>)
Both(k, v, l, w)   == Object(<<Field(k, v), Field(l, w)>>)
Person(age)        == Both("age", age, "born", Str("1"))
Ages == {Num(n) : n \in {"3", "4", "-4", "1.0", "0.3E1", "1.5", "1E1", "-1.7E1"}}

\* Values of every kind for every field, then what goes wrong late: after an
\* earlier field, in the second element, in the second field of an element.
MCDocuments ==
  {Object(<<>>), Array(<<>>), One("name", Num("1")), One("Owner", Str("x")), One("-", Str("x")),
   One("map", Object(<<>>)), One("count", Num("1")), One("any", Null),
   One("any", Both("b", Num("1.0"), "a", Array(<<Null, One("a", Num("1.5"))>>)))}
  \cup {Both("name", Str("x"), "main", One("age", n)) : n \in Ages}
  \cup {Both("main", p, "lead", p) :
          p \in {Person(Num("2")), One("age", Num("1")), One("born", Null), One("born", Str("2"))}}
  \cup {Both(k, v, "name", Str("")) :
          k \in {"lead", "cast"},
          v \in {Null, Str("x"), Person(Num("1")), Array(<<>>), Array(<<Person(Num("3"))>>),
                 Array(<<Person(Num("1")), Person(Num("-4"))>>),
                 Array(<<Person(Num("2")), Person(Str("x"))>>)}}
  \cup {Object(<<Field("map", Null), Field("cast", Array(<<One("age", Num("2"))>>)),
                 Field("any", Num("1"))>>)}

\* Two structs prepared by the caller; what the second one holds as `any` is
\* longer than what a document brings.
MCInitialMemories ==
  {([cell |-> 1, path |-> <<1>>] :> Str("y")) @@ ([cell |-> 1, path |-> <<4>>] :> Str("me"))
   @@ ([cell |-> 1, path |-> <<6, 1>>] :> GoInt(2))
   @@ ([cell |-> 2, path |-> <<5>>] :> Native(One("a", Array(<<Null, Null, Null, Null>>))))}

At(token) == Differ!joinPointer(<<>>, token)
Op(op, pointer, value) == [op |-> op, path |-> pointer, value |-> value]
MCPatches == {<<Op("replace", At("lead"), Null)>>, <<Op("add", At("cast"), Array(<<Person(Num("1"))>>))>>,
              <<Op("remove", At("name"), Void)>>, <<Op("remove", At("any"), Void)>>,
              <<Op("replace", Differ!joinPointer(At("main"), "born"), Num("2"))>>,
              <<Op("replace", <<>>, Null)>>}

MCPatched(m) ==
  LET Diffs == {[source |-> PatchedDocument(m, v, DiffStructs(m, v, w)), like |-> w] :
                  v, w \in Variables}
      Other == {[source |-> PatchedDocument(m, v, p), like |-> 0] : v \in Variables, p \in MCPatches}
  IN  Diffs \cup Other

MCSortedKeys == <<"-", "Owner", "a", "age", "any", "b", "born", "cast", "count", "lead",
                  "main", "map", "name">>

MCSpelling == [t \in ToSet(MCSortedKeys) \cup {"0", "1", "2", "3"} |-> <<t>>]
=============================================================================
