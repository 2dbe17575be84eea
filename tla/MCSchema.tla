------------------------------- MODULE MCSchema -------------------------------
(***************************************************************************)
(* Schema texts of up to three levels: scalar entries with each            *)
(* constraint, at its boundaries and just past them, records with a child  *)
(* in every combination of required, nullable and default, records inside  *)
(* records whose default is empty, complete or wrong, arrays of both, and  *)
(* texts the compiler must reject.                                         *)
(***************************************************************************)
EXTENDS SchemaCompiler

\* Numbers in halves; the exponent of the last one is beyond an int.
MCNumberValue  == ("0" :> 0) @@ ("1" :> 2) @@ ("1.5" :> 3) @@ ("2" :> 4) @@ ("-1" :> -2)
Huge           == Num("1E99999999999999999999")
MCStringLength == ("" :> 0) @@ ("x" :> 1) @@ ("x@y" :> 3)
MCFormats      == ("email" :> {"x@y"})

False  == Scalar("boolean", "false")
Bools  == {True, False}
Empty  == Object(<<>>)
A(v)   == Object(<<Field("a", v)>>)
B(v)   == Object(<<Field("b", v)>>)

\* An entry of a kind with some more fields.
Entry(kind, more) == Object(<<Field("kind", Str(kind))>> \o more)
Named(name, entry) == Object(<<Field("name", Str(name))>> \o entry.fields)
With(entry, key, value) == Object(Append(entry.fields, Field(key, value)))

Numbers == {Entry("number", <<Field("min", lo), Field("max", hi), Field("integer", int)>>) :
              lo, hi \in {Num("1"), Num("1.5"), Num("2")}, int \in Bools}
Strings == {Entry("string", <<Field(k, Num(n))>>) :
              k \in {"min_length", "max_length"}, n \in {"0", "1", "2", "1.5", "-1"}}
           \cup {Entry("string", <<Field("enum", Array(<<Str("x")>>)),
                                   Field("format", Str(f))>>) : f \in {"email", "tel"}}
           \cup {Entry("string", <<Field("format", Str("email"))>>)}
Simple  == {Entry("number", <<>>), Entry("string", <<>>),
            Entry("null", <<>>), Entry("boolean", <<>>)}
Scalars == {Num("0"), Num("1"), Num("1.5"), Num("2"), Huge, Null, True, Str("x"), Str("x@y")}
Defaulted(entries) == entries \cup {With(e, "default", d) : e \in entries, d \in Scalars}

\* A record with one child "a".
Record(child) == Entry("object", <<Field("children", Array(<<Named("a", child)>>))>>)
Flags(e) == {With(With(e, "required", r), "nullable", n) : r, n \in Bools}
Children == UNION {Flags(e) : e \in Defaulted({Entry("number", <<Field("max", Num("1"))>>)})}
Records  == {Record(c) : c \in Children}

\* Records of records, the inner one with a default.
Inner == {Record(With(With(Entry("number", <<>>), "required", True), "default", Num("1"))),
          Record(With(Entry("number", <<>>), "required", True)),
          Record(With(Entry("number", <<>>), "default", Num("2")))}
Outer == {Record(With(With(i, "required", r), "default", d)) :
            i \in Inner, r \in Bools,
            d \in {Empty, A(Num("1")), A(Str("x")), B(Num("1")), Null}}
Arrays == {With(Entry("array", <<Field("items", i)>>), "default", d) :
             i \in Inner \cup {Entry("number", <<>>)},
             d \in {Array(<<>>), Array(<<Num("1")>>), Array(<<Empty>>), Array(<<A(Num("1"))>>)}}

Bad == {Empty, Num("1"), Entry("integer", <<>>), Entry("number", <<Field("min", Huge)>>),
        Entry("string", <<Field("min", Num("1"))>>),
        Entry("number", <<Field("colour", Str("x"))>>),
        Entry("object", <<Field("children", Array(<<Entry("number", <<>>)>>))>>),
        Entry("object", <<Field("children", Array(<<Named("a", Entry("number", <<>>)),
                                                    Named("a", Entry("string", <<>>))>>))>>),
        Entry("array", <<Field("items", Array(<<>>))>>)}

MCSchemaTexts ==
  Defaulted(Numbers \cup Strings \cup Simple) \cup Records \cup Outer \cup Arrays \cup Bad
    \cup {Entry("array", <<Field("items", r)>>) : r \in Records}

Leaves == Scalars \cup {Empty, Array(<<>>)}
MCDocuments == Leaves
  \cup {A(v) : v \in Leaves} \cup {A(A(v)) : v \in {Num("1"), Null, Str("x")}}
  \cup {Array(<<v>>) : v \in Leaves} \cup {Array(<<Empty, A(Num("1"))>>)}
  \cup {Object(<<Field("b", v), Field("a", Num("1"))>>) : v \in {Num("1"), Empty}}
=============================================================================
